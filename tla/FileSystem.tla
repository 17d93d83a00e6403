------------------------------ MODULE FileSystem -------------------------------
(***************************************************************************)
(* FIFA, the file system of the MDJ (MDJ/FSManager.c), and the handlers of *)
(* MDJ/MDJInterface.c that use it, run by the threads of the MDJ's pool.   *)
(*                                                                         *)
(* On disk: the files of metadata, the blocks and the file of the bitmap.  *)
(* In memory: the bitmap.  A request is a job of a thread; a step of a job *)
(* is what it does under bitmapLock, or one call that changes a file on    *)
(* disk.  The process may be killed between two steps; it loads the bitmap *)
(* when it starts again.                                                   *)
(*                                                                         *)
(* The environment is the DAM.  The scripts take turns at a file (that is  *)
(* what wait and signal are for): no two requests work on one path.        *)
(***************************************************************************)
EXTENDS Integers, Sequences, FiniteSets

CONSTANTS
    Paths,      \* the names files may have
    Threads,    \* the threads of the MDJ's pool
    NBlocks,    \* CANTIDAD_BLOQUES
    BlockSize,  \* TAMANIO_BLOQUE
    Newline,    \* the byte a new file is filled with
    Sizes,      \* bound: the sizes files are created with
    Writes,     \* bound: the buffers that are written
    Lengths,    \* bound: the amounts of bytes that are asked for
    MaxRequests,\* bound: the requests that come, at most
    MaxFaults,  \* bound: kills, and calls to open a file that fail
    Absent,     \* no metadata
    Blank       \* metadata that was created but not saved yet

ASSUME BoundsAssumption ==
    /\ NBlocks \in Nat \ {0} /\ BlockSize \in Nat \ {0} /\ MaxFaults \in Nat /\ MaxRequests \in Nat
    /\ Sizes \subseteq Nat /\ Lengths \subseteq Nat
    /\ \A b \in Writes : b \in Seq({b[i] : i \in DOMAIN b})  \* a buffer is a sequence

VARIABLES
    up,         \* the process runs
    bitmap,     \* FSBitMap: the blocks in use
    mapFile,    \* the file of the bitmap: the blocks it says are in use, or Torn
    meta,       \* meta[p]: the metadata of p: TAMANIO and BLOQUES
    data,       \* data[b]: the bytes in the file of block b
    job,        \* job[t]: the request that thread t serves
    requests,   \* how many requests have come
    faults,     \* how many faults there have been
    damaged,    \* the disk may hold what an operation cut short has left
    astray,     \* the blocks a start or a fault left used without owner, or the reverse
    outdated    \* the file of the bitmap holds a copy older than one already written

disk == <<mapFile, meta, data>>
history == <<faults, damaged, astray, outdated>>
vars == <<up, bitmap, disk, job, requests, history>>

Blocks == 0 .. NBlocks - 1
Torn == {-1}            \* the file was truncated and not written yet
Idle == [pc |-> "idle"]
CeilDiv(n, k) == (n + k - 1) \div k
Smaller(m, n) == IF m < n THEN m ELSE n
Larger(m, n) == IF m < n THEN n ELSE m
Elements(s) == {s[i] : i \in DOMAIN s}

OK == 0
EXISTING_FILE == 1
METADATA_CREATE_ERROR == 2
INSUFFICIENT_SPACE == 10
METADATA_OPEN_ERROR == 11
FILE_NOT_EXISTS == 12
NOT_FOUND == 404

HasFile(p) == meta[p] # Absent
Saved(p) == meta[p] \notin {Absent, Blank}
Size(p) == meta[p].size
BlocksOf(p) == IF Saved(p) THEN Elements(meta[p].blocks) ELSE {}

\* The byte at i of a file with those blocks, 0 where there is none.
ByteAt(blocks, i) ==
    LET k == (i \div BlockSize) + 1
        o == (i % BlockSize) + 1 IN
    IF k <= Len(blocks) /\ o <= Len(data[blocks[k]]) THEN data[blocks[k]][o] ELSE 0
Content(p) ==
    IF Saved(p) THEN [i \in 1 .. Size(p) |-> ByteAt(meta[p].blocks, i - 1)] ELSE meta[p]

\* A job keeps in was, for the refinement only, what its file held before it.
At(t, pc) == up /\ job[t].pc = pc
Goes(t, j) == job' = [job EXCEPT ![t] = j]
Working(t, p) == job[t].pc \notin {"idle", "done"} /\ job[t].path = p
AtRest(p) == \A t \in Threads : ~Working(t, p)

\* A request reaches a thread of the pool that has nothing to do.
Arrives(t, p) ==
    /\ At(t, "idle") /\ AtRest(p)
    /\ requests < MaxRequests /\ requests' = requests + 1
\* It is answered with a code, or with the bytes read.
Finishes(t, c) == Goes(t, [pc |-> "done", code |-> c, bytes |-> <<>>])

\* A call to open a file fails.
Fault == faults < MaxFaults /\ faults' = faults + 1

\* The process falls, or is killed: what it had in memory is gone.
Falls ==
    /\ up' = FALSE /\ bitmap' = {}
    /\ job' = [t \in Threads |-> Idle]
    /\ damaged' = TRUE
    /\ UNCHANGED <<disk, astray, outdated>>

(***************************************************************************)
(* Blocks and positions.                                                   *)
(***************************************************************************)
FIFA_GetBlockFromOffset(offset) == CeilDiv(offset, BlockSize) - 1
FIFA_GetFirstByteFromOffset(offset) == offset % BlockSize

\* MUTANT of FirstBlock: the index is not increased at the start of a block.
FirstBlockBefore(offset) == Larger(FIFA_GetBlockFromOffset(offset), 0)
\* The index, in BLOQUES, of the block that holds the byte at offset.
FirstBlock(offset) ==
    IF FIFA_GetFirstByteFromOffset(offset) = 0
      THEN FIFA_GetBlockFromOffset(offset) + 1
      ELSE FIFA_GetBlockFromOffset(offset)

\* FIFA_BlockPutContent: buffer over s from the byte at on; a block is not
\* truncated, and what lies between its end and at reads as zeros.
PutContent(s, at, buffer) ==
    [i \in 1 .. Larger(Len(s), at + Len(buffer)) |->
       IF at < i /\ i <= at + Len(buffer) THEN buffer[i - at]
       ELSE IF i <= Len(s) THEN s[i] ELSE 0]

\* What FIFA_ReadFile copies of the blocks bl: it asks each for what is left of it,
\* or for what is left to read, and gets what the block has.
ReadFile(bl, offset, n) ==
    LET first == FirstBlock(offset)
        from(i) == IF i = first THEN FIFA_GetFirstByteFromOffset(offset) ELSE 0
        asked(i) == (i - first + 1) * BlockSize - FIFA_GetFirstByteFromOffset(offset)
        copied[i \in first - 1 .. Len(bl) - 1] ==
          IF i < first THEN <<>>
          ELSE LET s == data[bl[i + 1]]
                   tam == IF asked(i) > n THEN n - Len(copied[i - 1]) ELSE BlockSize - from(i)
               IN copied[i - 1] \o SubSeq(s, from(i) + 1, Smaller(from(i) + tam, Len(s)))
        last == {i \in first .. Len(bl) - 1 : asked(i) >= n}
    IN IF first >= Len(bl) THEN <<>>
       ELSE IF last = {} THEN copied[Len(bl) - 1]
       ELSE copied[CHOOSE i \in last : \A k \in last : i <= k]

(***************************************************************************)
(* FIFA_ReserveBlocks: the blocks are tested one by one from the first,    *)
(* for each of the blocks needed.                                          *)
(***************************************************************************)
\* MUTANT of ReserveTests: without the lock, a bit another thread is setting reads as free.
SeenFree(t, b) == \E u \in Threads \ {t} : job[u].pc = "reserve" /\ b \in Elements(job[u].got)
ReserveTestsUnlocked(t) ==
    /\ At(t, "reserve") /\ Len(job[t].got) < job[t].need /\ job[t].at < NBlocks
    /\ LET j == job[t] IN
         IF j.at \in bitmap /\ ~SeenFree(t, j.at)
           THEN Goes(t, [j EXCEPT !.at = @ + 1]) /\ UNCHANGED bitmap
           ELSE /\ bitmap' = bitmap \cup {j.at}
                /\ Goes(t, [j EXCEPT !.got = Append(@, j.at), !.at = 0])
    /\ UNCHANGED <<requests, up, disk, history>>

\* FIFA_ReserveBlockIfNotUsed tests the bit and sets it under bitmapLock.
ReserveTests(t) ==
    /\ At(t, "reserve") /\ Len(job[t].got) < job[t].need /\ job[t].at < NBlocks
    /\ LET j == job[t] IN
         IF j.at \in bitmap
           THEN Goes(t, [j EXCEPT !.at = @ + 1]) /\ UNCHANGED bitmap
           ELSE /\ bitmap' = bitmap \cup {j.at}
                /\ Goes(t, [j EXCEPT !.got = Append(@, j.at), !.at = 0])
    /\ UNCHANGED <<requests, up, disk, history>>

\* All have been tested and there are not enough: those reserved are given back.
ReserveFails(t) ==
    /\ At(t, "reserve") /\ Len(job[t].got) < job[t].need /\ job[t].at = NBlocks
    /\ Goes(t, [job[t] EXCEPT !.pc = "rollback", !.code = INSUFFICIENT_SPACE])
    /\ UNCHANGED <<requests, up, bitmap, disk, history>>

Enough(t) == At(t, "reserve") /\ Len(job[t].got) = job[t].need

\* MUTANT of RollsBack: the error path gives nothing back.
RollsBackNothing(t) ==
    /\ At(t, "rollback")
    /\ Finishes(t, job[t].code)
    /\ UNCHANGED <<requests, up, bitmap, disk, history>>

\* FIFA_FreeBlock on one of them, under bitmapLock.
RollsBack(t) ==
    /\ At(t, "rollback")
    /\ LET j == job[t] IN
         IF j.got = <<>>
           THEN Finishes(t, j.code) /\ UNCHANGED bitmap
           ELSE bitmap' = bitmap \ {Head(j.got)} /\ Goes(t, [j EXCEPT !.got = Tail(@)])
    /\ UNCHANGED <<requests, up, disk, history>>

(***************************************************************************)
(* FIFA_FlushBitmap, at the end of each operation that changes something.  *)
(***************************************************************************)
\* fopen truncates the file; the bitmap is copied, under bitmapLock, to a buffer.
FlushCopies(t) ==
    /\ At(t, "flush")
    /\ mapFile' = Torn
    /\ Goes(t, [pc |-> "close", path |-> job[t].path, was |-> job[t].was, map |-> bitmap, late |-> FALSE,
                older |-> {u \in Threads : job[u].pc = "close"}])
    /\ UNCHANGED <<requests, up, bitmap, meta, data, history>>

\* fclose writes the buffer, whatever other threads have written since: a copy that
\* is older than the one written now will be late.
FlushCloses(t) ==
    /\ At(t, "close")
    /\ mapFile' = job[t].map
    /\ outdated' = job[t].late
    /\ job' = [u \in Threads |->
                 IF u = t THEN [pc |-> "done", code |-> OK, bytes |-> <<>>]
                 ELSE IF job[u].pc = "close"
                   THEN [job[u] EXCEPT !.late = @ \/ u \in job[t].older, !.older = @ \ {t}]
                   ELSE job[u]]
    /\ UNCHANGED <<requests, up, bitmap, meta, data, faults, damaged, astray>>

(***************************************************************************)
(* FIFA_CreateFile.                                                        *)
(***************************************************************************)
CreateArrives(t, p, n) ==
    /\ Arrives(t, p)
    /\ IF HasFile(p)
         THEN Finishes(t, EXISTING_FILE)
         ELSE Goes(t, [pc |-> "reserve", path |-> p, was |-> Absent, op |-> "create",
                       size |-> n, need |-> CeilDiv(n, BlockSize), got |-> <<>>, at |-> 0,
                       code |-> OK])
    /\ UNCHANGED <<up, bitmap, disk, history>>

\* The blocks are there: fopen creates the metadata, empty, or cannot.
CreateMakes(t) ==
    /\ Enough(t) /\ job[t].op = "create"
    /\ \/ /\ meta' = [meta EXCEPT ![job[t].path] = Blank]
          /\ Goes(t, [job[t] EXCEPT !.pc = "save"])
          /\ UNCHANGED faults
       \/ /\ Fault
          /\ Goes(t, [job[t] EXCEPT !.pc = "rollback", !.code = METADATA_CREATE_ERROR])
          /\ UNCHANGED meta
    /\ UNCHANGED <<requests, up, bitmap, mapFile, data, damaged, astray, outdated>>

\* FIFA_OpenFile reads it back, or cannot, and the file stays as it is; the size and
\* the blocks are set and config_save writes them.
CreateSaves(t) ==
    /\ At(t, "save") /\ job[t].op = "create"
    /\ LET j == job[t] IN
         \/ /\ meta' = [meta EXCEPT ![j.path] = [size |-> j.size, blocks |-> j.got]]
            /\ Goes(t, [pc |-> "fill", path |-> j.path, was |-> Absent, blocks |-> j.got,
                        left |-> j.size])
            /\ UNCHANGED <<faults, damaged>>
         \/ /\ Fault /\ damaged' = TRUE
            /\ Goes(t, [j EXCEPT !.pc = "rollback", !.code = METADATA_OPEN_ERROR])
            /\ UNCHANGED meta
    /\ UNCHANGED <<requests, up, bitmap, mapFile, data, astray, outdated>>

\* FIFA_BlockPutContent fills the next block with newlines.
CreateFills(t) ==
    /\ At(t, "fill")
    /\ LET j == job[t]
           cant == Smaller(j.left, BlockSize) IN
         IF j.blocks = <<>>
           THEN Goes(t, [pc |-> "flush", path |-> j.path, was |-> Absent]) /\ UNCHANGED data
           ELSE /\ data' = [data EXCEPT ![Head(j.blocks)] =
                              PutContent(@, 0, [i \in 1 .. cant |-> Newline])]
                /\ Goes(t, [j EXCEPT !.blocks = Tail(@), !.left = @ - cant])
    /\ UNCHANGED <<requests, up, bitmap, mapFile, meta, history>>

(***************************************************************************)
(* FIFA_WriteFile.                                                         *)
(***************************************************************************)
\* The loop over the blocks: i is the index of the next one.
PutLoop(p, was, size, blocks, offset, buffer) ==
    [pc |-> "put", path |-> p, was |-> was, size |-> size, blocks |-> blocks,
     i |-> FirstBlock(offset), from |-> FIFA_GetFirstByteFromOffset(offset), buffer |-> buffer]

\* The space that is taken to be left: a file without blocks counts as having one.
AvailableSpaceInLastBlock(p) == Larger(Len(meta[p].blocks), 1) * BlockSize - Size(p)

NewBytes(p, offset, buffer) == offset + Len(buffer) - Size(p)

\* The metadata is read: without a size in it, atoi follows a null pointer.
WriteArrives(t, p, offset, buffer) ==
    /\ Arrives(t, p)
    /\ \/ /\ ~HasFile(p)
          /\ Finishes(t, FILE_NOT_EXISTS)
          /\ UNCHANGED <<up, bitmap, history>>
       \/ /\ HasFile(p) /\ Fault
          /\ Finishes(t, METADATA_OPEN_ERROR)
          /\ UNCHANGED <<up, bitmap, damaged, astray, outdated>>
       \/ /\ meta[p] = Blank
          /\ Falls /\ UNCHANGED faults
       \/ /\ Saved(p)
          /\ LET new == NewBytes(p, offset, buffer) IN
               IF new > 0 /\ new > AvailableSpaceInLastBlock(p)
                 THEN Goes(t, [pc |-> "reserve", path |-> p, was |-> Content(p), op |-> "write",
                               need |-> CeilDiv(new, BlockSize), got |-> <<>>, at |-> 0,
                               offset |-> offset, buffer |-> buffer, code |-> OK])
                 ELSE Goes(t, PutLoop(p, Content(p), Larger(Size(p), offset + Len(buffer)),
                                      meta[p].blocks, offset, buffer))
          /\ UNCHANGED <<up, bitmap, history>>
    /\ UNCHANGED disk

\* The blocks reserved follow those the file has.
WriteExtends(t) ==
    /\ Enough(t) /\ job[t].op = "write"
    /\ LET j == job[t] IN
         Goes(t, PutLoop(j.path, j.was, j.offset + Len(j.buffer), meta[j.path].blocks \o j.got,
                         j.offset, j.buffer))
    /\ UNCHANGED <<requests, up, bitmap, disk, history>>

Fitting(j) == Smaller(BlockSize - j.from, Len(j.buffer))

\* FIFA_BlockPutContent writes to the next block what fits in it.
WritePuts(t) ==
    /\ At(t, "put") /\ job[t].i < Len(job[t].blocks) /\ job[t].buffer # <<>>
    /\ LET j == job[t]
           tam == Fitting(j) IN
         /\ data' = [data EXCEPT ![j.blocks[j.i + 1]] =
                       PutContent(@, j.from, SubSeq(j.buffer, 1, tam))]
         /\ Goes(t, [j EXCEPT !.i = @ + 1, !.from = 0,
                              !.buffer = SubSeq(@, tam + 1, Len(@))])
    /\ UNCHANGED <<requests, up, bitmap, mapFile, meta, history>>

\* MUTANT of WriteSaves: the bitmap is not saved at the end.
WriteSavesOnly(t) ==
    /\ At(t, "put") /\ (job[t].buffer = <<>> \/ job[t].i >= Len(job[t].blocks))
    /\ LET j == job[t] IN
         /\ meta' = [meta EXCEPT ![j.path] = [size |-> j.size, blocks |-> j.blocks]]
         /\ Finishes(t, OK)
    /\ UNCHANGED <<requests, up, bitmap, mapFile, data, history>>

\* Nothing is left to write, or no block to write it to: config_save.
WriteSaves(t) ==
    /\ At(t, "put") /\ (job[t].buffer = <<>> \/ job[t].i >= Len(job[t].blocks))
    /\ LET j == job[t] IN
         /\ meta' = [meta EXCEPT ![j.path] = [size |-> j.size, blocks |-> j.blocks]]
         /\ Goes(t, [pc |-> "flush", path |-> j.path, was |-> j.was])
    /\ UNCHANGED <<requests, up, bitmap, mapFile, data, history>>

(***************************************************************************)
(* FIFA_DeleteFile.                                                        *)
(***************************************************************************)
DeleteArrives(t, p) ==
    /\ Arrives(t, p)
    /\ \/ /\ ~HasFile(p)
          /\ Finishes(t, FILE_NOT_EXISTS)
          /\ UNCHANGED <<up, bitmap, history>>
       \/ /\ meta[p] = Blank
          /\ Falls /\ UNCHANGED faults
       \/ /\ Saved(p)
          /\ Goes(t, [pc |-> "wipe", path |-> p, was |-> Content(p), blocks |-> meta[p].blocks])
          /\ UNCHANGED <<up, bitmap, history>>
    /\ UNCHANGED disk

\* The file of the next block is truncated, and FIFA_FreeBlock; when it cannot be
\* opened the block stays in use for ever.
DeleteWipes(t) ==
    /\ At(t, "wipe") /\ job[t].blocks # <<>>
    /\ LET b == Head(job[t].blocks) IN
         \/ /\ data' = [data EXCEPT ![b] = <<>>]
            /\ bitmap' = bitmap \ {b}
            /\ UNCHANGED history
         \/ /\ Fault
            /\ astray' = astray \cup {b}
            /\ UNCHANGED <<bitmap, data, damaged, outdated>>
    /\ Goes(t, [job[t] EXCEPT !.blocks = Tail(@)])
    /\ UNCHANGED <<requests, up, mapFile, meta>>

DeleteRemoves(t) ==
    /\ At(t, "wipe") /\ job[t].blocks = <<>>
    /\ meta' = [meta EXCEPT ![job[t].path] = Absent]
    /\ Goes(t, [pc |-> "flush", path |-> job[t].path, was |-> job[t].was])
    /\ UNCHANGED <<requests, up, bitmap, mapFile, data, history>>

(***************************************************************************)
(* FIFA_IsFileValid, FIFA_ReadFile, and the answers.                       *)
(***************************************************************************)
CheckArrives(t, p) ==
    /\ Arrives(t, p)
    /\ Finishes(t, IF HasFile(p) THEN 1 ELSE 0)
    /\ UNCHANGED <<up, bitmap, disk, history>>

\* Nobody else touches the file: its blocks are read in one step.
GetArrives(t, p, offset, n) ==
    /\ Arrives(t, p)
    /\ \/ /\ ~HasFile(p)
          /\ Finishes(t, NOT_FOUND)
          /\ UNCHANGED <<up, bitmap, history>>
       \/ /\ meta[p] = Blank
          /\ Falls /\ UNCHANGED faults
       \/ /\ Saved(p)
          /\ Goes(t, [pc |-> "done", code |-> OK,
                      bytes |-> ReadFile(meta[p].blocks, offset, n)])
          /\ UNCHANGED <<up, bitmap, history>>
    /\ UNCHANGED disk

\* The handler sends the answer and its thread is free.
Reply(t) ==
    /\ At(t, "done")
    /\ Goes(t, Idle)
    /\ UNCHANGED <<requests, up, bitmap, disk, history>>

(***************************************************************************)
(* The process.                                                            *)
(***************************************************************************)
\* It is killed, or its console exits: FIFA_ShutDown does not save the bitmap.
Kill == up /\ Fault /\ Falls /\ UNCHANGED requests

Owned == UNION {BlocksOf(p) : p \in Paths}
\* A kill in the middle of a delete leaves its metadata with blocks already given away.
Shared == {b \in Blocks : \E p, q \in Paths : p # q /\ b \in BlocksOf(p) \cap BlocksOf(q)}

\* FIFA_Start: FIFA_ReadBitmap loads the file, or whatever malloc returns when it
\* is empty.
FIFA_Start ==
    /\ ~up
    /\ up' = TRUE
    /\ \E m \in (IF mapFile = Torn THEN SUBSET Blocks ELSE {mapFile}) :
          /\ bitmap' = m
          /\ astray' = astray \cup ((m \ Owned) \cup (Owned \ m)) \cup Shared
    /\ UNCHANGED <<requests, disk, job, faults, damaged, outdated>>

-----------------------------------------------------------------------------
\* FIFA_InitBitmapFile: no bitmap on disk, no files, empty blocks.
Init ==
    /\ up = TRUE /\ bitmap = {} /\ mapFile = {}
    /\ meta = [p \in Paths |-> Absent] /\ data = [b \in Blocks |-> <<>>]
    /\ job = [t \in Threads |-> Idle]
    /\ requests = 0 /\ faults = 0 /\ damaged = FALSE /\ astray = {} /\ outdated = FALSE

Offsets(p) == IF Saved(p) THEN 0 .. Size(p) ELSE {0}
Request(t, p) ==
    \/ \E n \in Sizes : CreateArrives(t, p, n)
    \/ \E o \in Offsets(p) : \E b \in Writes : WriteArrives(t, p, o, b)
    \/ \E o \in Offsets(p), n \in Lengths : GetArrives(t, p, o, n)
    \/ DeleteArrives(t, p)
    \/ CheckArrives(t, p)
Step(t) ==
    \/ ReserveTests(t) \/ ReserveFails(t) \/ RollsBack(t)
    \/ CreateMakes(t) \/ CreateSaves(t) \/ CreateFills(t)
    \/ WriteExtends(t) \/ WritePuts(t) \/ WriteSaves(t)
    \/ DeleteWipes(t) \/ DeleteRemoves(t)
    \/ FlushCopies(t) \/ FlushCloses(t) \/ Reply(t)
Next ==
    \/ \E t \in Threads : Step(t) \/ \E p \in Paths : Request(t, p)
    \/ Kill \/ FIFA_Start

Spec == Init /\ [][Next]_vars

-----------------------------------------------------------------------------
\* What a job has in hand while it serves a request, besides the path.
Values == {Newline, 0} \cup UNION {Elements(b) : b \in Writes}
Bytes(s) == Elements(s) \subseteq Values
BlockSeq(s) == Elements(s) \subseteq Blocks
JobOK(j) ==
    \/ j = Idle
    \/ j.pc = "done" /\ Bytes(j.bytes)
    \/ /\ j.pc \in {"reserve", "rollback", "save"}
       /\ j.path \in Paths /\ BlockSeq(j.got) /\ j.at \in 0 .. NBlocks
       /\ Len(j.got) <= j.need
    \/ j.pc \in {"fill", "wipe"} /\ j.path \in Paths /\ BlockSeq(j.blocks)
    \/ /\ j.pc = "put" /\ j.path \in Paths /\ BlockSeq(j.blocks) /\ Bytes(j.buffer)
       /\ j.from \in 0 .. BlockSize - 1
    \/ j.pc = "flush" /\ j.path \in Paths
    \/ j.pc = "close" /\ j.path \in Paths /\ j.map \subseteq Blocks

\* Every variable holds a value of its kind; no block is longer than its size.
TypeOK ==
    /\ up \in BOOLEAN /\ bitmap \subseteq Blocks
    /\ mapFile = Torn \/ mapFile \subseteq Blocks
    /\ \A p \in Paths : Saved(p) => Size(p) \in Nat /\ BlockSeq(meta[p].blocks)
    /\ \A b \in Blocks : Len(data[b]) <= BlockSize /\ Bytes(data[b])
    /\ \A t \in Threads : JobOK(job[t])
    /\ requests \in 0 .. MaxRequests /\ faults \in 0 .. MaxFaults /\ astray \subseteq Blocks
    /\ damaged \in BOOLEAN /\ outdated \in BOOLEAN

\* The blocks a job holds, reserved or still to be freed.
Reserved(t) ==
    IF job[t].pc \in {"reserve", "rollback", "save"} THEN Elements(job[t].got)
    ELSE IF job[t].pc = "put" THEN Elements(job[t].blocks) ELSE {}
Wiping(t, p) == job[t].pc = "wipe" /\ job[t].path = p

\* The blocks of p: those of its metadata that a deletion has not freed yet, and
\* those reserved for it.
Holds(p) ==
    (IF \E t \in Threads : Wiping(t, p)
       THEN UNION {Elements(job[t].blocks) : t \in {t \in Threads : Wiping(t, p)}}
       ELSE BlocksOf(p))
    \cup UNION {Reserved(t) : t \in {t \in Threads : Working(t, p)}}

\* No block belongs to two files, nor twice to one, and the blocks of a file are in
\* use in the bitmap, whatever is created, extended, refused and deleted at the same
\* time; only the blocks that a start found wrong in the bitmap's file are excepted.
SoleOwner ==
    up => /\ \A p, q \in Paths : p # q => Holds(p) \cap Holds(q) \subseteq astray
          /\ \A p \in Paths : Saved(p) =>
               \A i, k \in DOMAIN meta[p].blocks :
                 meta[p].blocks[i] = meta[p].blocks[k] => i = k \/ meta[p].blocks[i] \in astray
          /\ \A p \in Paths : Holds(p) \subseteq bitmap \cup astray

\* No block is lost: what is in use belongs to a file or to an operation under way,
\* so an operation that was refused has given back all it reserved, as the comment in
\* FIFA_ReserveBlocks says; the blocks a delete could not open are excepted.
NoBlockLost == bitmap \subseteq (UNION {Holds(p) : p \in Paths}) \cup astray

\* What was answered stays after a restart: the file of the bitmap has the blocks of
\* each file nobody is working on, unless a flush was overtaken by another.
MapSaved ==
    up /\ mapFile # Torn /\ ~outdated
      => \A p \in Paths : AtRest(p) => BlocksOf(p) \subseteq mapFile \cup astray

(***************************************************************************)
(* Each operation takes effect at once, when it is answered: a file's      *)
(* bytes are those written, wherever its blocks are.                       *)
(***************************************************************************)
Unspecified == Blank
store ==
    IF damaged THEN Unspecified
    ELSE [p \in Paths |->
            IF AtRest(p) THEN Content(p)
            ELSE job[CHOOSE t \in Threads : Working(t, p)].was]
answered ==
    [t \in Threads |->
       IF job[t].pc = "done" /\ ~damaged
         THEN [code |-> job[t].code, bytes |-> job[t].bytes]
         ELSE [code |-> -1, bytes |-> <<>>]]
Store == INSTANCE FileStore WITH files <- store, answer <- answered

\* The file system implements the store of files: what is read is what was written,
\* and an operation that is refused changes nothing.
StoreImplemented == Store!Spec

\* A write is answered with success only when no byte of its buffer is left to be
\* stored, as FSManager.h says of FIFA_WriteFile.
StoresWhatItAccepts ==
    [][\A t \in Threads : WriteSaves(t) => job[t].buffer = <<>>]_vars
=============================================================================
