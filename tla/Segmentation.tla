----------------------------- MODULE Segmentation -----------------------------
(***************************************************************************)
(* FM9's memory under pure segmentation (MODO=SEG): FM9/Segmentation.c and *)
(* the handlers of FM9/FM9Interface.c that reach it, run by the workers of *)
(* FM9's thread pool.  A request is a job of a worker; a step of a job is  *)
(* what it does in one critical section, or to one structure outside any.  *)
(*                                                                         *)
(* free is the list freeSegments.  It is ordered by base and its segments  *)
(* have different bases, so a set of segments stands for it.  segs holds   *)
(* the segments of the table segmentsPerDTBTable, each with the DTB and    *)
(* the number it is filed under; known holds the keys of that table.       *)
(* storage says, for each line, which DTB's file was written there last.   *)
(*                                                                         *)
(* The DTBs are the environment: what they ask for comes through CPU and   *)
(* DAM, one request at a time each, but the console's finalizar has a CPU  *)
(* ask for the release of a DTB's memory whatever that DTB is doing.       *)
(***************************************************************************)
EXTENDS Integers, FiniteSets

CONSTANTS
    DTBs,       \* the ids of the DTBs that ever run
    Workers,    \* the threads of FM9's pool
    Lines,      \* cantLineas: how many lines the memory has
    MaxFile,    \* bound: the lines a file takes, at most
    MaxFiles,   \* bound: the files a DTB opens, at most
    MaxKills,   \* bound: the DTBs the console is told to finish, at most
    Nobody      \* the owner of a line that was never written

ASSUME BoundsAssumption == Lines \in Nat \ {0} /\ MaxFile \in Nat /\ MaxFiles \in Nat

VARIABLES
    free,       \* freeSegments
    known,      \* the DTBs with an entry in segmentsPerDTBTable
    next,       \* next[d]: nextSegmentNumber of d's entry
    segs,       \* the segments filed in those entries
    storage,    \* storage[x]: the DTB whose data line x holds
    job,        \* job[w]: the request that worker w serves
    releasing,  \* releasing[w]: segments w took out of the table, not yet free
    dangling,   \* the workers whose t_segments pointer is no longer in the table
    crashed,    \* FM9 fell over a null or dangling pointer, or frees a segment twice
    status,     \* status[d]: "new", "running", "waiting" for an answer or "ended"
    pending,    \* the DTBs whose operation has reached DAM but not yet FM9
    killed,     \* the DTBs the console was told to finish
    closes,     \* closes[d]: the CLOSEDTB messages for d on their way
    opened      \* opened[d]: openedFiles, the file numbers in d's addresses

memory == <<free, known, next, segs, storage>>
clients == <<status, pending, killed, closes, opened>>
vars == <<memory, job, releasing, dangling, crashed, clients>>

End(s) == s.base + s.limit
Hole == {h \in [base : 0 .. Lines - 1, limit : 1 .. Lines] : End(h) <= Lines}
Numbers == 0 .. MaxFiles - 1
Segment == {s \in [dtb : DTBs, number : Nat, base : 0 .. Lines - 1, limit : 1 .. Lines] :
              End(s) <= Lines}
Idle == [pc |-> "idle"]

\* Two segments have no line in common.
Apart(s, t) == End(s) <= t.base \/ End(t) <= s.base

(***************************************************************************)
(* The free list.                                                          *)
(***************************************************************************)
\* list_remove_by_condition with enoughSpaceSegment: the first that is enough.
Fits(n) == {h \in free : h.limit >= n}
IsFirstFit(h, n) == h \in Fits(n) /\ \A g \in Fits(n) : h.base <= g.base

\* addFreeSegment: adding s to a list no two segments of which touch, sorting it
\* and compacting it merges s with the segment before it and the one after it.
Lower(S, s) == IF \E h \in S : End(h) = s.base
                 THEN (CHOOSE h \in S : End(h) = s.base).base ELSE s.base
Upper(S, s) == IF \E h \in S : h.base = End(s)
                 THEN End(CHOOSE h \in S : h.base = End(s)) ELSE End(s)
\* MUTANTS of AddFree: no compaction, or only with what comes before.
AddFreeUncompacted(S, s) == S \cup {s}
AddFreeBefore(S, s) ==
    {h \in S : End(h) # s.base}
      \cup {[base |-> Lower(S, s), limit |-> End(s) - Lower(S, s)]}
Merged(S, s) == [base |-> Lower(S, s), limit |-> Upper(S, s) - Lower(S, s)]
AddFree(S, s) ==
    {h \in S : End(h) # s.base /\ h.base # End(s)} \cup {Merged(S, s)}

(***************************************************************************)
(* What the DTBs, CPU and DAM do.                                          *)
(***************************************************************************)
Active(w, pc) == ~crashed /\ job[w].pc = pc
Serve(w, j) == job' = [job EXCEPT ![w] = j]
Answered(d) == IF status[d] = "waiting" THEN "running" ELSE status[d]

\* DAM, or the CPU, is told of an error: the DTB ends and its memory is asked for.
Fails(d) ==
    /\ status' = [status EXCEPT ![d] = "ended"]
    /\ closes' = [closes EXCEPT ![d] = @ + 1]
Succeeds(d) ==
    /\ status' = [status EXCEPT ![d] = Answered(d)]
    /\ UNCHANGED closes

\* The dummy's load, abrir, flush: DAM takes the request of a blocked DTB to FM9.
AskDAM(d) ==
    /\ ~crashed /\ status[d] \in {"new", "running"}
    /\ status' = [status EXCEPT ![d] = "waiting"]
    /\ pending' = pending \cup {d}
    /\ UNCHANGED <<memory, job, releasing, dangling, crashed, killed, closes, opened>>

\* CPU_EndDTB: the script ended or was aborted.  DAM_ErrorOperacion does the same
\* when an operation, or the dummy's load, fails before it gets to FM9.
CPU_EndDTB(d) ==
    /\ ~crashed /\ status[d] \in {"new", "running"}
    /\ Fails(d)
    /\ UNCHANGED <<memory, job, releasing, dangling, crashed, pending, killed, opened>>

\* CommandFinalizar has an idle CPU send CLOSEDTB, whatever d is doing.
CommandFinalizar(d) ==
    /\ ~crashed /\ status[d] # "ended" /\ d \notin killed
    /\ Cardinality(killed) < MaxKills
    /\ killed' = killed \cup {d}
    /\ closes' = [closes EXCEPT ![d] = @ + 1]
    /\ UNCHANGED <<memory, job, releasing, dangling, crashed, status, pending, opened>>

\* SAFA moves a DTB the console finished to EXIT.
EndKilled(d) ==
    /\ ~crashed /\ d \in killed /\ status[d] # "ended"
    /\ status' = [status EXCEPT ![d] = "ended"]
    /\ UNCHANGED <<memory, job, releasing, dangling, crashed, pending, killed, closes, opened>>

(***************************************************************************)
(* FM9_Open and writeData_SEG.                                             *)
(***************************************************************************)
OpenArrives(w, d) ==
    /\ Active(w, "idle") /\ d \in pending
    /\ pending' = pending \ {d}
    /\ UNCHANGED <<known, next, segs, storage, releasing, dangling, crashed, killed, opened>>

\* No segment of the list is large enough: INSUFFICIENT_SPACE.
OpenRefused(w, d, n) ==
    /\ OpenArrives(w, d)
    /\ Fits(n) = {}
    /\ Fails(d)
    /\ UNCHANGED <<free, job>>

\* The whole segment leaves the list until the file is written.
OpenTakes(w, d, n) ==
    /\ OpenArrives(w, d)
    /\ \E h \in free :
          /\ IsFirstFit(h, n)
          /\ free' = free \ {h}
          /\ Serve(w, [pc |-> "write", dtb |-> d, lines |-> n, at |-> 0, hole |-> h])
    /\ UNCHANGED <<status, closes>>

\* One writeLine, under storageLock.
OpenWrites(w) ==
    /\ Active(w, "write")
    /\ LET j == job[w] IN
         /\ storage' = [storage EXCEPT ![j.hole.base + j.at] = j.dtb]
         /\ Serve(w, [j EXCEPT !.at = @ + 1,
                               !.pc = IF j.at + 1 = j.lines THEN "find" ELSE "write"])
    /\ UNCHANGED <<free, known, next, segs, releasing, dangling, crashed, clients>>

\* Another worker is inside dictionary_remove, which holds no lock.
Removing(w) == \E v \in Workers \ {w} : job[v].pc = "remove"

\* Under segmentsLock: the DTB's entry, created if it has none.  An entry put
\* while another worker removes one may be lost with the node it is chained to.
OpenFinds(w) ==
    /\ Active(w, "find")
    /\ LET d == job[w].dtb IN
         IF d \in known
           THEN UNCHANGED <<known, next, dangling>>
           ELSE /\ next' = [next EXCEPT ![d] = 0]
                /\ \/ known' = known \cup {d} /\ UNCHANGED dangling
                   \/ /\ Removing(w)
                      /\ dangling' = dangling \cup {w}
                      /\ UNCHANGED known
    /\ Serve(w, [job[w] EXCEPT !.pc = "file"])
    /\ UNCHANGED <<free, segs, storage, releasing, crashed, clients>>

Taken(j) == [base |-> j.hole.base, limit |-> j.lines]
\* MUTANT of Remainder: the base of the segment is not moved.
RemainderKeepsBase(j) == [base |-> j.hole.base, limit |-> j.hole.limit - j.lines]
Remainder(j) == [base |-> j.hole.base + j.lines, limit |-> j.hole.limit - j.lines]
\* MUTANT of Filed: the new segment gets the limit of the one it is made from.
FiledWhole(j, k) == [dtb |-> j.dtb, number |-> k, base |-> j.hole.base, limit |-> j.hole.limit]
Filed(j, k) == [dtb |-> j.dtb, number |-> k, base |-> j.hole.base, limit |-> j.lines]
FilesRemainder(w, k) ==
    Serve(w, [pc |-> "rest", dtb |-> job[w].dtb, number |-> k, hole |-> Remainder(job[w])])

\* MUTANT of OpenFiles: nextSegmentNumber is not increased.
OpenFilesUncounted(w) ==
    /\ Active(w, "file") /\ w \notin dangling
    /\ segs' = segs \cup {Filed(job[w], next[job[w].dtb])}
    /\ FilesRemainder(w, next[job[w].dtb])
    /\ UNCHANGED <<free, known, next, storage, releasing, dangling, crashed, clients>>

\* The new segment is filed under the next number of the entry found.
OpenFiles(w) ==
    /\ Active(w, "file") /\ w \notin dangling
    /\ LET d == job[w].dtb IN
         /\ segs' = segs \cup {Filed(job[w], next[d])}
         /\ next' = [next EXCEPT ![d] = @ + 1]
    /\ FilesRemainder(w, next[job[w].dtb])
    /\ UNCHANGED <<free, known, storage, releasing, dangling, crashed, clients>>

\* The entry has left the table in the meantime: the segment is lost, or joins
\* those its remover is still freeing, or FM9 falls over the freed entry.  The
\* number is whatever the freed entry's nextSegmentNumber reads as.
OpenFilesNowhere(w) ==
    /\ Active(w, "file") /\ w \in dangling
    /\ dangling' = dangling \ {w}
    /\ \/ UNCHANGED <<releasing, crashed>> /\ \E k \in Numbers : FilesRemainder(w, k)
       \/ /\ \E v \in Workers :
                /\ job[v].pc = "release" /\ job[v].dtb = job[w].dtb
                /\ releasing' = [releasing EXCEPT ![v] = @ \cup {Taken(job[w])}]
          /\ UNCHANGED crashed /\ \E k \in Numbers : FilesRemainder(w, k)
       \/ crashed' = TRUE /\ UNCHANGED <<releasing, job>>
    /\ UNCHANGED <<memory, clients>>

\* What is left of the segment taken goes back to the list; FM9 answers.
OpenReturns(w) ==
    /\ Active(w, "rest")
    /\ free' = IF job[w].hole.limit = 0 THEN free ELSE AddFree(free, job[w].hole)
    /\ Succeeds(job[w].dtb)
    /\ opened' = [opened EXCEPT ![job[w].dtb] = @ \cup {job[w].number}]
    /\ Serve(w, Idle)
    /\ UNCHANGED <<known, next, segs, storage, releasing, dangling, crashed, pending, killed>>

(***************************************************************************)
(* FM9_Close and closeFile_SEG.  The number k is part of the address that  *)
(* the CPU asks to close.                                                  *)
(***************************************************************************)
\* What d's entry holds under the number k.
Under(d, k) == {s \in segs : s.dtb = d /\ s.number = k}
Bare(s) == [base |-> s.base, limit |-> s.limit]

\* The key is looked up under segmentsLock.
CloseArrives(w, d, k) ==
    /\ Active(w, "idle") /\ status[d] = "running" /\ k \in opened[d]
    /\ IF d \in known
         THEN /\ Serve(w, [pc |-> "close", dtb |-> d, number |-> k])
              /\ status' = [status EXCEPT ![d] = "waiting"]
              /\ UNCHANGED closes
         ELSE Fails(d) /\ UNCHANGED job
    /\ UNCHANGED <<memory, releasing, dangling, crashed, pending, killed, opened>>

\* The entry is got without the lock: NULL, and a crash, if it has gone.  It holds one
\* segment under that number, or none.
CloseGets(w) ==
    /\ Active(w, "close")
    /\ LET d == job[w].dtb
           k == job[w].number IN
         IF d \in known
           THEN /\ Serve(w, [pc |-> "got", dtb |-> d, number |-> k, found |-> Under(d, k)])
                /\ UNCHANGED crashed
           ELSE crashed' = TRUE /\ UNCHANGED job
    /\ UNCHANGED <<memory, releasing, dangling, clients>>

Removed(w) == [pc |-> "back", dtb |-> job[w].dtb, number |-> job[w].number]

\* The segment leaves the entry.
CloseRemoves(w) ==
    /\ Active(w, "got") /\ w \notin dangling
    /\ \E s \in Under(job[w].dtb, job[w].number) :
          /\ segs' = segs \ {s}
          /\ releasing' = [releasing EXCEPT ![w] = {Bare(s)}]
    /\ Serve(w, Removed(w))
    /\ UNCHANGED <<free, known, next, storage, dangling, crashed, clients>>

\* It is not there, or not any more: a CLOSEDTB has taken the entry out meanwhile.
CloseMisses(w) ==
    /\ Active(w, "got")
    /\ w \in dangling \/ Under(job[w].dtb, job[w].number) = {}
    /\ Fails(job[w].dtb) /\ Serve(w, Idle)
    /\ dangling' = dangling \ {w}
    /\ UNCHANGED <<memory, releasing, crashed, pending, killed, opened>>

\* Worker v is freeing the segments of the entry that w holds on to.
Destroying(v, w) == job[v].pc = "release" /\ job[v].dtb = job[w].dtb

\* It is still there, and w takes it out before v comes to it.
CloseOvertakes(w) ==
    /\ Active(w, "got") /\ w \in dangling
    /\ \E s \in job[w].found, v \in Workers \ {w} :
          /\ Destroying(v, w) /\ Bare(s) \in releasing[v]
          /\ releasing' = [releasing EXCEPT ![v] = @ \ {Bare(s)}, ![w] = {Bare(s)}]
    /\ Serve(w, Removed(w))
    /\ dangling' = dangling \ {w}
    /\ UNCHANGED <<memory, crashed, clients>>

\* It is still there, although v has put it in freeSegments or is about to: it will be
\* in the list twice.  Nothing more is followed.
CloseFreesTwice(w) ==
    /\ Active(w, "got") /\ w \in dangling
    /\ \E v \in Workers \ {w} : Destroying(v, w)
    /\ \E s \in job[w].found : releasing' = [releasing EXCEPT ![w] = {Bare(s)}]
    /\ Serve(w, Removed(w))
    /\ crashed' = TRUE
    /\ UNCHANGED <<memory, dangling, clients>>

\* What w holds on to is freed memory.
CloseFalls(w) ==
    /\ Active(w, "got") /\ w \in dangling
    /\ crashed' = TRUE
    /\ UNCHANGED <<memory, job, releasing, dangling, clients>>

\* addFreeSegment on one of the segments taken out of the table.
Frees(w, s) ==
    /\ s \in releasing[w]
    /\ free' = AddFree(free, s)
    /\ releasing' = [releasing EXCEPT ![w] = @ \ {s}]
    /\ UNCHANGED <<known, next, segs, storage, dangling, crashed, pending, killed>>

CloseFrees(w) ==
    /\ Active(w, "back")
    /\ \E s \in releasing[w] : Frees(w, s)
    /\ Succeeds(job[w].dtb)
    /\ opened' = [opened EXCEPT ![job[w].dtb] = @ \ {job[w].number}]
    /\ Serve(w, Idle)

(***************************************************************************)
(* FM9_CloseDTB and closeDTBFiles_SEG.                                     *)
(***************************************************************************)
\* The key is looked up under segmentsLock.
CloseDTBArrives(w, d) ==
    /\ Active(w, "idle") /\ closes[d] > 0
    /\ closes' = [closes EXCEPT ![d] = @ - 1]
    /\ IF d \in known THEN Serve(w, [pc |-> "remove", dtb |-> d]) ELSE UNCHANGED job
    /\ UNCHANGED <<memory, releasing, dangling, crashed, status, pending, killed, opened>>

\* dictionary_remove, without the lock: NULL, and a crash, if the key has gone.
CloseDTBRemoves(w) ==
    /\ Active(w, "remove")
    /\ LET d == job[w].dtb
           own == {s \in segs : s.dtb = d} IN
         IF d \in known
           THEN /\ known' = known \ {d}
                /\ segs' = segs \ own
                /\ releasing' = [releasing EXCEPT ![w] =
                                   {Bare(s) : s \in own}]
                /\ dangling' = dangling \cup
                     {v \in Workers : job[v].pc \in {"file", "got"} /\ job[v].dtb = d}
                /\ Serve(w, [job[w] EXCEPT !.pc = "release"])
                /\ UNCHANGED crashed
           ELSE crashed' = TRUE /\ UNCHANGED <<known, segs, releasing, dangling, job>>
    /\ UNCHANGED <<free, next, storage, clients>>

\* dictionaryDestroyer frees the segments one at a time, in the table's order.
CloseDTBFrees(w) ==
    /\ Active(w, "release")
    /\ \E s \in releasing[w] : Frees(w, s)
    /\ UNCHANGED <<job, status, closes, opened>>

CloseDTBEnds(w) ==
    /\ Active(w, "release") /\ releasing[w] = {}
    /\ Serve(w, Idle)
    /\ UNCHANGED <<memory, releasing, dangling, crashed, clients>>

(***************************************************************************)
(* FM9_Flush and readData_SEG.                                             *)
(***************************************************************************)
FlushArrives(w, d, k) ==
    /\ Active(w, "idle") /\ d \in pending /\ k \in opened[d]
    /\ pending' = pending \ {d}
    /\ \/ /\ d \notin known \/ Under(d, k) = {}
          /\ Fails(d) /\ UNCHANGED job
       \/ /\ d \in known
          /\ \E s \in Under(d, k) :
                 Serve(w, [pc |-> "read", dtb |-> d, seg |-> s, at |-> 0, got |-> {}])
          /\ UNCHANGED <<status, closes>>
    /\ UNCHANGED <<memory, releasing, dangling, crashed, killed, opened>>

\* MUTANT of Limits: the loop goes on while linesRead <= limit.
LimitsBeyond(w) == IF job[w].seg \in segs THEN {job[w].seg.limit + 1} ELSE 0 .. Lines

\* The limit is read again before every line; the segment may have been freed.
Limits(w) == IF job[w].seg \in segs THEN {job[w].seg.limit} ELSE 0 .. Lines

\* One readLine, under storageLock.
FlushReads(w) ==
    /\ Active(w, "read")
    /\ \E n \in Limits(w) : job[w].at < n
    /\ job[w].seg.base + job[w].at < Lines
    /\ Serve(w, [job[w] EXCEPT
                   !.at = @ + 1,
                   !.got = @ \cup {storage[job[w].seg.base + job[w].at]}])
    /\ UNCHANGED <<memory, releasing, dangling, crashed, clients>>

\* The lines are all read, or one is past the end of the storage: the answer
\* takes them to MDJ, which may also refuse them.
FlushEnds(w) ==
    /\ Active(w, "read")
    /\ \/ \E n \in Limits(w) : job[w].at >= n
       \/ job[w].seg.base + job[w].at >= Lines
    /\ Succeeds(job[w].dtb) \/ Fails(job[w].dtb)
    /\ Serve(w, Idle)
    /\ UNCHANGED <<memory, releasing, dangling, crashed, pending, killed, opened>>

(***************************************************************************)
(* FM9_AsignLine.                                                          *)
(***************************************************************************)
\* addressTranslation_SEG gives a line of the segment, or the CPU is told that there
\* is none: no such segment, or a line past its end.
AsignArrives(w, d, k) ==
    /\ Active(w, "idle") /\ status[d] = "running" /\ k \in opened[d]
    /\ \/ /\ d \in known
          /\ \E s \in segs : \E x \in s.base .. End(s) - 1 :
                /\ s.dtb = d /\ s.number = k
                /\ Serve(w, [pc |-> "assign", dtb |-> d, line |-> x])
          /\ status' = [status EXCEPT ![d] = "waiting"]
          /\ UNCHANGED closes
       \/ Fails(d) /\ UNCHANGED job
    /\ UNCHANGED <<memory, releasing, dangling, crashed, pending, killed, opened>>

\* writeLine on the line found, whoever has it by now.
AsignWrites(w) ==
    /\ Active(w, "assign")
    /\ storage' = [storage EXCEPT ![job[w].line] = job[w].dtb]
    /\ Succeeds(job[w].dtb)
    /\ Serve(w, Idle)
    /\ UNCHANGED <<free, known, next, segs, releasing, dangling, crashed,
                   pending, killed, opened>>

\* A look into the table while another worker is inside dictionary_remove may
\* follow a node that is already freed.
Collides(w) ==
    /\ ~crashed /\ Removing(w)
    /\ \/ job[w].pc \in {"find", "close", "remove"}
       \/ /\ job[w].pc = "idle"
          /\ \E d \in DTBs : status[d] = "running" \/ d \in pending \/ closes[d] > 0
    /\ crashed' = TRUE
    /\ UNCHANGED <<memory, job, releasing, dangling, clients>>

-----------------------------------------------------------------------------
Init ==
    /\ free = {[base |-> 0, limit |-> Lines]}
    /\ known = {} /\ next = [d \in DTBs |-> 0] /\ segs = {}
    /\ storage = [x \in 0 .. Lines - 1 |-> Nobody]
    /\ job = [w \in Workers |-> Idle]
    /\ releasing = [w \in Workers |-> {}] /\ dangling = {} /\ crashed = FALSE
    /\ status = [d \in DTBs |-> "new"] /\ pending = {} /\ killed = {}
    /\ closes = [d \in DTBs |-> 0] /\ opened = [d \in DTBs |-> {}]

Opens(w) == \E d \in DTBs, n \in 1 .. MaxFile :
                (d \in known => next[d] < MaxFiles) /\ (OpenRefused(w, d, n) \/ OpenTakes(w, d, n))
Next ==
    \/ \E d \in DTBs : \/ AskDAM(d) \/ CPU_EndDTB(d)
                       \/ CommandFinalizar(d) \/ EndKilled(d)
    \/ \E w \in Workers :
          \/ Opens(w) \/ OpenWrites(w) \/ OpenFinds(w)
          \/ OpenFiles(w) \/ OpenFilesNowhere(w) \/ OpenReturns(w)
          \/ \E d \in DTBs : \E k \in opened[d] : \/ CloseArrives(w, d, k)
                                                  \/ FlushArrives(w, d, k)
                                                  \/ AsignArrives(w, d, k)
          \/ CloseGets(w) \/ CloseRemoves(w) \/ CloseMisses(w)
          \/ CloseOvertakes(w) \/ CloseFreesTwice(w) \/ CloseFalls(w) \/ CloseFrees(w)
          \/ \E d \in DTBs : CloseDTBArrives(w, d)
          \/ CloseDTBRemoves(w) \/ CloseDTBFrees(w) \/ CloseDTBEnds(w)
          \/ FlushReads(w) \/ FlushEnds(w) \/ AsignWrites(w)
          \/ Collides(w)

Spec == Init /\ [][Next]_vars

-----------------------------------------------------------------------------
\* The states a worker can be in, and what the job carries in each.
Filing == {"write", "find", "file"}
OpenJob == {j \in [pc : Filing, dtb : DTBs, lines : 1 .. Lines, at : 0 .. Lines, hole : Hole] :
              /\ j.lines <= j.hole.limit /\ j.at <= j.lines
              /\ IF j.pc = "write" THEN j.at < j.lines ELSE j.at = j.lines}
RestJob == {j \in [pc : {"rest"}, dtb : DTBs, number : Nat,
                   hole : [base : 0 .. Lines, limit : 0 .. Lines]] : End(j.hole) <= Lines}
CloseJob == [pc : {"close", "back"}, dtb : DTBs, number : Nat]
GotJob == [pc : {"got"}, dtb : DTBs, number : Nat, found : SUBSET Segment]
CloseDTBJob == [pc : {"remove", "release"}, dtb : DTBs]
FlushJob == [pc : {"read"}, dtb : DTBs, seg : Segment, at : 0 .. Lines,
             got : SUBSET (DTBs \cup {Nobody})]
AsignJob == [pc : {"assign"}, dtb : DTBs, line : 0 .. Lines - 1]

\* Every variable holds a value of its kind; what a worker carries lies inside
\* the memory, and so does every segment of the list and of the table.
TypeOK ==
    /\ free \subseteq Hole /\ known \subseteq DTBs /\ next \in [DTBs -> Nat]
    /\ segs \subseteq Segment
    /\ storage \in [0 .. Lines - 1 -> DTBs \cup {Nobody}]
    /\ job \in [Workers -> {Idle} \cup OpenJob \cup RestJob
                              \cup CloseJob \cup GotJob \cup CloseDTBJob
                              \cup FlushJob \cup AsignJob]
    /\ releasing \in [Workers -> SUBSET Hole] /\ dangling \subseteq Workers
    /\ crashed \in BOOLEAN
    /\ status \in [DTBs -> {"new", "running", "waiting", "ended"}]
    /\ pending \subseteq DTBs /\ killed \subseteq DTBs /\ closes \in [DTBs -> Nat]
    /\ opened \in [DTBs -> SUBSET Nat]

\* What worker w has in hand: neither in the list nor in the table.
InHand(w) == IF job[w].pc \in Filing \cup {"rest"} /\ job[w].hole.limit > 0
               THEN {job[w].hole} ELSE {}
Holds(w) == releasing[w] \cup InHand(w)

\* Two segments of the list, of the table, or in the hands of workers of W never have
\* a line in common.
OwnersApart(W) ==
    /\ \A h, g \in free : h = g \/ Apart(h, g)
    /\ \A s, t \in segs : s = t \/ Apart(s, t)
    /\ \A h \in free, s \in segs : Apart(h, s)
    /\ \A w \in W : \A r \in Holds(w) :
          /\ \A h \in free : Apart(r, h)
          /\ \A s \in segs : Apart(r, s)
          /\ \A v \in W : \A q \in Holds(v) : (v = w /\ q = r) \/ Apart(r, q)

\* Worker w may be about to give back what the release of a finished DTB's memory gives
\* back too.
Twice(w) == crashed /\ job[w].pc = "back" /\ job[w].dtb \in killed

\* No line has two owners, whatever FM9's workers take, split, file, remove and give
\* back at once (writeData_SEG, closeFile_SEG, closeDTBFiles_SEG), until a close gives a
\* segment back that CLOSEDTB gives back too: only a DTB that the console had finished
\* in the middle of its close can have that done, never one that ends by itself.
OneOwner == OwnersApart({w \in Workers : ~Twice(w)})

\* The same without the exception: no segment is ever put in the list twice.
NobodyFreesTwice == OwnersApart(Workers)

\* The list stays compacted: no segment of freeSegments ends where another begins,
\* so a file is never refused because two neighbours were left apart
\* (freeSegmentCompaction runs on every addFreeSegment, never on a removal).
ListCompacted == \A h, g \in free : End(h) # g.base

\* Every line of an open file holds what was written for that file's DTB: no other
\* DTB's open or asignar writes over it, while DTBs end and their lines are given to
\* others.  Only a DTB the console had finished in the middle of an asignar can, or in the
\* middle of a close that frees its segment twice: the model ends there.
ContentsKept ==
    \A s \in segs : \A x \in s.base .. End(s) - 1 : storage[x] \in {s.dtb} \cup killed

\* A logical address names one file: the number given out by getNewSegmentNumber is
\* not the number of another open file of the DTB, even when the DTB's entry was
\* removed and created again under it.
AddressesUnique == \A s, t \in segs : s.dtb = t.dtb /\ s.number = t.number => s = t

\* A flush takes to MDJ nothing but what was written for its DTB, unless the console
\* had the DTB's memory freed while it was at it, or a finished DTB wrote there.
FlushesItsOwn ==
    \A w \in Workers : job[w].pc = "read" /\ job[w].dtb \notin killed
                         => job[w].got \subseteq {job[w].dtb} \cup killed

\* Some n lines in a row belong to no open file, nor to one being written.
Room(n) ==
    \E b \in 0 .. Lines - n :
        LET r == [base |-> b, limit |-> n] IN
        /\ \A s \in segs : Apart(r, s)
        /\ \A w \in Workers : job[w].pc \in Filing => Apart(r, Taken(job[w]))
        /\ \A w \in Workers : \A q \in releasing[w] : Apart(r, q)

\* A file is refused only when the lines it needs are not there to be had, as the
\* header says of writeData_SEG.
RefusedForLack ==
    [][\A w \in Workers, d \in DTBs, n \in 1 .. MaxFile :
          OpenRefused(w, d, n) => ~Room(n)]_vars
=============================================================================
