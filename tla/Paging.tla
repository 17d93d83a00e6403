-------------------------------- MODULE Paging ---------------------------------
(***************************************************************************)
(* FM9's memory in pages: FM9/Paging.c with FM9/PagedSegmentation.c        *)
(* (MODO=SPA) or FM9/InvertedPageTable.c (MODO=TPI), and the handlers of   *)
(* FM9/FM9Interface.c, run by the workers of FM9's pool.  A request is a   *)
(* job of a worker; a step is what it does under one lock, or to one       *)
(* structure outside any.                                                  *)
(*                                                                         *)
(* With SPA a file is a segment and keeps the list of its frames.  With    *)
(* TPI it keeps its first page and how many it has; which frame a page is  *)
(* in says IPTable, whose entries nobody clears.                           *)
(*                                                                         *)
(* The DTBs are the environment, as in Segmentation: one request at a time *)
(* each, and the console may have a DTB's memory released at any moment.   *)
(***************************************************************************)
EXTENDS Integers, Sequences, FiniteSets

CONSTANTS
    DTBs,       \* the ids of the DTBs that ever run
    Workers,    \* the threads of FM9's pool
    NFrames,    \* cantFrames
    FrameLines, \* cantLineasPorFrame
    MaxLines,   \* bound: the lines a file has, at most
    MaxFiles,   \* bound: the pages or files a DTB opens while its entry stands
    MaxKills,   \* bound: the DTBs the console is told to finish, at most
    Nobody      \* the owner of a line that was never written

ASSUME BoundsAssumption ==
    /\ NFrames \in Nat \ {0} /\ FrameLines \in Nat \ {0}
    /\ MaxLines \in Nat /\ MaxFiles \in Nat /\ MaxKills \in Nat
    /\ Nobody \notin DTBs

VARIABLES
    mode,       \* settings->modo
    free,       \* framesLibres
    ipt,        \* IPTable: the DTB and the page each frame was last filled for
    known,      \* the DTBs with an entry in the table of DTBs
    next,       \* next[d]: nextSegmentNumber or nextPageNumber of d's entry (0 in a new one)
    files,      \* the files filed in those entries
    storage,    \* storage[x]: the DTB whose data line x holds
    job,        \* job[w]: the request that worker w serves
    dangling,   \* the workers whose entry is no longer in the table
    crashed,    \* FM9 followed a dangling pointer, or frees a file twice
    lost,       \* the frames of files filed in an entry that was already freed
    status,     \* status[d]: "new", "running", "waiting" for an answer or "ended"
    pending,    \* the DTBs whose operation has reached DAM but not yet FM9
    killed,     \* the DTBs the console was told to finish
    closes,     \* closes[d]: the CLOSEDTB messages for d on their way
    opened,     \* opened[d]: the files d may name, and the lines they have
    strays,     \* the DTBs that asked for a line past the end of a file (TPI)
    removed,    \* the DTBs whose entry has been removed
    again       \* those whose pages were numbered in an entry made again, or freed

tables == <<ipt, known, next, files>>
memory == <<mode, free, tables, storage>>
clients == <<status, pending, killed, closes, opened, strays>>
faults == <<dangling, crashed, lost, removed, again>>
vars == <<memory, job, clients, faults>>

Frames == 0 .. NFrames - 1
LinesOf(f) == f * FrameLines .. f * FrameLines + FrameLines - 1
NoPage == [dtb |-> Nobody, page |-> 0]
Idle == [pc |-> "idle"]
Elements(s) == {s[i] : i \in DOMAIN s}
Smaller(m, n) == IF m < n THEN m ELSE n
FramesNeeded(n) == (n \div FrameLines) + (IF n % FrameLines > 0 THEN 1 ELSE 0)

\* getFrameOfPage: the first entry of IPTable for that page, if there is one.
EntriesOf(d, page) == {f \in Frames : ipt[f] = [dtb |-> d, page |-> page]}
IsFrameOfPage(f, d, page) == f \in EntriesOf(d, page) /\ \A g \in EntriesOf(d, page) : f <= g

\* The frames where the page at i of a file is looked for: one, or none.
FrameAt(file, i) ==
    IF mode = "SPA" THEN {file.frames[i + 1]}
    ELSE {f \in Frames : IsFrameOfPage(f, file.dtb, file.number + i)}

Active(w, pc) == ~crashed /\ job[w].pc = pc
Goes(w, j) == job' = [job EXCEPT ![w] = j]
Answered(d) == IF status[d] = "waiting" THEN "running" ELSE status[d]
Ends(d) ==
    /\ status' = [status EXCEPT ![d] = "ended"]
    /\ opened' = [opened EXCEPT ![d] = {}]

\* MUTANT of Fails: the CLOSEDTB is sent although the DTB goes on.
FailsGoesOn(d) ==
    /\ status' = [status EXCEPT ![d] = Answered(d)] /\ UNCHANGED opened
    /\ closes' = [closes EXCEPT ![d] = @ + 1]
Fails(d) == Ends(d) /\ closes' = [closes EXCEPT ![d] = @ + 1]
Returns(d) == status' = [status EXCEPT ![d] = Answered(d)] /\ UNCHANGED closes
Succeeds(d) == Returns(d) /\ UNCHANGED opened
Waits(d) == status' = [status EXCEPT ![d] = "waiting"] /\ UNCHANGED <<closes, opened>>

(***************************************************************************)
(* What the DTBs, CPU, DAM and the console do.                             *)
(***************************************************************************)
AskDAM(d) ==
    /\ ~crashed /\ status[d] \in {"new", "running"}
    /\ Waits(d) /\ pending' = pending \cup {d}
    /\ UNCHANGED <<memory, job, faults, killed, strays>>

CPU_EndDTB(d) ==
    /\ ~crashed /\ status[d] = "running"
    /\ Fails(d)
    /\ UNCHANGED <<memory, job, faults, pending, killed, strays>>

CommandFinalizar(d) ==
    /\ ~crashed /\ status[d] # "ended" /\ d \notin killed
    /\ Cardinality(killed) < MaxKills
    /\ killed' = killed \cup {d}
    /\ closes' = [closes EXCEPT ![d] = @ + 1]
    /\ UNCHANGED <<memory, job, faults, status, pending, opened, strays>>

EndKilled(d) ==
    /\ ~crashed /\ d \in killed /\ status[d] # "ended"
    /\ Ends(d)
    /\ UNCHANGED <<memory, job, faults, pending, killed, closes, strays>>

(***************************************************************************)
(* FM9_Open, writeData_SPA and writeData_TPI.                              *)
(***************************************************************************)
\* d's entry, created if there is none.  FM9 looks it up and puts it in two sections of
\* the lock, but nobody else puts or removes it in between: d has one request at a time,
\* and a CLOSEDTB that comes before the put finds no entry, as if it came before both.
OpenFinds(w, d, n) ==
    /\ Active(w, "idle") /\ d \in pending
    /\ pending' = pending \ {d}
    /\ known' = known \cup {d}
    /\ again' = IF d \in known THEN again ELSE again \cup ({d} \cap removed)
    /\ Goes(w, [pc |-> "check", dtb |-> d, lines |-> n])
    /\ UNCHANGED <<mode, free, ipt, next, files, storage, dangling, crashed, lost, removed,
                   status, killed, closes, opened, strays>>

\* getFreeFrames compares the length of the list outside freeFramesLock.
OpenChecks(w) ==
    /\ Active(w, "check")
    /\ LET j == job[w] IN
         IF Len(free) < FramesNeeded(j.lines)
           THEN /\ Fails(j.dtb) /\ Goes(w, Idle)
                /\ dangling' = dangling \ {w}
           ELSE /\ Goes(w, [j EXCEPT !.pc = "take"])
                /\ UNCHANGED <<status, closes, opened, dangling>>
    /\ UNCHANGED <<memory, crashed, lost, removed, again, pending, killed, strays>>

\* list_take_and_remove: the first n frames, or as many as there still are.
Taken(n) ==
    [taken |-> SubSeq(free, 1, Smaller(n, Len(free))),
     left |-> SubSeq(free, Smaller(n, Len(free)) + 1, Len(free))]

\* It takes them under the lock.
OpenTakes(w) ==
    /\ Active(w, "take")
    /\ LET t == Taken(FramesNeeded(job[w].lines)) IN
         /\ free' = t.left
         /\ Goes(w, [pc |-> IF t.taken = <<>> THEN "file" ELSE "write", dtb |-> job[w].dtb,
                     lines |-> job[w].lines, frames |-> t.taken, at |-> 0,
                     first |-> next[job[w].dtb]])
    /\ UNCHANGED <<mode, tables, storage, faults, clients>>

\* writeFrame fills the next of them.
OpenWrites(w) ==
    /\ Active(w, "write")
    /\ LET j == job[w]
           f == j.frames[j.at + 1] IN
         /\ storage' = [x \in DOMAIN storage |-> IF x \in LinesOf(f) THEN j.dtb ELSE storage[x]]
         /\ Goes(w, IF mode = "TPI" THEN [j EXCEPT !.pc = "entry"]
                    ELSE [j EXCEPT !.at = @ + 1,
                                   !.pc = IF j.at + 1 = Len(j.frames) THEN "file" ELSE "write"])
    /\ UNCHANGED <<mode, free, tables, faults, clients>>

\* MUTANT of Numbered: nextPageNumber is not increased.
NumberedOnce(w) == UNCHANGED next
\* nextPageNumber++ on the entry found, if it is still there.
Numbered(w) ==
    IF w \in dangling THEN UNCHANGED next
    ELSE next' = [next EXCEPT ![job[w].dtb] = @ + 1]

\* updateIPTable puts the page in the table, under iptLock.
OpenMaps(w) ==
    /\ Active(w, "entry")
    /\ LET j == job[w] IN
         /\ \E p \in (IF w \in dangling THEN 0 .. MaxFiles ELSE {next[j.dtb]}) :
               ipt' = [ipt EXCEPT ![j.frames[j.at + 1]] = [dtb |-> j.dtb, page |-> p]]
         /\ Goes(w, [j EXCEPT !.at = @ + 1,
                              !.pc = IF j.at + 1 = Len(j.frames) THEN "file" ELSE "write"])
    /\ Numbered(w)
    /\ again' = IF w \in dangling THEN again \cup {job[w].dtb} ELSE again
    /\ UNCHANGED <<mode, free, known, files, storage, dangling, crashed, lost, removed, clients>>

\* The file is filed in the entry, under its segment or its first page, and FM9 answers.
File(w) ==
    LET j == job[w] IN
    [dtb |-> j.dtb, lines |-> j.lines, pages |-> Len(j.frames),
     number |-> IF mode = "SPA" THEN next[j.dtb] ELSE j.first,
     frames |-> IF mode = "SPA" THEN j.frames ELSE <<>>]
OpenFiles(w) ==
    /\ Active(w, "file") /\ w \notin dangling
    /\ LET d == job[w].dtb
           new == File(w) IN
         /\ files' = {g \in files : g.dtb # d \/ g.number # new.number} \cup {new}
         /\ next' = IF mode = "SPA" THEN [next EXCEPT ![d] = @ + 1] ELSE next
         /\ opened' = [opened EXCEPT ![d] = IF status[d] = "ended" THEN {} ELSE @ \cup {new.number}]
         /\ Returns(d)
    /\ Goes(w, Idle)
    /\ UNCHANGED <<mode, free, ipt, known, storage, faults, pending, killed, strays>>

\* Its entry has been freed in the meantime: the file is lost with its frames, or
\* FM9 falls.
OpenFilesNowhere(w) ==
    /\ Active(w, "file") /\ w \in dangling
    /\ \/ /\ lost' = lost \cup Elements(job[w].frames)
          /\ dangling' = dangling \ {w}
          /\ Succeeds(job[w].dtb) /\ Goes(w, Idle)
          /\ UNCHANGED crashed
       \/ /\ crashed' = TRUE
          /\ UNCHANGED <<lost, dangling, status, closes, opened, job>>
    /\ UNCHANGED <<memory, removed, again, pending, killed, strays>>

(***************************************************************************)
(* FM9_Close and FM9_CloseDTB.                                             *)
(***************************************************************************)
\* Under the lock of the table: d's entry, or ITS_A_TRAP.
CloseFinds(w, d, k) ==
    /\ Active(w, "idle") /\ status[d] = "running" /\ k \in opened[d]
    /\ IF d \in known THEN Waits(d) /\ Goes(w, [pc |-> "close", dtb |-> d, number |-> k])
                      ELSE Fails(d) /\ UNCHANGED job
    /\ UNCHANGED <<memory, faults, pending, killed, strays>>

\* The request once it has the files out of the entry.
Removed(w, F) ==
    [pc |-> "free", dtb |-> job[w].dtb, files |-> F, at |-> 0, all |-> FALSE,
     number |-> job[w].number]

\* Outside it: the file leaves the entry, which may have been taken out of the table and
\* freed.
CloseRemoves(w) ==
    /\ Active(w, "close")
    /\ LET j == job[w]
           found == {g \in files : g.dtb = j.dtb /\ g.number = j.number} IN
         \/ /\ w \notin dangling /\ found # {}
            /\ files' = files \ found
            /\ Goes(w, Removed(w, found))
            /\ UNCHANGED <<crashed, dangling, status, closes, opened>>
         \/ /\ w \in dangling \/ found = {}
            /\ Fails(j.dtb) /\ Goes(w, Idle)
            /\ dangling' = dangling \ {w}
            /\ UNCHANGED <<files, crashed>>
         \/ /\ w \in dangling
            /\ crashed' = TRUE
            /\ UNCHANGED <<files, dangling, status, closes, opened, job>>
    /\ UNCHANGED <<mode, free, ipt, known, next, storage, lost, removed, again,
                   pending, killed, strays>>

\* Worker v is freeing the files of the entry that w holds on to, and has not come to g.
Destroying(v, w) == job[v].pc = "free" /\ job[v].all /\ job[v].dtb = job[w].dtb
StillIn(v, g) == job[v].at > 0 => job[v].number # g.number

\* The file is in the entry still, and w takes it out before v comes to it.
CloseOvertakes(w) ==
    /\ Active(w, "close") /\ w \in dangling
    /\ \E v \in {v \in Workers \ {w} : Destroying(v, w)} : \E g \in job[v].files :
          /\ g.number = job[w].number /\ StillIn(v, g)
          /\ job' = [job EXCEPT ![v].files = @ \ {g}, ![w] = Removed(w, {g})]
    /\ dangling' = dangling \ {w}
    /\ UNCHANGED <<memory, crashed, lost, removed, again, clients>>

\* It is in the entry still, although v has freed it, or will: its frames are free twice.
\* Nothing more is followed.
CloseFreesTwice(w) ==
    /\ Active(w, "close") /\ w \in dangling
    /\ \E v \in Workers \ {w} : Destroying(v, w)
    /\ crashed' = TRUE
    /\ UNCHANGED <<memory, job, dangling, lost, removed, again, clients>>

\* Under the lock: the entry leaves the table.
CloseDTBRemoves(w, d) ==
    /\ Active(w, "idle") /\ closes[d] > 0
    /\ closes' = [closes EXCEPT ![d] = @ - 1]
    /\ known' = known \ {d} /\ next' = [next EXCEPT ![d] = 0]
    /\ files' = {g \in files : g.dtb # d}
    /\ IF d \in known
         THEN /\ Goes(w, [pc |-> "free", dtb |-> d, files |-> {g \in files : g.dtb = d},
                          at |-> 0, all |-> TRUE, number |-> 0])
              /\ removed' = removed \cup {d}
              /\ dangling' = dangling \cup
                   {v \in Workers : job[v].pc \in {"check", "take", "write", "entry", "file", "close"}
                                      /\ job[v].dtb = d}
         ELSE UNCHANGED <<job, removed, dangling>>
    /\ UNCHANGED <<mode, free, ipt, storage, crashed, lost, again,
                   status, pending, killed, opened, strays>>

\* MUTANT of FreesPage: the page is looked for in the table from the file's number on
\* whatever has been freed already.
FreesPageFirst(w, g, f) ==
    /\ job[w].at < g.pages /\ f \in FrameAt(g, 0)
    /\ free' = Append(free, f)
FreesPage(w, g, f) ==
    /\ job[w].at < g.pages /\ f \in FrameAt(g, job[w].at)
    /\ free' = Append(free, f)

\* addFreeFrame on the next page of the file; after its last, the next file.  A page
\* that is nowhere in IPTable is looked for again and again.
Frees(w) ==
    /\ Active(w, "free")
    /\ \E g \in job[w].files :
          /\ job[w].at > 0 => g.number = job[w].number
          /\ \E f \in Frames : FreesPage(w, g, f)
          /\ Goes(w, IF job[w].at + 1 < g.pages
                       THEN [job[w] EXCEPT !.at = @ + 1, !.number = g.number]
                       ELSE [job[w] EXCEPT !.at = 0, !.files = @ \ {g}])
    /\ UNCHANGED <<mode, tables, storage, faults, clients>>

FreesEnd(w) ==
    /\ Active(w, "free") /\ \A g \in job[w].files : g.pages = 0
    /\ LET j == job[w] IN
         IF j.all THEN UNCHANGED <<status, closes, opened>>
         ELSE Returns(j.dtb) /\ opened' = [opened EXCEPT ![j.dtb] = @ \ {j.number}]
    /\ Goes(w, Idle)
    /\ UNCHANGED <<memory, faults, pending, killed, strays>>

(***************************************************************************)
(* FM9_Flush, readData_SPA and readData_TPI.                               *)
(***************************************************************************)
FlushFinds(w, d, k) ==
    /\ Active(w, "idle") /\ d \in pending /\ k \in opened[d]
    /\ pending' = pending \ {d}
    /\ LET found == {g \in files : g.dtb = d /\ g.number = k} IN
         IF d \notin known \/ found = {}
           THEN Fails(d) /\ UNCHANGED job
           ELSE /\ \E g \in found :
                     Goes(w, [pc |-> "read", dtb |-> d, file |-> g, at |-> 0, got |-> {}])
                /\ UNCHANGED <<status, closes, opened>>
    /\ UNCHANGED <<memory, faults, killed, strays>>

\* The frames of the file, or anything once it has been freed.
ReadFrames(w) ==
    IF job[w].file \in files THEN FrameAt(job[w].file, job[w].at) ELSE Frames

\* readFrame of the next page.
FlushReads(w) ==
    /\ Active(w, "read") /\ job[w].at < job[w].file.pages
    /\ \E f \in ReadFrames(w) :
          Goes(w, [job[w] EXCEPT !.at = @ + 1,
                                 !.got = @ \cup {storage[x] : x \in LinesOf(f)}])
    /\ UNCHANGED <<memory, faults, clients>>

\* All is read and goes to MDJ, which may refuse it; or a page is in no frame.
FlushEnds(w) ==
    /\ Active(w, "read")
    /\ IF job[w].at = job[w].file.pages
         THEN Succeeds(job[w].dtb) \/ Fails(job[w].dtb)
         ELSE (ReadFrames(w) = {} \/ job[w].file \notin files) /\ Fails(job[w].dtb)
    /\ Goes(w, Idle)
    /\ UNCHANGED <<memory, faults, pending, killed, strays>>

(***************************************************************************)
(* FM9_AsignLine and FM9_AskForLine: the logical address is that of the    *)
(* file plus the line.                                                     *)
(***************************************************************************)
\* MUTANT of Translation: the page is not checked against the segment's limit.
TranslationUnlimited(d, k, o) ==
    UNION {{f * FrameLines + (o % FrameLines) :
              f \in IF mode = "SPA"
                      THEN {IF o \div FrameLines < g.pages THEN g.frames[(o \div FrameLines) + 1] ELSE 0}
                      ELSE {f \in Frames : IsFrameOfPage(f, d, k + (o \div FrameLines))}} :
           g \in {g \in files : g.dtb = d /\ g.number = k}}

\* addressTranslation: the line of the storage, if there is one.  The inverted table
\* knows of no files: it takes any page of the DTB.
Translation(d, k, o) ==
    IF mode = "TPI"
      THEN {f * FrameLines + (o % FrameLines) :
              f \in {f \in Frames : IsFrameOfPage(f, d, k + (o \div FrameLines))}}
      ELSE {g.frames[(o \div FrameLines) + 1] * FrameLines + (o % FrameLines) :
              g \in {g \in files : d \in known /\ g.dtb = d /\ g.number = k
                                     /\ o \div FrameLines < g.pages}}

Past(d, k, o) == ~\E g \in files : g.dtb = d /\ g.number = k /\ o \div FrameLines < g.pages

LineFinds(w, d, k, o, pc) ==
    /\ Active(w, "idle") /\ status[d] = "running" /\ k \in opened[d]
    /\ IF Translation(d, k, o) = {}
         THEN Fails(d) /\ UNCHANGED <<job, strays>>
         ELSE /\ \E x \in Translation(d, k, o) : Goes(w, [pc |-> pc, dtb |-> d, line |-> x])
              /\ Waits(d)
              /\ strays' = IF mode = "TPI" /\ Past(d, k, o) THEN strays \cup {d} ELSE strays
    /\ UNCHANGED <<memory, faults, pending, killed>>

\* writeLine, under storageLock, and the answer.
AsignWrites(w) ==
    /\ Active(w, "assign")
    /\ storage' = [storage EXCEPT ![job[w].line] = job[w].dtb]
    /\ Succeeds(job[w].dtb) /\ Goes(w, Idle)
    /\ UNCHANGED <<mode, free, tables, faults, pending, killed, strays>>

\* readLine, under storageLock, and the answer.
AskReads(w) ==
    /\ Active(w, "ask")
    /\ Goes(w, [pc |-> "told", dtb |-> job[w].dtb, got |-> {storage[job[w].line]}])
    /\ UNCHANGED <<memory, faults, clients>>
Told(w) ==
    /\ Active(w, "told")
    /\ Succeeds(job[w].dtb) /\ Goes(w, Idle)
    /\ UNCHANGED <<memory, faults, pending, killed, strays>>

-----------------------------------------------------------------------------
Init ==
    /\ mode \in {"SPA", "TPI"}
    /\ free = [i \in 1 .. NFrames |-> i - 1] /\ ipt = [f \in Frames |-> NoPage]
    /\ known = {} /\ next = [d \in DTBs |-> 0] /\ files = {}
    /\ storage = [x \in 0 .. NFrames * FrameLines - 1 |-> Nobody]
    /\ job = [w \in Workers |-> Idle]
    /\ dangling = {} /\ crashed = FALSE /\ lost = {} /\ removed = {} /\ again = {}
    /\ status = [d \in DTBs |-> "new"] /\ pending = {} /\ killed = {} /\ strays = {}
    /\ closes = [d \in DTBs |-> 0] /\ opened = [d \in DTBs |-> {}]

Opens(w, d) ==
    \E n \in 1 .. MaxLines :
       /\ d \in known => next[d] + FramesNeeded(n) <= MaxFiles
       /\ OpenFinds(w, d, n)
Next ==
    \/ \E d \in DTBs : AskDAM(d) \/ CPU_EndDTB(d) \/ CommandFinalizar(d) \/ EndKilled(d)
    \/ \E w \in Workers :
          \/ \E d \in DTBs :
               \/ Opens(w, d) \/ CloseDTBRemoves(w, d)
               \/ \E k \in opened[d] :
                    \/ CloseFinds(w, d, k) \/ FlushFinds(w, d, k)
                    \/ \E o \in 0 .. MaxLines - 1, pc \in {"assign", "ask"} :
                          LineFinds(w, d, k, o, pc)
          \/ OpenChecks(w) \/ OpenTakes(w) \/ OpenWrites(w) \/ OpenMaps(w)
          \/ OpenFiles(w) \/ OpenFilesNowhere(w)
          \/ CloseRemoves(w) \/ CloseOvertakes(w) \/ CloseFreesTwice(w)
          \/ Frees(w) \/ FreesEnd(w)
          \/ FlushReads(w) \/ FlushEnds(w) \/ AsignWrites(w) \/ AskReads(w) \/ Told(w)

Spec == Init /\ [][Next]_vars

-----------------------------------------------------------------------------
FramesOf(g) ==
    IF mode = "SPA" THEN Elements(g.frames)
    ELSE UNION {FrameAt(g, i) : i \in 0 .. g.pages - 1}

\* The frames a worker has in hand: those it opens a file with, and those of the files
\* it frees that it has not given back.
Opening(w) == job[w].pc \in {"write", "entry", "file"}
Rest(w, g) == IF job[w].at > 0 /\ g.number = job[w].number THEN job[w].at .. g.pages - 1
              ELSE 0 .. g.pages - 1
InHand(w) ==
    IF Opening(w) THEN Elements(job[w].frames)
    ELSE IF job[w].pc = "free"
           THEN UNION {UNION {FrameAt(g, i) : i \in Rest(w, g)} : g \in job[w].files}
           ELSE {}

\* The inverted table cannot tell the pages of an entry made again from those of the
\* one before it.
PagesAreTold == ~crashed /\ (mode = "TPI" => again = {})

\* The types of the state; the free list never holds more frames than there are.
TypeOK ==
    /\ mode \in {"SPA", "TPI"}
    /\ \A i \in DOMAIN free : free[i] \in Frames
    /\ PagesAreTold => Len(free) <= NFrames
    /\ ipt \in [Frames -> [dtb : DTBs \cup {Nobody}, page : Nat]]
    /\ known \subseteq DTBs /\ next \in [DTBs -> Nat]
    /\ \A g \in files : g.dtb \in known
    /\ storage \in [0 .. NFrames * FrameLines - 1 -> DTBs \cup {Nobody}]
    /\ dangling \subseteq Workers /\ lost \subseteq Frames
    /\ removed \subseteq DTBs /\ again \subseteq DTBs
    /\ status \in [DTBs -> {"new", "running", "waiting", "ended"}]
    /\ pending \cup killed \cup strays \subseteq DTBs /\ closes \in [DTBs -> 0 .. 2]

\* A frame is in one place only: the list of the free ones, a file, the hands of a
\* worker or nowhere any more; so no two files ever share one.
FrameOwner ==
    PagesAreTold =>
      /\ \A i, j \in DOMAIN free : free[i] = free[j] => i = j
      /\ \A g \in files :
            /\ FramesOf(g) \cap (Elements(free) \cup lost) = {}
            /\ \A h \in files \ {g} : FramesOf(g) \cap FramesOf(h) = {}
            /\ \A w \in Workers : FramesOf(g) \cap InHand(w) = {}
      /\ \A w \in Workers :
            /\ InHand(w) \cap (Elements(free) \cup lost) = {}
            /\ \A v \in Workers \ {w} : InHand(w) \cap InHand(v) = {}

\* Nobody but a DTB changes the lines of its files, unless the console had one
\* finished while its request was being served, or one asks for a line past the end
\* of its file.
ContentsKept ==
    PagesAreTold =>
      \A g \in files : \A f \in FramesOf(g) : \A x \in LinesOf(f) :
        storage[x] \in {g.dtb} \cup killed \cup strays

\* What FM9 hands over to a DTB that is not being finished is what that DTB, or
\* one of those, has written.
HandsItsOwn ==
    PagesAreTold =>
      \A w \in Workers :
        job[w].pc \in {"read", "told"} /\ job[w].dtb \notin killed \cup strays
          => job[w].got \subseteq {job[w].dtb} \cup killed \cup strays

\* FM9 takes the entry of a DTB away from under a request of its, or makes it again, where
\* IPTable still has its old pages, only for a DTB that the console has finished.
EntriesStand == again \cup {job[w].dtb : w \in dangling} \subseteq killed

\* A file that was opened has all the frames it needs.
EnoughFrames == \A g \in files : g.pages = FramesNeeded(g.lines)
=============================================================================
