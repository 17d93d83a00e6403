---------------------------- MODULE Operations_proofs ----------------------------
(***************************************************************************)
(* What an operation keeps in step: one report per dispatch, the tables of *)
(* open files, DAM's answers and the release of memory, for any DTBs, CPUs,*)
(* files, quantum, transfer size and number of DTBs that the console ends. *)
(*                                                                         *)
(* Crossing is the inductive invariant.  It follows a DTB that was not     *)
(* ended by the console, and whose BLOCKDTB was not overtaken, from the    *)
(* CPU that executes it to the job of DAM that serves it and to the message*)
(* on the wire that answers: it is in one of these hands at a time, and    *)
(* what its files are is known there.  While its BLOCKDTB is unread it is  *)
(* where that message will have SAFA put it, with the table it brings.     *)
(*                                                                         *)
(* Transfers says what the files contain, on the two sides of a transfer,  *)
(* and what the request in flight carries of them.  No two requests are    *)
(* about one file, but for the scripts, which nobody writes: so what DAM   *)
(* has moved stays the beginning of the file until all of it was moved.    *)
(***************************************************************************)
EXTENDS Operations, TLAPS

USE DEF history, Exempt

Ops == {"dummy", "abrir", "flush", "crear", "borrar"}
Answered == {"done", "error", "doneHeader", "errorHeader", "release"}
JobPlaces == Ops \cup {"queued", "read", "store", "write"} \cup Answered
\* What a request, a CPU's record and a message on the wire are.
NamesItsFile(r) == r.op \in Ops /\ IF r.op = "dummy" THEN r.path = Script ELSE r.path \in Paths
IsJob(j) ==
    /\ {"at", "op", "path", "n", "data"} \subseteq DOMAIN j
    /\ j.at \in JobPlaces /\ NamesItsFile(j)
    /\ j.at \in Ops => j.op = j.at
    /\ j.at \in {"read", "store"} => j.op \in {"dummy", "abrir"}
    /\ j.at = "write" => j.op = "flush"
IsOrder(j) == IsJob(j) /\ j.at = "queued" /\ j.op # "dummy"
IsCPU(r) ==
    /\ {"at", "dtb", "quantum", "open", "asks", "said"} \subseteq DOMAIN r
    /\ r.at \in {"idle", "dummy", "runs", "tellsSAFA", "tellsDAM"}
    /\ r.open \subseteq Paths /\ (r.at # "idle" => r.dtb \in DTBs)
    /\ r.at \in {"tellsSAFA", "tellsDAM"} => IsOrder(r.asks)
Reply == [dtb : DTBs, op : Ops, path : Paths \cup {Script}, ok : BOOLEAN]
Piece == {"header", "body"} \X Reply

\* The types that the rest needs.
PlaceTyped == place \in [DTBs -> {"new", "loading", "ready", "exec", "blocked", "ended"}]
TableTyped == table \in [DTBs -> SUBSET Paths]
CPUsTyped ==
    /\ DOMAIN cpu = CPUs /\ DOMAIN unread = CPUs
    /\ \A c \in CPUs :
         /\ IsCPU(cpu[c]) /\ (unread[c] # "none" => cpu[c].dtb \in DTBs)
         /\ cpu[c].at \in {"dummy", "runs", "tellsSAFA"} => unread[c] = "none"
JobsTyped == DOMAIN job = DTBs /\ \A d \in DTBs : job[d] = Nothing \/ IsJob(job[d])
WireTyped == wire \in Seq(Piece) /\ \A i \in DOMAIN wire : NamesItsFile(wire[i][2])
MemTyped == DOMAIN mem = DTBs
Typed == PlaceTyped /\ TableTyped /\ CPUsTyped /\ JobsTyped /\ WireTyped /\ MemTyped

\* d is executed by CPU c, or c is about to ask DAM for its operation.
RunsIt(c, d) == cpu[c].dtb = d /\ cpu[c].at \in {"runs", "tellsSAFA"}
HandsIt(c, d) == cpu[c].dtb = d /\ cpu[c].at = "tellsDAM"
Has(c, d) == RunsIt(c, d) \/ HandsIt(c, d)

\* Where SAFA will have d, and with which table, when it has handled its BLOCKDTB.
Where(d) == IF Told(d) THEN "blocked" ELSE place[d]
Table(d) == IF Told(d) THEN {p \in Paths : \E c \in CPUs : ToldBy(c, d) /\ p \in cpu[c].open} ELSE table[d]

Served(d) == job[d] # Nothing
\* The pieces of the messages about d that SAFA has still to read.
Pieces(d) == {i \in DOMAIN wire : wire[i][2].dtb = d}
Refused(d) == \E i \in Pieces(d) : wire[i][1] = "body" /\ ~wire[i][2].ok

\* One CPU has it, and while it does nobody else.
OneCPU(d) ==
    /\ \A c, e \in CPUs : Has(c, d) /\ Has(e, d) => c = e
    /\ \A c \in CPUs : RunsIt(c, d) => Where(d) = "exec"
    /\ \A c \in CPUs : HandsIt(c, d) => Where(d) = "blocked" /\ ~Served(d) /\ Pieces(d) = {}
    /\ Where(d) \in {"new", "ready", "exec"} => ~Served(d) /\ Pieces(d) = {}

\* DAM serves it where SAFA will look for it.
OneJob(d) ==
    /\ Served(d) /\ job[d].at # "release" => Where(d) = AnswersTo(job[d])
    /\ Served(d) /\ ~HeaderSent(d) /\ job[d].at # "release" => Pieces(d) = {}
    /\ HeaderSent(d) => \A i \in Pieces(d) : wire[i][1] = "header"
    /\ Served(d) /\ job[d].at = "release" => Where(d) = "ended" \/ Refused(d)

\* One message on the wire answers it; the body comes when the job is over.
OneAnswer(d) ==
    \A i \in Pieces(d) :
      /\ Where(d) = AnswersTo(wire[i][2])
      /\ \A k \in Pieces(d) : wire[i][1] = wire[k][1] => i = k
      /\ wire[i][1] = "body" =>
           IF wire[i][2].ok THEN ~Served(d) ELSE Served(d) => job[d].at = "release"

\* The files that d has in memory: those of its table, the script, and the one that was stored
\* for it and is not reported yet.
Loaded(op, path, stored) ==
    (IF op = "dummy" THEN {} ELSE {Script}) \cup (IF stored /\ op \in {"dummy", "abrir"} THEN {path} ELSE {})
OneTable(d) ==
    /\ Where(d) = "new" => Table(d) = {} /\ DOMAIN mem[d] = {}
    /\ Where(d) = "ready" => DOMAIN mem[d] = Table(d) \cup {Script}
    /\ \A c \in CPUs : RunsIt(c, d) => DOMAIN mem[d] = cpu[c].open \cup {Script}
    /\ \A c \in CPUs : HandsIt(c, d) => DOMAIN mem[d] = Table(d) \cup {Script}
    /\ Served(d) /\ job[d].at \notin {"release", "error", "errorHeader"} =>
         DOMAIN mem[d] = Table(d) \cup Loaded(job[d].op, P(d), Succeeds(d))
    /\ \A i \in Pieces(d) : wire[i][1] = "body" /\ wire[i][2].ok =>
         DOMAIN mem[d] = Table(d) \cup Loaded(wire[i][2].op, wire[i][2].path, TRUE)

\* Its memory is released when it is over, and only then.
OneRelease(d) ==
    /\ d \in closing => Where(d) = "ended" \/ Refused(d)
    /\ (Where(d) = "ended" \/ Refused(d)) /\ ~Served(d) /\ d \notin closing => mem[d] = NoFiles

\* One BLOCKDTB about it is unread, and SAFA has it in EXEC till then.
OneNotice(d) ==
    /\ \A c \in CPUs : ToldBy(c, d) => place[d] = "exec"
    /\ \A c, e \in CPUs : ToldBy(c, d) /\ ToldBy(e, d) => c = e

Good(d) == OneNotice(d) /\ OneCPU(d) /\ OneJob(d) /\ OneAnswer(d) /\ OneTable(d) /\ OneRelease(d)
Crossing ==
    /\ Typed /\ OneReport /\ FallsAreProvoked
    /\ \A d \in DTBs \ Exempt : Good(d)

\* A step that d is not part of: nobody that has d changes, nor what is said of d.
Untouched(d) ==
    /\ place'[d] = place[d] /\ table'[d] = table[d] /\ job'[d] = job[d]
    /\ DOMAIN mem'[d] = DOMAIN mem[d] /\ (mem[d] = NoFiles => mem'[d] = NoFiles)
    /\ d \in closing' <=> d \in closing
    /\ \A c \in CPUs :
         /\ RunsIt(c, d)' <=> RunsIt(c, d)
         /\ HandsIt(c, d)' <=> HandsIt(c, d)
         /\ ToldBy(c, d)' <=> ToldBy(c, d)
         /\ RunsIt(c, d) \/ ToldBy(c, d) => cpu'[c].open = cpu[c].open
\* Its pieces are where they were, or k places nearer.
Nearer(d, k) ==
    /\ \A i \in Pieces(d)' : i + k \in Pieces(d) /\ wire'[i] = wire[i + k]
    /\ \A i \in Pieces(d) : i - k \in Pieces(d)' /\ wire'[i - k] = wire[i]

\* A DTB whose BLOCKDTB SAFA has handled, or not got, is where it is and has the table it has.
LEMMA NotTold ==
  ASSUME NEW d, \A c \in CPUs : ~ToldBy(c, d)
  PROVE  Where(d) = place[d] /\ Table(d) = table[d] /\ OneNotice(d)
BY DEF Told, Where, OneNotice, Table

\* The invariant holds at the start: all the DTBs are new.
LEMMA CrossingInit == ASSUME Init PROVE Crossing
<1>1. Typed
  <2>1. PlaceTyped /\ TableTyped /\ WireTyped /\ MemTyped
    BY DEF Init, PlaceTyped, TableTyped, WireTyped, MemTyped
  <2>2. CPUsTyped
    <3>1. DOMAIN cpu = CPUs /\ DOMAIN unread = CPUs
      BY DEF Init
    <3>2. \A c \in CPUs : unread[c] = "none"
      BY DEF Init
    <3>3. \A c \in CPUs : IsCPU(cpu[c])
      BY DEF Init, IsCPU
    <3> QED BY <3>1, <3>2, <3>3 DEF CPUsTyped
  <2>3. JobsTyped
    BY DEF Init, JobsTyped
  <2> QED BY <2>1, <2>2, <2>3 DEF Typed
<1>2. OneReport
  BY DEF Init, OneReport
<1>3. ASSUME NEW d \in DTBs PROVE Good(d)
  <2>4. /\ \A c \in CPUs : ~RunsIt(c, d) /\ ~HandsIt(c, d)
        /\ \A c \in CPUs : ~ToldBy(c, d)
    BY DEF Init, RunsIt, HandsIt, ToldBy
  <2>5. Where(d) = place[d] /\ Table(d) = table[d] /\ OneNotice(d)
    BY <2>4, NotTold
  <2>1. Pieces(d) = {} /\ ~Served(d) /\ Where(d) = "new" /\ ~HeaderSent(d)
    <3>1. wire = <<>> /\ job[d] = Nothing /\ place[d] = "new"
      BY DEF Init
    <3>2. Pieces(d) = {}
      BY <3>1 DEF Pieces
    <3>3. ~HeaderSent(d)
      BY <3>1 DEF HeaderSent, Nothing
    <3> QED BY <2>5, <3>1, <3>2, <3>3 DEF Served
  <2>3. d \notin closing /\ Table(d) = {} /\ mem[d] = NoFiles /\ DOMAIN mem[d] = {}
    BY <2>5 DEF Init, NoFiles
  <2> QED BY <2>1, <2>4, <2>3, <2>5 DEF Good, OneCPU, Has, OneJob, OneAnswer, OneTable, OneRelease, Refused
<1>4. FallsAreProvoked
  BY DEF Init, FallsAreProvoked
<1> QED BY <1>1, <1>2, <1>3, <1>4 DEF Crossing

\* The same, of the state after a step.
LEMMA NotToldThen ==
  ASSUME NEW d, \A c \in CPUs : ~ToldBy(c, d)'
  PROVE  Where(d)' = place'[d] /\ Table(d)' = table'[d] /\ OneNotice(d)'
BY DEF Told, Where, OneNotice, Table

\* A DTB with a BLOCKDTB unread will be BLOCKED with the table of the CPU that sent it.
LEMMA ToldThen ==
  ASSUME NEW d, NEW c \in CPUs, \A e \in CPUs : ToldBy(e, d)' <=> e = c,
         place'[d] = "exec", cpu'[c].open \subseteq Paths
  PROVE  Where(d)' = "blocked" /\ Table(d)' = cpu'[c].open /\ OneNotice(d)'
<1>1. Told(d)' /\ OneNotice(d)'
  BY DEF Told, OneNotice
<1>2. \A p \in Paths : (\E e \in CPUs : ToldBy(e, d)' /\ p \in cpu'[e].open) <=> p \in cpu'[c].open
  OBVIOUS
<1> QED BY <1>1, <1>2 DEF Where, Table

\* Only a DTB of EXEC has a BLOCKDTB unread.
LEMMA InExec ==
  ASSUME NEW d, OneNotice(d), Where(d) # "blocked" \/ place[d] # "exec"
  PROVE  \A c \in CPUs : ~ToldBy(c, d)
BY DEF OneNotice, Where, Told

\* Out of EXEC a DTB is where it is, with the table it has.
LEMMA NotExec ==
  ASSUME NEW d, OneNotice(d), place[d] # "exec"
  PROVE  Where(d) = place[d] /\ Table(d) = table[d]
BY InExec, NotTold

\* What is said of where a DTB is stays when the notices do.
LEMMA WhereStays ==
  ASSUME NEW d, OneNotice(d), place'[d] = place[d], table'[d] = table[d],
         \A c \in CPUs : /\ ToldBy(c, d)' <=> ToldBy(c, d)
                         /\ ToldBy(c, d) => cpu'[c].open = cpu[c].open
  PROVE  Where(d)' = Where(d) /\ Table(d)' = Table(d) /\ OneNotice(d)'
<1>1. Told(d)' <=> Told(d)
  BY DEF Told
<1>2. Where(d)' = Where(d) /\ OneNotice(d)'
  BY <1>1 DEF Where, OneNotice
<1>3. \A p : (\E c \in CPUs : ToldBy(c, d)' /\ p \in cpu'[c].open) <=> (\E c \in CPUs : ToldBy(c, d) /\ p \in cpu[c].open)
  OBVIOUS
<1>4. Table(d)' = Table(d)
  BY <1>1, <1>3 DEF Table
<1> QED BY <1>2, <1>4

\* The value of a request that is not there.
LEMMA AtNothing == Nothing.at = "none"
BY DEF Nothing

\* Where nothing is served no header was sent.
LEMMA Unserved == ASSUME NEW d, job'[d] = Nothing PROVE ~HeaderSent(d)'
BY DEF HeaderSent, Nothing

\* What is said of a DTB is kept by the steps that it is not part of.
LEMMA UntouchedStays ==
  ASSUME NEW d \in DTBs, Typed, Good(d), Untouched(d), WireTyped', NEW k \in Nat, Nearer(d, k)
  PROVE  Good(d)'
<1>0. \A i \in Pieces(d) : i \in Nat
  BY DEF Pieces, Typed, WireTyped
<1>1. /\ Served(d)' <=> Served(d)
      /\ HeaderSent(d)' <=> HeaderSent(d)
      /\ Succeeds(d)' <=> Succeeds(d)
      /\ P(d)' = P(d)
  BY DEF Untouched, Served, HeaderSent, Succeeds, P
<1>2. Refused(d)' <=> Refused(d)
  BY DEF Refused, Nearer
<1>3. Pieces(d) = {} <=> Pieces(d)' = {}
  BY DEF Nearer
<1>9. Where(d)' = Where(d) /\ Table(d)' = Table(d) /\ OneNotice(d)'
  BY WhereStays DEF Good, Untouched
<1>4. OneCPU(d)'
  BY <1>1, <1>3, <1>9 DEF Good, OneCPU, Has, Untouched
<1>10. PICK w, s : w = Where(d) /\ w = Where(d)' /\ s = Table(d) /\ s = Table(d)'
  BY <1>9
<1>5. OneJob(d)'
  BY <1>1, <1>2, <1>3, <1>10 DEF Good, OneJob, Untouched, Nearer, AnswersTo
<1>6. OneAnswer(d)'
  <2> SUFFICES ASSUME NEW i \in Pieces(d)', NEW j \in Pieces(d)'
               PROVE  /\ Where(d)' = AnswersTo(wire'[i][2])
                      /\ wire'[i][1] = wire'[j][1] => i = j
                      /\ wire'[i][1] = "body" =>
                           IF wire'[i][2].ok THEN ~Served(d)' ELSE Served(d)' => job'[d].at = "release"
    BY DEF OneAnswer, AnswersTo
  <2>1. /\ i + k \in Pieces(d) /\ wire'[i] = wire[i + k]
        /\ j + k \in Pieces(d) /\ wire'[j] = wire[j + k]
    BY DEF Nearer
  <2>2. i \in Int /\ j \in Int
    BY DEF Pieces, WireTyped
  <2>3. i + k = j + k => i = j
    BY <2>2
  <2> QED BY <1>1, <1>10, <2>1, <2>3 DEF Good, OneAnswer, Untouched, AnswersTo
<1>7. OneTable(d)'
  <2>1. \A i \in Pieces(d)' : wire'[i][1] = "body" /\ wire'[i][2].ok =>
          DOMAIN mem'[d] = Table(d)' \cup Loaded(wire'[i][2].op, wire'[i][2].path, TRUE)
    <3>1. \A i \in Pieces(d) : wire[i][1] = "body" /\ wire[i][2].ok =>
            DOMAIN mem[d] = Table(d) \cup Loaded(wire[i][2].op, wire[i][2].path, TRUE)
      BY DEF Good, OneTable
    <3>2. \A i \in Pieces(d)' : i + k \in Pieces(d) /\ wire'[i] = wire[i + k]
      BY DEF Nearer
    <3>3. DOMAIN mem'[d] = DOMAIN mem[d] /\ Table(d)' = Table(d)
      BY <1>10 DEF Untouched
    <3> QED BY <3>1, <3>2, <3>3
  <2>2. Served(d)' /\ job'[d].at \notin {"release", "error", "errorHeader"} =>
          DOMAIN mem'[d] = Table(d)' \cup Loaded(job'[d].op, P(d)', Succeeds(d)')
    <3>1. Loaded(job'[d].op, P(d)', Succeeds(d)') = Loaded(job[d].op, P(d), Succeeds(d))
      BY <1>1 DEF Untouched, Loaded
    <3> QED BY <1>1, <1>10, <3>1 DEF Good, OneTable, Untouched
  <2>3. /\ Where(d)' = "new" => Table(d)' = {} /\ DOMAIN mem'[d] = {}
        /\ Where(d)' = "ready" => DOMAIN mem'[d] = Table(d)' \cup {Script}
        /\ \A c \in CPUs : RunsIt(c, d)' => DOMAIN mem'[d] = cpu'[c].open \cup {Script}
        /\ \A c \in CPUs : HandsIt(c, d)' => DOMAIN mem'[d] = Table(d)' \cup {Script}
    BY <1>10 DEF Good, OneTable, Untouched
  <2> QED BY <2>1, <2>2, <2>3 DEF OneTable
<1>8. OneRelease(d)'
  BY <1>1, <1>2, <1>10 DEF Good, OneRelease, Untouched
<1> QED BY <1>4, <1>5, <1>6, <1>7, <1>8, <1>9 DEF Good

\* A step keeps the invariant when it does for the DTBs that are part of it.
LEMMA Together ==
  ASSUME Crossing, Typed', OneReport', Exempt \subseteq Exempt', wire' = wire,
         fallen' => fallen \/ Exempt' # {},
         \A d \in DTBs \ Exempt' : Untouched(d) \/ Good(d)'
  PROVE  Crossing'
<1>0. FallsAreProvoked'
  BY DEF Crossing, FallsAreProvoked
<1> SUFFICES ASSUME NEW d \in DTBs \ Exempt', Untouched(d) PROVE Good(d)'
  BY <1>0 DEF Crossing
<1>1. Pieces(d)' = Pieces(d) /\ \A i \in Pieces(d) : i \in Int
  BY DEF Pieces, Crossing, Typed, WireTyped
<1>2. Nearer(d, 0)
  <2>1. \A i \in Pieces(d) : i + 0 = i /\ i - 0 = i
    BY <1>1
  <2> QED BY <1>1, <2>1 DEF Nearer
<1>3. WireTyped'
  BY DEF Typed
<1> QED BY <1>2, <1>3, UntouchedStays DEF Crossing

\* A CPU goes on to another record.
Becomes(c, r) ==
    /\ IsCPU(r) /\ r.dtb \in DTBs /\ cpu' = [cpu EXCEPT ![c] = r]
    /\ DOMAIN unread' = CPUs /\ \A e \in CPUs : e # c => unread'[e] = unread[e]
    /\ r.at \in {"dummy", "runs", "tellsSAFA"} => unread'[c] = "none"
Reported(r) == r.dtb \notin Exempt => r.said = IF r.at \in {"idle", "tellsDAM"} THEN 1 ELSE 0
LEMMA CPUStays ==
  ASSUME CPUsTyped, NEW c \in CPUs, NEW r, Becomes(c, r)
  PROVE  CPUsTyped' /\ \A e \in CPUs : IF e = c THEN cpu'[e] = r ELSE cpu'[e] = cpu[e]
<1>1. DOMAIN cpu' = CPUs /\ \A e \in CPUs : IF e = c THEN cpu'[e] = r ELSE cpu'[e] = cpu[e]
  BY DEF CPUsTyped, Becomes
<1>2. CPUsTyped'
  <2> SUFFICES ASSUME NEW e \in CPUs
               PROVE  /\ IsCPU(cpu'[e]) /\ (unread'[e] # "none" => cpu'[e].dtb \in DTBs)
                      /\ cpu'[e].at \in {"dummy", "runs", "tellsSAFA"} => unread'[e] = "none"
    BY <1>1 DEF CPUsTyped, IsCPU, Becomes
  <2> QED BY <1>1 DEF CPUsTyped, Becomes
<1> QED BY <1>1, <1>2

\* The line that a CPU executes leaves the files in memory, but for their contents.
LEMMA GoesOnKeeps ==
  ASSUME Crossing, NEW c \in CPUs, Runs(c), NEW r, IsCPU(r), cpu' = [cpu EXCEPT ![c] = r],
         r.dtb = D(c), r.open = cpu[c].open, r.said = cpu[c].said, r.at \in {"runs", "tellsSAFA"},
         UNCHANGED <<place, table, unread, fallen, job, wire, closing, history>>,
         DOMAIN mem' = DTBs,
         \A d \in DTBs : DOMAIN mem'[d] = DOMAIN mem[d] /\ (mem[d] = NoFiles => mem'[d] = NoFiles)
  PROVE  Crossing'
<1>3. CPUsTyped' /\ \A e \in CPUs : IF e = c THEN cpu'[e] = r ELSE cpu'[e] = cpu[e]
  <2>1. CPUsTyped /\ DOMAIN unread' = CPUs /\ unread'[c] = "none"
    BY DEF Crossing, Typed, CPUsTyped, Runs
  <2>3. r.dtb \in DTBs
    BY DEF IsCPU
  <2>2. Becomes(c, r)
    BY <2>1, <2>3 DEF Becomes
  <2> QED BY <2>1, <2>2, CPUStays
<1>2. Typed'
  BY <1>3 DEF Crossing, Typed, PlaceTyped, TableTyped, JobsTyped, WireTyped, MemTyped, NamesItsFile
<1>4. OneReport'
  <2> SUFFICES ASSUME NEW e \in CPUs, cpu'[e].dtb \notin Exempt
               PROVE  cpu'[e].said = IF cpu'[e].at \in {"idle", "tellsDAM"} THEN 1 ELSE 0
    BY DEF OneReport
  <2>1. CASE e = c
    BY <1>3, <2>1 DEF Crossing, OneReport, Runs, D
  <2>2. CASE e # c
    BY <1>3, <2>2 DEF Crossing, OneReport
  <2> QED BY <2>1, <2>2
<1>6. \A d \in DTBs, e \in CPUs : ToldBy(e, d)' <=> ToldBy(e, d)
  BY <1>3 DEF ToldBy, D
<1>5. \A d \in DTBs : Untouched(d)
  BY <1>3, <1>6 DEF Untouched, RunsIt, HandsIt, Runs, D
<1> QED BY <1>2, <1>4, <1>5, Together

\* A DTB that its CPU ends has no other place, and FM9 is told to release its memory.
LEMMA AbortsKeeps ==
  ASSUME Crossing, NEW c \in CPUs, Runs(c), Aborts(c), UNCHANGED <<job, wire, history>>
  PROVE  Crossing'
<1>1. /\ cpu' = [cpu EXCEPT ![c] = Stops(c)] /\ closing' = closing \cup {D(c)}
      /\ UNCHANGED <<table, unread, mem>>
  BY DEF Aborts, CPU_EndDTB
<1>2. /\ IsCPU(Stops(c)) /\ Stops(c).at = "idle" /\ Stops(c).dtb = D(c)
      /\ Stops(c).said = cpu[c].said + 1
  BY DEF Crossing, Typed, CPUsTyped, IsCPU, Stops, GoesOn, D
<1>3. \A e \in CPUs : IF e = c THEN cpu'[e] = Stops(c) ELSE cpu'[e] = cpu[e]
  BY <1>1 DEF Crossing, Typed, CPUsTyped
<1>4. /\ PlaceTyped'
      /\ \A d \in DTBs : place'[d] = IF d = D(c) /\ place[d] \in Alive THEN "ended" ELSE place[d]
      /\ fallen' => fallen \/ place[D(c)] \notin Alive
  BY DEF Aborts, CPU_EndDTB, Moves, Crossing, Typed, PlaceTyped
<1>5. CPUsTyped'
  <2>1. CPUsTyped /\ DOMAIN unread' = CPUs /\ D(c) \in DTBs
    BY <1>1 DEF Crossing, Typed, CPUsTyped, IsCPU, Runs, D
  <2>2. Becomes(c, Stops(c))
    BY <1>1, <1>2, <2>1 DEF Becomes
  <2> QED BY <2>1, <2>2, CPUStays
<1>6. Typed'
  BY <1>1, <1>4, <1>5 DEF Crossing, Typed, TableTyped, JobsTyped, WireTyped, MemTyped, NamesItsFile
<1>7. OneReport'
  <2> SUFFICES ASSUME NEW e \in CPUs, cpu'[e].dtb \notin Exempt
               PROVE  cpu'[e].said = IF cpu'[e].at \in {"idle", "tellsDAM"} THEN 1 ELSE 0
    BY DEF OneReport
  <2>1. CASE e = c
    <3>1. cpu[c].said = 0
      BY <1>2, <1>3, <2>1 DEF Crossing, OneReport, Runs, D
    <3>2. cpu[c].said + 1 = 1
      BY <3>1
    <3> QED BY <1>2, <1>3, <2>1, <3>2
  <2>2. CASE e # c
    BY <1>3, <2>2 DEF Crossing, OneReport
  <2> QED BY <2>1, <2>2
<1>8. ASSUME NEW d \in DTBs \ Exempt, d # D(c) PROVE Untouched(d)
  <2>1. \A e \in CPUs : RunsIt(e, d)' <=> RunsIt(e, d)
    BY <1>2, <1>3, <1>8 DEF RunsIt, Runs, D
  <2>2. \A e \in CPUs : HandsIt(e, d)' <=> HandsIt(e, d)
    BY <1>2, <1>3, <1>8 DEF HandsIt, Runs, D
  <2>3. \A e \in CPUs : (RunsIt(e, d) => cpu'[e].open = cpu[e].open) /\ (ToldBy(e, d) => cpu'[e].open = cpu[e].open)
    BY <1>3, <1>8 DEF RunsIt, ToldBy, D
  <2>4. \A e \in CPUs : ToldBy(e, d)' <=> ToldBy(e, d)
    BY <1>1, <1>2, <1>3 DEF ToldBy, D
  <2> QED BY <1>1, <1>4, <1>8, <2>1, <2>2, <2>3, <2>4 DEF Untouched
<1>9. ASSUME NEW a \in DTBs \ Exempt, a = D(c) PROVE Good(a)' /\ place[a] \in Alive
  <2>1. RunsIt(c, a) /\ Good(a)
    BY <1>9 DEF Crossing, RunsIt, Runs, D
  <2>10. Where(a) = "exec" /\ \A e \in CPUs : ~ToldBy(e, a)
    BY <2>1, InExec DEF Good, OneCPU
  <2>11. \A e \in CPUs : ~ToldBy(e, a)'
    BY <1>1, <1>2, <1>3, <2>10 DEF ToldBy, D
  <2>12. Where(a)' = place'[a] /\ Table(a)' = table'[a] /\ OneNotice(a)'
    BY <2>11, NotToldThen
  <2>13. place[a] = "exec" /\ place[a] \in Alive
    BY <2>10, NotTold DEF Alive
  <2>2. Where(a)' = "ended"
    BY <1>4, <1>9, <2>12, <2>13
  <2>3. \A e \in CPUs : ~RunsIt(e, a)' /\ ~HandsIt(e, a)'
    <3>1. \A e \in CPUs : e # c => ~RunsIt(e, a) /\ ~HandsIt(e, a)
      BY <2>1 DEF Good, OneCPU, Has
    <3> QED BY <1>2, <1>3, <1>9, <3>1 DEF RunsIt, HandsIt
  <2>4. ~Served(a) /\ Pieces(a) = {}
    BY <2>1, <2>10 DEF Good, OneCPU
  <2>5. ~Served(a)' /\ Pieces(a)' = {} /\ ~HeaderSent(a)'
    <3>1. ~Served(a)' /\ Pieces(a)' = {}
      BY <2>4 DEF Served, Pieces
    <3> QED BY <3>1, Unserved DEF Served
  <2>6. OneCPU(a)' /\ OneJob(a)' /\ OneAnswer(a)'
    BY <2>2, <2>3, <2>5 DEF OneCPU, Has, OneJob, OneAnswer
  <2>7. OneTable(a)'
    BY <2>2, <2>3, <2>5 DEF OneTable
  <2>8. OneRelease(a)'
    BY <1>1, <1>9, <2>2 DEF OneRelease
  <2> QED BY <2>6, <2>7, <2>8, <2>12, <2>13 DEF Good
<1>10. fallen' => fallen \/ Exempt' # {}
  <2>1. D(c) \in DTBs
    BY DEF Crossing, Typed, CPUsTyped, IsCPU, Runs, D
  <2> QED BY <1>4, <1>9, <2>1
<1> QED BY <1>6, <1>7, <1>8, <1>9, <1>10, Together

\* A request that DAM goes on with keeps its DTB where it waits, and its files as they are known.
LEMMA JobMoves ==
  ASSUME Crossing, NEW d \in DTBs, Served(d), ~HeaderSent(d), job[d].at # "release",
         NEW j, IsJob(j), j.op = job[d].op, j.path = job[d].path,
         j.at \notin {"doneHeader", "errorHeader", "release"},
         job' = [job EXCEPT ![d] = j],
         UNCHANGED <<place, table, unread, fallen, cpu, wire, closing, history>>,
         DOMAIN mem' = DTBs, \A e \in DTBs : e # d => mem'[e] = mem[e],
         (d \notin Exempt /\ j.at # "error") => DOMAIN mem'[d] = Table(d) \cup Loaded(j.op, j.path, j.at = "done")
  PROVE  Crossing'
<1>1. job'[d] = j /\ \A e \in DTBs : e # d => job'[e] = job[e]
  BY DEF Crossing, Typed, JobsTyped
<1>2. Typed'
  <2>1. JobsTyped'
    BY <1>1 DEF Crossing, Typed, JobsTyped
  <2> QED BY <2>1 DEF Crossing, Typed, PlaceTyped, TableTyped, CPUsTyped, WireTyped, MemTyped, NamesItsFile
<1>3. OneReport'
  BY DEF Crossing, OneReport
<1>4. ASSUME NEW e \in DTBs, e # d PROVE Untouched(e)
  BY <1>1, <1>4 DEF Untouched, RunsIt, HandsIt, ToldBy
<1>5. ASSUME d \notin Exempt PROVE Good(d)'
  <2>1. Good(d)
    BY <1>5 DEF Crossing
  <2>11. Where(d)' = Where(d) /\ Table(d)' = Table(d) /\ OneNotice(d)'
    BY <2>1, WhereStays DEF Good, ToldBy
  <2>12. PICK w, s : w = Where(d) /\ w = Where(d)' /\ s = Table(d) /\ s = Table(d)'
    BY <2>11
  <2>2. \A c \in CPUs : (RunsIt(c, d)' <=> RunsIt(c, d)) /\ (HandsIt(c, d)' <=> HandsIt(c, d))
    BY DEF RunsIt, HandsIt
  <2>3. Served(d)' /\ ~HeaderSent(d)' /\ j.at # "release"
    <3>1. j # Nothing
      BY DEF IsJob, Nothing, JobPlaces, Ops, Answered
    <3>2. ~HeaderSent(d)'
      BY <1>1 DEF HeaderSent
    <3> QED BY <1>1, <3>1, <3>2 DEF Served
  <2>4. Pieces(d) = {} /\ Pieces(d)' = {} /\ w = AnswersTo(job[d])
    BY <2>1, <2>12 DEF Good, OneJob, Pieces
  <2>5. AnswersTo(job[d]) = AnswersTo(j) /\ w \in {"loading", "blocked"}
    BY <2>4 DEF AnswersTo
  <2>6. \A c \in CPUs : ~RunsIt(c, d) /\ ~HandsIt(c, d)
    BY <2>1, <2>5, <2>12 DEF Good, OneCPU
  <2>7. OneCPU(d)' /\ OneAnswer(d)'
    BY <2>2, <2>4, <2>5, <2>6, <2>12 DEF OneCPU, Has, OneAnswer
  <2>8. OneJob(d)'
    BY <1>1, <2>3, <2>4, <2>5, <2>12 DEF OneJob, AnswersTo
  <2>9. OneTable(d)'
    <3>1. P(d)' = j.path /\ (Succeeds(d)' <=> j.at = "done")
      BY <1>1 DEF P, Succeeds
    <3>2. Loaded(job'[d].op, P(d)', Succeeds(d)') = Loaded(j.op, j.path, j.at = "done")
      BY <1>1, <3>1 DEF Loaded
    <3> QED BY <1>1, <1>5, <2>2, <2>4, <2>5, <2>6, <2>12, <3>2 DEF OneTable
  <2>10. OneRelease(d)'
    <3>1. ~Refused(d) /\ ~Refused(d)'
      BY <2>4 DEF Refused
    <3> QED BY <2>1, <2>3, <2>5, <2>12, <3>1 DEF Good, OneRelease
  <2> QED BY <2>7, <2>8, <2>9, <2>10, <2>11 DEF Good
<1> QED BY <1>2, <1>3, <1>4, <1>5, Together

\* What a request says while DAM serves it, before it has answered.
LEMMA JobKnown ==
  ASSUME Crossing, NEW d \in DTBs, Served(d)
  PROVE  /\ IsJob(job[d])
         /\ d \notin Exempt /\ job[d].at \notin {"release", "error", "errorHeader"} =>
              DOMAIN mem[d] = Table(d) \cup Loaded(job[d].op, job[d].path, Succeeds(d))
BY DEF Crossing, Typed, JobsTyped, Served, Good, OneTable, P

\* The places of a request that has no answer yet.
Before == Ops \cup {"queued", "read", "store", "write"}

\* DAM's thread goes on with a request; a file that it opened is in memory then.
LEMMA ServesOn ==
  ASSUME Crossing, NEW d \in DTBs, job[d].at \in Before,
         NEW j, j.op = job[d].op, j.path = job[d].path, DOMAIN j = DOMAIN job[d],
         j.at \in Before \cup {"done", "error"},
         j.at \in Ops => j.op = j.at,
         j.at \in {"read", "store"} => j.op \in {"dummy", "abrir"},
         j.at = "write" => j.op = "flush",
         job' = [job EXCEPT ![d] = j],
         UNCHANGED <<place, table, unread, fallen, cpu, wire, closing, history>>,
         DOMAIN mem' = DTBs, \A e \in DTBs : e # d => mem'[e] = mem[e],
         DOMAIN mem'[d] = IF j.at = "done" /\ j.op \in {"dummy", "abrir"}
                            THEN DOMAIN mem[d] \cup {j.path} ELSE DOMAIN mem[d]
  PROVE  Crossing'
<1>1. Served(d) /\ ~HeaderSent(d) /\ job[d].at # "release"
  <2>1. job[d] # Nothing
    BY DEF Nothing, Before, Ops
  <2> QED BY <2>1 DEF Served, HeaderSent, Before, Ops
<1>2. IsJob(job[d])
  BY <1>1, JobKnown
<1>3. IsJob(j)
  BY <1>2 DEF IsJob, NamesItsFile, JobPlaces, Before, Answered
<1>4. j.at \notin {"doneHeader", "errorHeader", "release"}
  BY DEF Before, Ops
<1>5. ASSUME d \notin Exempt, j.at # "error"
      PROVE  DOMAIN mem'[d] = Table(d) \cup Loaded(j.op, j.path, j.at = "done")
  <2>1. ~Succeeds(d) /\ job[d].at \notin {"release", "error", "errorHeader"}
    BY DEF Succeeds, Before, Ops
  <2>2. DOMAIN mem[d] = Table(d) \cup Loaded(j.op, j.path, Succeeds(d))
    BY <1>1, <1>5, <2>1, JobKnown
  <2> QED BY <2>1, <2>2 DEF Loaded
<1> QED BY <1>1, <1>3, <1>4, <1>5, JobMoves

\* The thread does so in eight ways.
LEMMA ServesKeeps ==
  ASSUME Crossing, NEW d \in DTBs,
         \/ Takes(d) \/ DAM_Crear(d) \/ DAM_Borrar(d) \/ ChecksFile(d) \/ DAM_ReadFile(d)
         \/ DAM_SendToFM9(d) \/ DAM_ReadFileFromFM9(d) \/ DAM_Flush(d)
  PROVE  Crossing'
<1>1. job[d].at \in Before => IsJob(job[d])
  <2>1. job[d].at \in Before => job[d] # Nothing
    BY DEF Nothing, Before, Ops
  <2> QED BY <2>1 DEF Crossing, Typed, JobsTyped
<1>2. DOMAIN mem = DTBs
  BY DEF Crossing, Typed, MemTyped
<1>3. ASSUME NEW x \in Before \cup {"done", "error"}, Goes(d, x), job[d].at \in Before,
             x \in Ops => job[d].op = x,
             x \in {"read", "store"} => job[d].op \in {"dummy", "abrir"},
             x = "write" => job[d].op = "flush",
             UNCHANGED <<place, table, unread, fallen, cpu, wire, closing, history>>,
             x = "done" => job[d].op \notin {"dummy", "abrir"}, mem' = mem
      PROVE  Crossing'
  <2> DEFINE j == [job[d] EXCEPT !.at = x]
  <2>1. j.at = x /\ j.op = job[d].op /\ j.path = job[d].path /\ DOMAIN j = DOMAIN job[d]
    BY <1>1, <1>3 DEF IsJob
  <2>2. job' = [job EXCEPT ![d] = j]
    BY <1>3 DEF Goes
  <2> HIDE DEF j
  <2> QED BY <1>2, <1>3, <2>1, <2>2, ServesOn
<1>10. CASE Takes(d)
  BY <1>1, <1>3, <1>10 DEF Takes, Serving, safa, cpus, memory, IsJob, NamesItsFile, Before, Ops
<1>11. CASE DAM_Crear(d)
  BY <1>1, <1>3, <1>11 DEF DAM_Crear, Serving, safa, cpus, memory, IsJob, Before, Ops
<1>12. CASE DAM_Borrar(d)
  BY <1>1, <1>3, <1>12 DEF DAM_Borrar, Serving, safa, cpus, memory, IsJob, Before, Ops
<1>13. CASE ChecksFile(d)
  BY <1>1, <1>3, <1>13 DEF ChecksFile, Serving, safa, cpus, memory, IsJob, Before, Ops
<1>14. CASE DAM_ReadFile(d)
  <2> DEFINE chunk == Chunk(disk[P(d)], Len(job[d].data))
             j == [job[d] EXCEPT !.at = IF chunk = <<>> THEN "store" ELSE @, !.data = @ \o chunk]
  <2>1. job[d].at = "read" /\ UNCHANGED <<place, table, unread, fallen, cpu, wire, closing, history, mem>>
    BY <1>14 DEF DAM_ReadFile, Serving, safa, cpus, memory
  <2>2. j.at \in {"read", "store"} /\ j.op = job[d].op /\ j.path = job[d].path /\ DOMAIN j = DOMAIN job[d]
    BY <1>1, <2>1 DEF IsJob, Before
  <2>3. job' = [job EXCEPT ![d] = j]
    BY <1>14 DEF DAM_ReadFile
  <2>4. job[d].op \in {"dummy", "abrir"}
    BY <1>1, <2>1 DEF IsJob, Before
  <2> HIDE DEF j
  <2> QED BY <1>2, <2>1, <2>2, <2>3, <2>4, ServesOn DEF Before, Ops
<1>15. CASE DAM_SendToFM9(d)
  <2>1. CASE UNCHANGED mem /\ Goes(d, "error")
    BY <1>1, <1>3, <1>15, <2>1 DEF DAM_SendToFM9, Serving, safa, cpus, memory, IsJob, Before, Ops
  <2>2. CASE mem' = [mem EXCEPT ![d] = With(@, P(d), job[d].data)] /\ Goes(d, "done")
    <3> DEFINE j == [job[d] EXCEPT !.at = "done"]
    <3>1. job[d].at = "store" /\ UNCHANGED <<place, table, unread, fallen, cpu, wire, closing, history>>
      BY <1>15 DEF DAM_SendToFM9, Serving, safa, cpus
    <3>2. j.at = "done" /\ j.op = job[d].op /\ j.path = job[d].path /\ DOMAIN j = DOMAIN job[d]
      BY <1>1, <3>1 DEF IsJob, Before
    <3>3. job' = [job EXCEPT ![d] = j]
      BY <2>2 DEF Goes
    <3>4. job[d].op \in {"dummy", "abrir"}
      BY <1>1, <3>1 DEF IsJob, Before
    <3>5. /\ DOMAIN mem' = DTBs /\ \A e \in DTBs : e # d => mem'[e] = mem[e]
          /\ DOMAIN mem'[d] = DOMAIN mem[d] \cup {job[d].path}
      BY <1>2, <2>2 DEF With, P
    <3> HIDE DEF j
    <3> QED BY <3>1, <3>2, <3>3, <3>4, <3>5, ServesOn DEF Before, Ops
  <2> QED BY <1>15, <2>1, <2>2 DEF DAM_SendToFM9
<1>16. CASE DAM_ReadFileFromFM9(d)
  <2>1. CASE P(d) \notin DOMAIN mem[d]
    BY <1>1, <1>3, <1>16, <2>1 DEF DAM_ReadFileFromFM9, Serving, safa, cpus, memory, Before, Ops
  <2>2. CASE P(d) \in DOMAIN mem[d]
    <3> DEFINE j == [job[d] EXCEPT !.at = "write", !.data = mem[d][P(d)], !.n = 0]
    <3>1. job[d].at = "flush" /\ UNCHANGED <<place, table, unread, fallen, cpu, wire, closing, history, mem>>
      BY <1>16 DEF DAM_ReadFileFromFM9, Serving, safa, cpus, memory
    <3>2. j.at = "write" /\ j.op = job[d].op /\ j.path = job[d].path /\ DOMAIN j = DOMAIN job[d]
      BY <1>1, <3>1 DEF IsJob, Before, Ops
    <3>3. job' = [job EXCEPT ![d] = j]
      BY <1>16, <2>2 DEF DAM_ReadFileFromFM9
    <3>4. job[d].op = "flush"
      BY <1>1, <3>1 DEF IsJob, Before, Ops
    <3> HIDE DEF j
    <3> QED BY <1>2, <3>1, <3>2, <3>3, <3>4, ServesOn DEF Before, Ops
  <2> QED BY <2>1, <2>2
<1>17. CASE DAM_Flush(d)
  <2> DEFINE chunk == Chunk(job[d].data, job[d].n)
             j == [job[d] EXCEPT !.n = @ + Len(chunk)]
  <2>1. job[d].at = "write" /\ UNCHANGED <<place, table, unread, fallen, cpu, wire, closing, history, mem>>
    BY <1>17 DEF DAM_Flush, Serving, safa, cpus, memory
  <2>2. job[d].op = "flush"
    BY <1>1, <2>1 DEF IsJob, Before
  <2>3. CASE Goes(d, "done") \/ Goes(d, "error")
    BY <1>3, <2>1, <2>2, <2>3 DEF Before, Ops
  <2>4. CASE job' = [job EXCEPT ![d] = j]
    <3>1. j.at = "write" /\ j.op = job[d].op /\ j.path = job[d].path /\ DOMAIN j = DOMAIN job[d]
      BY <1>1, <2>1 DEF IsJob, Before
    <3> HIDE DEF j
    <3> QED BY <1>2, <2>1, <2>2, <2>4, <3>1, ServesOn DEF Before, Ops
  <2> QED BY <1>17, <2>3, <2>4 DEF DAM_Flush
<1> QED BY <1>10, <1>11, <1>12, <1>13, <1>14, <1>15, <1>16, <1>17

\* The lines of a script: DAM is asked for an operation, or FM9 for a write or a close.
LEMMA LinesKeep ==
  ASSUME Crossing, NEW c \in CPUs,
         \/ EndsScript(c) \/ ExecutesLine(c)
         \/ \E p \in Paths :
              \/ CommandFails(c, p) \/ \E i \in Sizes : CommandAsignar(c, p, i)
              \/ CommandAbrir(c, p) \/ CommandFlush(c, p) \/ CommandCrear(c, p) \/ CommandBorrar(c, p)
  PROVE  Crossing'
<1>1. IsCPU(cpu[c]) /\ DOMAIN mem = DTBs
  BY DEF Crossing, Typed, CPUsTyped, MemTyped
<1>2. ASSUME Runs(c), cpu' = [cpu EXCEPT ![c] = GoesOn(c)],
             UNCHANGED <<place, table, unread, fallen, job, wire, closing, history>>, DOMAIN mem' = DTBs,
             \A d \in DTBs : DOMAIN mem'[d] = DOMAIN mem[d] /\ (mem[d] = NoFiles => mem'[d] = NoFiles)
      PROVE  Crossing'
  <2>1. /\ IsCPU(GoesOn(c)) /\ GoesOn(c).dtb = D(c) /\ GoesOn(c).open = cpu[c].open
        /\ GoesOn(c).said = cpu[c].said /\ GoesOn(c).at = "runs"
    BY <1>1, <1>2 DEF IsCPU, GoesOn, D, Runs
  <2> QED BY <1>2, <2>1, GoesOnKeeps
<1>3. CASE EndsScript(c)
  BY <1>3, AbortsKeeps DEF EndsScript, dam
<1>4. CASE ExecutesLine(c)
  BY <1>1, <1>2, <1>4 DEF ExecutesLine, Fetches, safa, dam, memory
<1>5. ASSUME NEW p \in Paths, CommandFails(c, p) PROVE Crossing'
  BY <1>5, AbortsKeeps DEF CommandFails, Fetches, dam
<1>6. ASSUME NEW p \in Paths, NEW i \in Sizes, CommandAsignar(c, p, i) PROVE Crossing'
  <2>1. CASE Aborts(c)
    BY <1>6, <2>1, AbortsKeeps DEF CommandAsignar, Fetches, dam
  <2>2. CASE /\ p \in DOMAIN mem[D(c)] /\ UNCHANGED <<safa, closing>>
             /\ mem' = [mem EXCEPT ![D(c)][p][i] = "written"]
             /\ cpu' = [cpu EXCEPT ![c] = GoesOn(c)]
    <3>1. Runs(c) /\ UNCHANGED <<place, table, unread, fallen, job, wire, closing, history>>
      BY <1>6, <2>2 DEF CommandAsignar, Fetches, dam, safa
    <3>2. DOMAIN mem' = DTBs /\ \A d \in DTBs : DOMAIN mem'[d] = DOMAIN mem[d]
      BY <1>1, <2>2
    <3>3. \A d \in DTBs : mem[d] = NoFiles => mem'[d] = NoFiles
      BY <1>1, <2>2 DEF NoFiles
    <3> QED BY <1>2, <2>2, <3>1, <3>2, <3>3
  <2> QED BY <1>6, <2>1, <2>2 DEF CommandAsignar
<1>7. ASSUME NEW p \in Paths, NEW op \in Ops \ {"dummy"}, NEW n, Command(c, op, p, n) PROVE Crossing'
  <2> DEFINE r == [GoesOn(c) EXCEPT !.at = Then("runs"), !.asks = Asked(op, p, n)]
  <2>1. Runs(c) /\ UNCHANGED <<place, table, unread, fallen, job, wire, closing, history, mem>> /\ cpu' = [cpu EXCEPT ![c] = r]
    BY <1>7 DEF Command, Fetches, dam, safa, memory
  <2>2. Then("runs") = "tellsSAFA"
    BY DEF Then
  <2>3. IsOrder(Asked(op, p, n))
    BY DEF IsOrder, IsJob, Asked, NamesItsFile, Ops, JobPlaces
  <2>4. /\ IsCPU(r) /\ r.dtb = D(c) /\ r.open = cpu[c].open /\ r.said = cpu[c].said
        /\ r.at = "tellsSAFA"
    BY <1>1, <2>1, <2>2, <2>3 DEF IsCPU, GoesOn, D, Runs
  <2> HIDE DEF r
  <2> QED BY <1>1, <2>1, <2>4, GoesOnKeeps
<1>8. ASSUME NEW p \in Paths,
             CommandAbrir(c, p) \/ CommandFlush(c, p) \/ CommandCrear(c, p) \/ CommandBorrar(c, p)
      PROVE  Crossing'
  BY <1>7, <1>8 DEF CommandAbrir, CommandFlush, CommandCrear, CommandBorrar, Ops
<1> QED BY <1>3, <1>4, <1>5, <1>6, <1>8

\* A close takes the file out of the memory and out of the CPU's table.
LEMMA CloseKeeps ==
  ASSUME Crossing, NEW c \in CPUs, NEW p \in Paths, CommandClose(c, p)
  PROVE  Crossing'
<1>1. Runs(c) /\ p \in cpu[c].open /\ UNCHANGED <<job, wire, history, table, unread>>
  BY DEF CommandClose, Fetches, dam, safa, CPU_EndDTB
<1>2. IsCPU(cpu[c]) /\ DOMAIN mem = DTBs /\ D(c) \in DTBs
  BY <1>1 DEF Crossing, Typed, CPUsTyped, MemTyped, IsCPU, Runs, D
<1>3. CASE p \in DOMAIN mem[D(c)]
  <2> DEFINE r == [GoesOn(c) EXCEPT !.open = @ \ {p}]
  <2>1. /\ IsCPU(r) /\ r.dtb = D(c) /\ r.open = cpu[c].open \ {p} /\ r.said = cpu[c].said
        /\ r.at = "runs"
    BY <1>1, <1>2 DEF IsCPU, GoesOn, D, Runs
  <2>10. cpu' = [cpu EXCEPT ![c] = r]
    BY <1>3 DEF CommandClose
  <2> HIDE DEF r
  <2>2. CPUsTyped' /\ \A e \in CPUs : IF e = c THEN cpu'[e] = r ELSE cpu'[e] = cpu[e]
    <3>1. CPUsTyped /\ DOMAIN unread' = CPUs /\ unread'[c] = "none"
      BY <1>1 DEF Crossing, Typed, CPUsTyped, Runs
    <3>2. Becomes(c, r)
      BY <1>1, <1>2, <2>1, <2>10, <3>1 DEF Becomes
    <3> QED BY <3>1, <3>2, CPUStays
  <2>3. /\ UNCHANGED <<place, fallen, closing>> /\ DOMAIN mem' = DTBs
        /\ \A e \in DTBs : e # D(c) => mem'[e] = mem[e]
        /\ DOMAIN mem'[D(c)] = DOMAIN mem[D(c)] \ {p}
    BY <1>2, <1>3 DEF CommandClose, safa, Without
  <2>5. Typed'
    BY <1>1, <2>2, <2>3 DEF Crossing, Typed, PlaceTyped, TableTyped, JobsTyped, WireTyped, MemTyped, NamesItsFile
  <2>6. OneReport'
    <3> SUFFICES ASSUME NEW e \in CPUs, cpu'[e].dtb \notin Exempt
                 PROVE  cpu'[e].said = IF cpu'[e].at \in {"idle", "tellsDAM"} THEN 1 ELSE 0
      BY <1>1 DEF OneReport
    <3> QED BY <1>1, <2>1, <2>2 DEF Crossing, OneReport, Runs, D
  <2>9. \A d \in DTBs, e \in CPUs : ToldBy(e, d)' <=> ToldBy(e, d)
    BY <1>1, <2>1, <2>2 DEF ToldBy, D
  <2>7. ASSUME NEW d \in DTBs, d # D(c) PROVE Untouched(d)
    BY <1>1, <2>1, <2>2, <2>3, <2>7, <2>9 DEF Untouched, RunsIt, HandsIt, ToldBy, D
  <2>8. ASSUME NEW d \in DTBs \ Exempt, d = D(c) PROVE Good(d)'
    <3>1. Good(d) /\ RunsIt(c, d)
      BY <1>1, <2>8 DEF Crossing, RunsIt, Runs, D
    <3>2. Where(d) = "exec" /\ ~Served(d) /\ Pieces(d) = {}
      BY <3>1 DEF Good, OneCPU
    <3>9. \A e \in CPUs : ~ToldBy(e, d) /\ ~ToldBy(e, d)'
      BY <2>9, <3>1, <3>2, InExec DEF Good
    <3>10. Where(d)' = Where(d) /\ OneNotice(d)'
      BY <2>3, <3>9, NotTold, NotToldThen
    <3>3. /\ ~Served(d)' /\ Pieces(d)' = {} /\ Where(d)' = "exec"
          /\ d \in closing' <=> d \in closing
      BY <1>1, <2>3, <3>2, <3>10 DEF Served, Pieces
    <3>4. \A e \in CPUs : ~HandsIt(e, d)' /\ (RunsIt(e, d)' <=> e = c)
      <4>1. \A e \in CPUs : e # c => ~RunsIt(e, d) /\ ~HandsIt(e, d)
        BY <3>1 DEF Good, OneCPU, Has
      <4> QED BY <2>1, <2>2, <2>8, <4>1 DEF RunsIt, HandsIt
    <3>5. OneCPU(d)' /\ OneAnswer(d)'
      BY <3>3, <3>4 DEF OneCPU, Has, OneAnswer
    <3>6. OneJob(d)'
      BY <3>3, Unserved DEF OneJob, Served
    <3>7. OneTable(d)'
      <4>1. DOMAIN mem[d] = cpu[c].open \cup {Script}
        BY <3>1 DEF Good, OneTable
      <4>2. DOMAIN mem'[d] = cpu'[c].open \cup {Script}
        BY <2>1, <2>2, <2>3, <2>8, <4>1, OperationsAssumption DEF OperationsAssumption
      <4> QED BY <3>3, <3>4, <4>2 DEF OneTable
    <3>8. OneRelease(d)'
      BY <3>1, <3>2, <3>3 DEF Good, OneRelease, Refused
    <3> QED BY <3>5, <3>6, <3>7, <3>8, <3>10 DEF Good
  <2> QED BY <1>1, <2>3, <2>5, <2>6, <2>7, <2>8, Together
<1>4. CASE p \notin DOMAIN mem[D(c)]
  <2>1. D(c) \in Exempt
    <3> SUFFICES ASSUME D(c) \notin Exempt PROVE FALSE
      OBVIOUS
    <3>1. Good(D(c)) /\ RunsIt(c, D(c))
      BY <1>1, <1>2 DEF Crossing, RunsIt, Runs, D
    <3>2. DOMAIN mem[D(c)] = cpu[c].open \cup {Script}
      BY <3>1 DEF Good, OneTable
    <3> QED BY <1>1, <1>4, <3>2
  <2>2. IsCPU(CloseFails(c)) /\ CloseFails(c).dtb = D(c) /\ CloseFails(c).at = "runs"
    BY <1>1, <1>2 DEF IsCPU, CloseFails, GoesOn, D, Runs
  <2>3. CPU_EndDTB(D(c)) /\ \A e \in CPUs : IF e = c THEN cpu'[e] = CloseFails(c) ELSE cpu'[e] = cpu[e]
    BY <1>4 DEF CommandClose, Crossing, Typed, CPUsTyped
  <2>4. CPUsTyped'
    BY <1>1, <1>4, <2>2, <2>3 DEF CommandClose, Crossing, Typed, CPUsTyped, Runs
  <2>5. PlaceTyped' /\ \A d \in DTBs : d # D(c) => place'[d] = place[d]
    BY <2>3 DEF CPU_EndDTB, Moves, Crossing, Typed, PlaceTyped
  <2>6. UNCHANGED mem /\ closing' = closing \cup {D(c)}
    BY <2>3 DEF CPU_EndDTB
  <2>7. Typed'
    BY <1>1, <2>4, <2>5, <2>6 DEF Crossing, Typed, TableTyped, JobsTyped, WireTyped, MemTyped, NamesItsFile
  <2>8. OneReport'
    BY <1>1, <2>1, <2>2, <2>3 DEF Crossing, OneReport
  <2>9. ASSUME NEW d \in DTBs \ Exempt PROVE Untouched(d)
    BY <1>1, <2>1, <2>2, <2>3, <2>5, <2>6, <2>9 DEF Untouched, RunsIt, HandsIt, ToldBy, D
  <2>10. Exempt # {} /\ UNCHANGED history /\ wire' = wire
    BY <1>1, <2>1
  <2> QED BY <2>7, <2>8, <2>9, <2>10, Together
<1> QED BY <1>3, <1>4

\* A CPU goes on to another record, with as many reports as its place asks for.
LEMMA CPUMoves ==
  ASSUME Crossing, NEW c \in CPUs, NEW r, Becomes(c, r), Reported(r), Exempt \subseteq Exempt'
  PROVE  /\ CPUsTyped' /\ OneReport'
         /\ \A e \in CPUs : IF e = c THEN cpu'[e] = r ELSE cpu'[e] = cpu[e]
<1>1. CPUsTyped' /\ \A e \in CPUs : IF e = c THEN cpu'[e] = r ELSE cpu'[e] = cpu[e]
  BY CPUStays DEF Crossing, Typed
<1>2. OneReport'
  BY <1>1 DEF Crossing, OneReport, Reported
<1> QED BY <1>1, <1>2

\* The dummy's CPU reports; nobody has its DTB.
LEMMA BlocksDummyKeeps ==
  ASSUME Crossing, NEW c \in CPUs, BlocksDummy(c) PROVE Crossing'
<1> DEFINE r == [cpu[c] EXCEPT !.at = "idle", !.said = @ + 1]
<1>1. IsCPU(cpu[c]) /\ cpu[c].at = "dummy"
  BY DEF Crossing, Typed, CPUsTyped, BlocksDummy
<1>2. IsCPU(r) /\ r.at = "idle" /\ r.dtb = cpu[c].dtb /\ r.said = cpu[c].said + 1
  BY <1>1 DEF IsCPU
<1>3. r.dtb \notin Exempt => r.said = 1
  <2>1. r.dtb \notin Exempt => cpu[c].said = 0
    BY <1>1, <1>2 DEF Crossing, OneReport
  <2> HIDE DEF r
  <2> QED BY <1>2, <2>1
<1>4. /\ cpu' = [cpu EXCEPT ![c] = r] /\ unread' = [unread EXCEPT ![c] = "BLOCKDUMMY"]
      /\ UNCHANGED <<place, table, fallen, job, wire, mem, closing, history>>
  BY DEF BlocksDummy, dam, memory
<1> HIDE DEF r
<1>8. /\ DOMAIN unread = CPUs /\ unread[c] = "none" /\ DOMAIN unread' = CPUs
      /\ unread'[c] = "BLOCKDUMMY" /\ \A e \in CPUs : e # c => unread'[e] = unread[e]
      /\ cpu[c].dtb \in DTBs
  BY <1>1, <1>4 DEF Crossing, Typed, CPUsTyped, IsCPU
<1>5. CPUsTyped' /\ OneReport' /\ \A e \in CPUs : IF e = c THEN cpu'[e] = r ELSE cpu'[e] = cpu[e]
  <2>1. Becomes(c, r) /\ Reported(r)
    BY <1>2, <1>3, <1>4, <1>8 DEF Becomes, Reported
  <2> QED BY <1>4, <2>1, CPUMoves
<1>6. Typed'
  BY <1>4, <1>5 DEF Crossing, Typed, PlaceTyped, TableTyped, JobsTyped, WireTyped, MemTyped, NamesItsFile
<1>9. \A d \in DTBs, e \in CPUs : (ToldBy(e, d)' <=> ToldBy(e, d)) /\ (ToldBy(e, d) => e # c)
  BY <1>5, <1>8 DEF ToldBy
<1>7. \A d \in DTBs : Untouched(d)
  BY <1>1, <1>2, <1>4, <1>5, <1>9 DEF Untouched, RunsIt, HandsIt
<1> QED BY <1>4, <1>5, <1>6, <1>7, Together

\* A READY DTB goes to a CPU with the table that its files in memory agree with.
LEMMA DispatchesKeeps ==
  ASSUME Crossing, NEW c \in CPUs, NEW d \in DTBs, Dispatches(c, d) PROVE Crossing'
<1> DEFINE r == [at |-> "runs", dtb |-> d, quantum |-> Quantum, open |-> table[d], asks |-> Nothing, said |-> 0]
<1>1. /\ cpu[c].at = "idle" /\ unread[c] = "none"
      /\ place[d] = "ready" /\ place' = [place EXCEPT ![d] = "exec"]
      /\ cpu' = [cpu EXCEPT ![c] = r] /\ Exempt \subseteq Exempt'
      /\ UNCHANGED <<table, unread, fallen, job, wire, mem, closing>>
  BY DEF Dispatches, Idle, dam, memory
<1>2. /\ IsCPU(r) /\ r.at = "runs" /\ r.dtb = d /\ r.open = table[d] /\ r.said = 0
  BY DEF IsCPU, Crossing, Typed, TableTyped
<1> HIDE DEF r
<1>3. CPUsTyped' /\ OneReport' /\ \A e \in CPUs : IF e = c THEN cpu'[e] = r ELSE cpu'[e] = cpu[e]
  <2>1. DOMAIN unread' = CPUs
    BY <1>1 DEF Crossing, Typed, CPUsTyped
  <2>2. Becomes(c, r) /\ Reported(r)
    BY <1>1, <1>2, <2>1 DEF Becomes, Reported
  <2> QED BY <1>1, <2>2, CPUMoves
<1>8. \A a \in DTBs, e \in CPUs : (ToldBy(e, a)' <=> ToldBy(e, a)) /\ (ToldBy(e, a) => e # c)
  BY <1>1, <1>3 DEF ToldBy
<1>4. PlaceTyped' /\ \A e \in DTBs : place'[e] = IF e = d THEN "exec" ELSE place[e]
  BY <1>1 DEF Crossing, Typed, PlaceTyped
<1>5. Typed'
  BY <1>1, <1>3, <1>4 DEF Crossing, Typed, TableTyped, JobsTyped, WireTyped, MemTyped, NamesItsFile
<1>6. ASSUME NEW e \in DTBs, e # d PROVE Untouched(e)
  BY <1>1, <1>2, <1>3, <1>4, <1>6, <1>8 DEF Untouched, RunsIt, HandsIt
<1>7. ASSUME d \notin Exempt PROVE Good(d)'
  <2>1. Good(d)
    BY <1>7 DEF Crossing
  <2>9. \A e \in CPUs : ~ToldBy(e, d) /\ ~ToldBy(e, d)'
    BY <1>1, <1>8, <2>1, InExec DEF Good
  <2>10. /\ Where(d) = "ready" /\ Table(d) = table[d]
         /\ Where(d)' = "exec" /\ Table(d)' = table[d] /\ OneNotice(d)'
    BY <1>1, <1>4, <2>9, NotTold, NotToldThen
  <2>2. ~Served(d) /\ Pieces(d) = {} /\ DOMAIN mem[d] = table[d] \cup {Script} /\ d \notin closing
    BY <2>1, <2>10 DEF Good, OneCPU, OneTable, OneRelease, Refused
  <2>3. \A e \in CPUs : ~RunsIt(e, d) /\ ~HandsIt(e, d)
    BY <2>1, <2>10 DEF Good, OneCPU
  <2>4. \A e \in CPUs : ~HandsIt(e, d)' /\ (RunsIt(e, d)' <=> e = c)
    BY <1>2, <1>3, <2>3 DEF RunsIt, HandsIt
  <2>5. ~Served(d)' /\ Pieces(d)' = {} /\ Where(d)' = "exec" /\ d \notin closing'
    BY <1>1, <2>2, <2>10 DEF Served, Pieces
  <2>6. OneCPU(d)' /\ OneAnswer(d)' /\ OneRelease(d)'
    BY <2>4, <2>5 DEF OneCPU, Has, OneAnswer, OneRelease, Refused
  <2>7. OneJob(d)'
    BY <2>5, Unserved DEF OneJob, Served
  <2>8. OneTable(d)'
    <3>1. DOMAIN mem'[d] = cpu'[c].open \cup {Script}
      BY <1>1, <1>2, <1>3, <2>2
    <3> QED BY <2>4, <2>5, <3>1 DEF OneTable
  <2> QED BY <2>6, <2>7, <2>8, <2>10 DEF Good
<1> QED BY <1>1, <1>3, <1>5, <1>6, <1>7, Together

\* What the console ends is followed no more.
LEMMA FreesGDTKeeps ==
  ASSUME Crossing, NEW c \in CPUs, NEW d \in DTBs, FreesGDT(c, d) PROVE Crossing'
<1>1. /\ Exempt' = Exempt \cup {d} /\ place' = [place EXCEPT ![d] = "ended"]
      /\ closing' = closing \cup {d} /\ UNCHANGED <<table, unread, fallen, cpu, job, wire, mem>>
  BY DEF FreesGDT, cpus, dam
<1>2. PlaceTyped' /\ \A e \in DTBs : e # d => place'[e] = place[e]
  BY <1>1 DEF Crossing, Typed, PlaceTyped
<1>3. Typed'
  BY <1>1, <1>2 DEF Crossing, Typed, TableTyped, CPUsTyped, JobsTyped, WireTyped, MemTyped, NamesItsFile
<1>4. OneReport'
  BY <1>1 DEF Crossing, OneReport
<1>5. ASSUME NEW e \in DTBs, e # d PROVE Untouched(e)
  BY <1>1, <1>2, <1>5 DEF Untouched, RunsIt, HandsIt, ToldBy
<1> QED BY <1>1, <1>3, <1>4, <1>5, Together

\* A new DTB is loaded: DAM serves it, and no CPU has it.
LEMMA ExecutesDummyKeeps ==
  ASSUME Crossing, NEW c \in CPUs, NEW d \in DTBs, ExecutesDummy(c, d) PROVE Crossing'
<1> DEFINE r == [cpu[c] EXCEPT !.at = "dummy", !.dtb = d, !.said = 0]
           j == Asked("dummy", Script, 0)
<1>1. /\ cpu[c].at = "idle" /\ unread[c] = "none"
      /\ place[d] = "new" /\ place' = [place EXCEPT ![d] = "loading"]
      /\ cpu' = [cpu EXCEPT ![c] = r] /\ job' = [job EXCEPT ![d] = j]
      /\ UNCHANGED <<table, unread, fallen, wire, mem, closing, history>>
  BY DEF ExecutesDummy, Idle, memory
<1>2. IsCPU(r) /\ r.at = "dummy" /\ r.dtb = d /\ r.said = 0
  BY DEF IsCPU, Crossing, Typed, CPUsTyped
<1>3. IsJob(j) /\ j.at = "queued" /\ j.op = "dummy" /\ j.path = Script
  BY DEF IsJob, NamesItsFile, Asked, Ops, JobPlaces
<1> HIDE DEF r, j
<1>4. CPUsTyped' /\ OneReport' /\ \A e \in CPUs : IF e = c THEN cpu'[e] = r ELSE cpu'[e] = cpu[e]
  <2>1. DOMAIN unread' = CPUs
    BY <1>1 DEF Crossing, Typed, CPUsTyped
  <2>2. Becomes(c, r) /\ Reported(r)
    BY <1>1, <1>2, <2>1 DEF Becomes, Reported
  <2> QED BY <1>1, <2>2, CPUMoves
<1>10. \A a \in DTBs, e \in CPUs : (ToldBy(e, a)' <=> ToldBy(e, a)) /\ (ToldBy(e, a) => e # c)
  BY <1>1, <1>4 DEF ToldBy
<1>5. PlaceTyped' /\ \A e \in DTBs : place'[e] = IF e = d THEN "loading" ELSE place[e]
  BY <1>1 DEF Crossing, Typed, PlaceTyped
<1>6. JobsTyped' /\ \A e \in DTBs : job'[e] = IF e = d THEN j ELSE job[e]
  BY <1>1, <1>3 DEF Crossing, Typed, JobsTyped
<1>7. Typed'
  BY <1>1, <1>4, <1>5, <1>6 DEF Crossing, Typed, TableTyped, WireTyped, MemTyped, NamesItsFile
<1>8. ASSUME NEW e \in DTBs, e # d PROVE Untouched(e)
  BY <1>1, <1>2, <1>4, <1>5, <1>6, <1>8, <1>10 DEF Untouched, RunsIt, HandsIt
<1>9. ASSUME d \notin Exempt PROVE Good(d)'
  <2>1. Good(d)
    BY <1>9 DEF Crossing
  <2>10. \A e \in CPUs : ~ToldBy(e, d) /\ ~ToldBy(e, d)'
    BY <1>1, <1>10, <2>1, InExec DEF Good
  <2>11. /\ Where(d) = "new" /\ Table(d) = table[d]
         /\ Where(d)' = "loading" /\ Table(d)' = table[d] /\ OneNotice(d)'
    BY <1>1, <1>5, <2>10, NotTold, NotToldThen
  <2>2. ~Served(d) /\ Pieces(d) = {} /\ DOMAIN mem[d] = {} /\ table[d] = {} /\ d \notin closing
    BY <2>1, <2>11 DEF Good, OneCPU, OneTable, OneRelease, Refused
  <2>3. \A e \in CPUs : ~RunsIt(e, d) /\ ~HandsIt(e, d)
    BY <2>1, <2>11 DEF Good, OneCPU
  <2>4. \A e \in CPUs : ~HandsIt(e, d)' /\ ~RunsIt(e, d)'
    BY <1>2, <1>4, <2>3 DEF RunsIt, HandsIt
  <2>5. /\ Served(d)' /\ job'[d] = j /\ Pieces(d)' = {} /\ Where(d)' = "loading" /\ d \notin closing'
        /\ AnswersTo(j) = "loading"
    BY <1>1, <1>3, <1>6, <2>2, <2>11 DEF Served, Pieces, AnswersTo, Nothing
  <2>6. ~HeaderSent(d)' /\ P(d)' = Script /\ ~Succeeds(d)'
    BY <1>3, <2>5 DEF HeaderSent, P, Succeeds
  <2>7. OneCPU(d)' /\ OneAnswer(d)' /\ OneRelease(d)'
    BY <2>4, <2>5 DEF OneCPU, Has, OneAnswer, OneRelease, Refused
  <2>8. OneJob(d)'
    BY <1>3, <2>5, <2>6 DEF OneJob, AnswersTo
  <2>9. OneTable(d)'
    <3>1. Loaded(job'[d].op, P(d)', Succeeds(d)') = {}
      BY <1>3, <2>5, <2>6 DEF Loaded
    <3>2. DOMAIN mem'[d] = {} /\ Table(d)' = {}
      BY <1>1, <2>2, <2>11
    <3> QED BY <2>4, <2>5, <3>1, <3>2 DEF OneTable
  <2> QED BY <2>7, <2>8, <2>9, <2>11 DEF Good
<1> QED BY <1>1, <1>4, <1>7, <1>8, <1>9, Together

\* At the end of its quantum the CPU gives the DTB back to SAFA with its table, and it is READY.
LEMMA EndsQuantumKeeps ==
  ASSUME Crossing, NEW c \in CPUs, EndsQuantum(c) PROVE Crossing'
<1> DEFINE r == [cpu[c] EXCEPT !.at = "idle", !.said = @ + 1]
<1>0. /\ cpu[c].at = "runs" /\ TakesTable(c) /\ Moves(D(c), {"exec", "blocked"}, "ready")
      /\ cpu' = [cpu EXCEPT ![c] = r] /\ UNCHANGED <<unread, job, wire, mem, closing, history>>
  BY DEF EndsQuantum, Runs, dam, memory
<1>1. IsCPU(cpu[c]) /\ D(c) \in DTBs
  BY <1>0 DEF Crossing, Typed, CPUsTyped, IsCPU, D
<1>2. IsCPU(r) /\ r.dtb = D(c) /\ r.said = cpu[c].said + 1 /\ r.at = "idle"
  BY <1>0, <1>1 DEF IsCPU, D
<1>3. r.dtb \notin Exempt => r.said = 1
  <2>1. r.dtb \notin Exempt => cpu[c].said = 0
    BY <1>0, <1>2 DEF Crossing, OneReport, D
  <2> HIDE DEF r
  <2>2. cpu[c].said = 0 => cpu[c].said + 1 = 1
    OBVIOUS
  <2> QED BY <1>2, <2>1, <2>2
<1> HIDE DEF r
<1>4. CPUsTyped' /\ OneReport' /\ \A e \in CPUs : IF e = c THEN cpu'[e] = r ELSE cpu'[e] = cpu[e]
  <2>1. DOMAIN unread' = CPUs
    BY <1>0 DEF Crossing, Typed, CPUsTyped
  <2>2. Becomes(c, r) /\ Reported(r)
    BY <1>0, <1>1, <1>2, <1>3, <2>1 DEF Becomes, Reported
  <2> QED BY <1>0, <2>2, CPUMoves
<1>5. /\ PlaceTyped' /\ \A e \in DTBs : e # D(c) => place'[e] = place[e]
      /\ place[D(c)] = "exec" => place'[D(c)] = "ready" /\ fallen' = fallen
  BY <1>0, <1>1 DEF Moves, Crossing, Typed, PlaceTyped
<1>6. TableTyped' /\ \A e \in DTBs : table'[e] = IF e = D(c) THEN cpu[c].open ELSE table[e]
  BY <1>0, <1>1 DEF TakesTable, Crossing, Typed, TableTyped, IsCPU
<1>7. Typed'
  BY <1>0, <1>4, <1>5, <1>6 DEF Crossing, Typed, JobsTyped, WireTyped, MemTyped, NamesItsFile
<1>10. \A d \in DTBs, e \in CPUs : (ToldBy(e, d)' <=> ToldBy(e, d)) /\ (ToldBy(e, d) => e # c)
  <2>1. unread[c] = "none"
    BY <1>0 DEF Crossing, Typed, CPUsTyped
  <2> QED BY <1>0, <1>4, <2>1 DEF ToldBy
<1>8. ASSUME NEW e \in DTBs, e # D(c) PROVE Untouched(e)
  BY <1>0, <1>2, <1>4, <1>5, <1>6, <1>8, <1>10 DEF Untouched, RunsIt, HandsIt, D
<1>9. ASSUME NEW d \in DTBs \ Exempt, d = D(c) PROVE Good(d)' /\ place[d] = "exec"
  <2>1. Good(d) /\ RunsIt(c, d)
    BY <1>0, <1>9 DEF Crossing, RunsIt, D
  <2>2. Where(d) = "exec" /\ ~Served(d) /\ Pieces(d) = {} /\ DOMAIN mem[d] = cpu[c].open \cup {Script}
    BY <2>1 DEF Good, OneCPU, OneTable
  <2>3. d \notin closing
    BY <2>1, <2>2 DEF Good, OneRelease, Refused
  <2>10. \A e \in CPUs : ~ToldBy(e, d) /\ ~ToldBy(e, d)'
    BY <1>10, <2>1, <2>2, InExec DEF Good
  <2>4. /\ place[d] = "exec" /\ Where(d)' = "ready"
        /\ Table(d)' = cpu[c].open /\ OneNotice(d)'
    BY <1>5, <1>6, <1>9, <2>2, <2>10, NotTold, NotToldThen
  <2>5. \A e \in CPUs : ~RunsIt(e, d)' /\ ~HandsIt(e, d)'
    <3>1. \A e \in CPUs : e # c => ~RunsIt(e, d) /\ ~HandsIt(e, d)
      BY <2>1 DEF Good, OneCPU, Has
    <3> QED BY <1>2, <1>4, <3>1 DEF RunsIt, HandsIt
  <2>6. /\ ~Served(d)' /\ Pieces(d)' = {} /\ d \notin closing'
        /\ DOMAIN mem'[d] = Table(d)' \cup {Script}
    BY <1>0, <2>2, <2>3, <2>4 DEF Served, Pieces
  <2>7. OneCPU(d)' /\ OneAnswer(d)' /\ OneRelease(d)'
    BY <2>4, <2>5, <2>6 DEF OneCPU, Has, OneAnswer, OneRelease, Refused
  <2>8. OneJob(d)'
    BY <2>6, Unserved DEF OneJob, Served
  <2>9. OneTable(d)'
    BY <2>4, <2>5, <2>6 DEF OneTable
  <2> QED BY <2>4, <2>7, <2>8, <2>9 DEF Good
<1>11. fallen' => fallen \/ Exempt' # {}
  BY <1>0, <1>1, <1>5, <1>9
<1> QED BY <1>0, <1>4, <1>7, <1>8, <1>9, <1>11, Together

\* Before an operation the BLOCKDTB is sent, and the CPU alone knows of the operation.
LEMMA BlocksKeeps ==
  ASSUME Crossing, NEW c \in CPUs, Blocks(c) PROVE Crossing'
<1> DEFINE r == [cpu[c] EXCEPT !.at = Then(@), !.said = @ + 1]
<1>0. /\ cpu[c].at = "tellsSAFA" /\ unread' = [unread EXCEPT ![c] = "BLOCKDTB"]
      /\ cpu' = [cpu EXCEPT ![c] = r] /\ UNCHANGED <<place, table, fallen, job, wire, mem, closing, history>>
  BY DEF Blocks, dam, memory
<1>1. IsCPU(cpu[c]) /\ D(c) \in DTBs
  BY <1>0 DEF Crossing, Typed, CPUsTyped, IsCPU, D
<1>2. IsCPU(r) /\ r.dtb = D(c) /\ r.said = cpu[c].said + 1 /\ r.at = "tellsDAM" /\ r.open = cpu[c].open
  BY <1>0, <1>1 DEF IsCPU, Then, D
<1>3. r.dtb \notin Exempt => r.said = 1
  <2>1. r.dtb \notin Exempt => cpu[c].said = 0
    BY <1>0, <1>2 DEF Crossing, OneReport, D
  <2> HIDE DEF r
  <2>2. cpu[c].said = 0 => cpu[c].said + 1 = 1
    OBVIOUS
  <2> QED BY <1>2, <2>1, <2>2
<1> HIDE DEF r
<1>4. /\ DOMAIN unread = CPUs /\ unread[c] = "none" /\ DOMAIN unread' = CPUs
      /\ unread'[c] = "BLOCKDTB" /\ \A e \in CPUs : e # c => unread'[e] = unread[e]
  BY <1>0 DEF Crossing, Typed, CPUsTyped
<1>5. CPUsTyped' /\ OneReport' /\ \A e \in CPUs : IF e = c THEN cpu'[e] = r ELSE cpu'[e] = cpu[e]
  <2>1. Becomes(c, r) /\ Reported(r)
    BY <1>0, <1>1, <1>2, <1>3, <1>4 DEF Becomes, Reported
  <2> QED BY <1>0, <2>1, CPUMoves
<1>6. Typed'
  BY <1>0, <1>5 DEF Crossing, Typed, PlaceTyped, TableTyped, JobsTyped, WireTyped, MemTyped, NamesItsFile
<1>7. \A d \in DTBs, e \in CPUs : ToldBy(e, d)' <=> ToldBy(e, d) \/ (e = c /\ d = D(c))
  BY <1>2, <1>4, <1>5 DEF ToldBy
<1>8. \A d \in DTBs, e \in CPUs : ToldBy(e, d) => e # c
  BY <1>4 DEF ToldBy
<1>9. ASSUME NEW d \in DTBs, d # D(c) PROVE Untouched(d)
  BY <1>0, <1>2, <1>5, <1>7, <1>8, <1>9 DEF Untouched, RunsIt, HandsIt, D
<1>10. ASSUME NEW d \in DTBs \ Exempt, d = D(c) PROVE Good(d)'
  <2>1. Good(d) /\ RunsIt(c, d)
    BY <1>0, <1>10 DEF Crossing, RunsIt, D
  <2>2. Where(d) = "exec" /\ ~Served(d) /\ Pieces(d) = {} /\ DOMAIN mem[d] = cpu[c].open \cup {Script}
    BY <2>1 DEF Good, OneCPU, OneTable
  <2>3. d \notin closing
    BY <2>1, <2>2 DEF Good, OneRelease, Refused
  <2>4. \A e \in CPUs : ~ToldBy(e, d)
    BY <2>1, <2>2, InExec DEF Good
  <2>5. place'[d] = "exec" /\ cpu'[c].open = cpu[c].open /\ cpu[c].open \subseteq Paths
    BY <1>0, <1>1, <1>2, <1>5, <2>2, <2>4, NotTold DEF IsCPU
  <2>6. Where(d)' = "blocked" /\ Table(d)' = cpu[c].open /\ OneNotice(d)'
    <3>1. \A e \in CPUs : ToldBy(e, d)' <=> e = c
      BY <1>7, <1>10, <2>4
    <3> QED BY <2>5, <3>1, ToldThen
  <2>7. \A e \in CPUs : ~RunsIt(e, d)' /\ (HandsIt(e, d)' <=> e = c)
    <3>1. \A e \in CPUs : e # c => ~RunsIt(e, d) /\ ~HandsIt(e, d)
      BY <2>1 DEF Good, OneCPU, Has
    <3> QED BY <1>2, <1>5, <1>10, <3>1 DEF RunsIt, HandsIt
  <2>8. /\ ~Served(d)' /\ Pieces(d)' = {} /\ d \notin closing'
        /\ DOMAIN mem'[d] = Table(d)' \cup {Script}
    BY <1>0, <2>2, <2>3, <2>6 DEF Served, Pieces
  <2>9. OneCPU(d)' /\ OneAnswer(d)' /\ OneRelease(d)'
    BY <2>6, <2>7, <2>8 DEF OneCPU, Has, OneAnswer, OneRelease, Refused
  <2>10. OneJob(d)'
    BY <2>8, Unserved DEF OneJob, Served
  <2>11. OneTable(d)'
    BY <2>6, <2>7, <2>8 DEF OneTable
  <2> QED BY <2>6, <2>9, <2>10, <2>11 DEF Good
<1> QED BY <1>0, <1>5, <1>6, <1>9, <1>10, Together

\* SAFA finds in EXEC the DTB of the BLOCKDTB, and has it where it was said to be; BLOCKDUMMY
\* frees the CPU.
LEMMA Comms_CPUKeeps ==
  ASSUME Crossing, NEW c \in CPUs, Comms_CPU(c) PROVE Crossing'
<1>1. /\ unread' = [unread EXCEPT ![c] = "none"] /\ UNCHANGED <<cpu, job, wire, mem, closing, history>>
      /\ unread[c] \in {"BLOCKDTB", "BLOCKDUMMY"}
  BY DEF Comms_CPU, HandlesBlockDTB, HandlesBlockDummy, Handles, cpus, dam, memory
<1>2. /\ DOMAIN unread' = CPUs /\ unread'[c] = "none"
      /\ \A e \in CPUs : e # c => unread'[e] = unread[e]
  BY <1>1 DEF Crossing, Typed, CPUsTyped
<1>3. CPUsTyped'
  BY <1>1, <1>2 DEF Crossing, Typed, CPUsTyped
<1>4. OneReport'
  BY <1>1 DEF Crossing, OneReport
<1>5. \A d \in DTBs, e \in CPUs : ToldBy(e, d)' <=> ToldBy(e, d) /\ e # c
  BY <1>1, <1>2 DEF ToldBy
<1>6. CASE HandlesBlockDummy(c)
  <2>1. UNCHANGED <<place, table, fallen>> /\ unread[c] = "BLOCKDUMMY"
    BY <1>6 DEF HandlesBlockDummy, Handles
  <2>2. Typed'
    BY <1>1, <1>3, <2>1 DEF Crossing, Typed, PlaceTyped, TableTyped, JobsTyped, WireTyped, MemTyped, NamesItsFile
  <2>3. \A d \in DTBs, e \in CPUs : ToldBy(e, d)' <=> ToldBy(e, d)
    BY <1>5, <2>1 DEF ToldBy
  <2>4. \A d \in DTBs : Untouched(d)
    BY <1>1, <2>1, <2>3 DEF Untouched, RunsIt, HandsIt
  <2> QED BY <1>1, <1>4, <2>1, <2>2, <2>4, Together
<1>7. CASE HandlesBlockDTB(c)
  <2>1. /\ unread[c] = "BLOCKDTB" /\ Moves(D(c), {"exec"}, "blocked") /\ TakesTable(c)
        /\ D(c) \in DTBs
    BY <1>7 DEF HandlesBlockDTB, Handles, Crossing, Typed, CPUsTyped, D
  <2>2. /\ PlaceTyped' /\ \A e \in DTBs : e # D(c) => place'[e] = place[e]
        /\ place[D(c)] = "exec" => place'[D(c)] = "blocked" /\ fallen' = fallen
    BY <2>1 DEF Moves, Crossing, Typed, PlaceTyped
  <2>3. IsCPU(cpu[c]) /\ cpu[c].open \subseteq Paths
    BY DEF Crossing, Typed, CPUsTyped, IsCPU
  <2>4. TableTyped' /\ \A e \in DTBs : table'[e] = IF e = D(c) THEN cpu[c].open ELSE table[e]
    BY <2>1, <2>3 DEF TakesTable, Crossing, Typed, TableTyped
  <2>5. Typed'
    BY <1>1, <1>3, <2>2, <2>4 DEF Crossing, Typed, JobsTyped, WireTyped, MemTyped, NamesItsFile
  <2>6. ASSUME NEW d \in DTBs, d # D(c) PROVE Untouched(d)
    <3>1. \A e \in CPUs : ToldBy(e, d)' <=> ToldBy(e, d)
      BY <1>5, <2>6 DEF ToldBy, D
    <3> QED BY <1>1, <2>2, <2>4, <2>6, <3>1 DEF Untouched, RunsIt, HandsIt
  <2>7. ASSUME NEW d \in DTBs \ Exempt, d = D(c) PROVE Good(d)' /\ place[d] = "exec"
    <3>1. Good(d) /\ ToldBy(c, d) /\ Told(d)
      BY <2>1, <2>7 DEF Crossing, ToldBy, Told, D
    <3>2. \A e \in CPUs : ToldBy(e, d) <=> e = c
      BY <3>1 DEF Good, OneNotice
    <3>3. \A e \in CPUs : ~ToldBy(e, d)'
      BY <1>5, <3>2
    <3>4. place[d] = "exec" /\ Where(d) = "blocked"
      BY <3>1 DEF Good, OneNotice, Where
    <3>5. Table(d) = cpu[c].open
      <4>1. \A p \in Paths : (\E e \in CPUs : ToldBy(e, d) /\ p \in cpu[e].open) <=> p \in cpu[c].open
        BY <3>2
      <4> QED BY <2>3, <3>1, <4>1 DEF Table
    <3>6. Where(d)' = "blocked" /\ Table(d)' = cpu[c].open /\ OneNotice(d)'
      BY <2>2, <2>4, <2>7, <3>3, <3>4, NotToldThen
    <3>7. PICK w, s : w = Where(d) /\ w = Where(d)' /\ s = Table(d) /\ s = Table(d)' /\ w = "blocked"
      BY <3>4, <3>5, <3>6
    <3>8. /\ Served(d)' <=> Served(d)
          /\ HeaderSent(d)' <=> HeaderSent(d)
          /\ Succeeds(d)' <=> Succeeds(d)
          /\ P(d)' = P(d) /\ Pieces(d)' = Pieces(d) /\ (Refused(d)' <=> Refused(d))
      BY <1>1 DEF Served, HeaderSent, Succeeds, P, Pieces, Refused
    <3>9. \A e \in CPUs : (RunsIt(e, d)' <=> RunsIt(e, d)) /\ (HandsIt(e, d)' <=> HandsIt(e, d))
      BY <1>1 DEF RunsIt, HandsIt
    <3>10. OneCPU(d)'
      BY <3>1, <3>7, <3>8, <3>9 DEF Good, OneCPU, Has
    <3>11. OneJob(d)'
      BY <1>1, <3>1, <3>7, <3>8 DEF Good, OneJob, AnswersTo
    <3>12. OneAnswer(d)'
      BY <1>1, <3>1, <3>7, <3>8 DEF Good, OneAnswer, AnswersTo
    <3>13. OneTable(d)'
      <4>1. Loaded(job'[d].op, P(d)', Succeeds(d)') = Loaded(job[d].op, P(d), Succeeds(d))
        BY <1>1, <3>8 DEF Loaded
      <4> QED BY <1>1, <3>1, <3>7, <3>8, <3>9, <4>1 DEF Good, OneTable
    <3>14. OneRelease(d)'
      BY <1>1, <3>1, <3>7, <3>8 DEF Good, OneRelease
    <3> QED BY <3>4, <3>6, <3>10, <3>11, <3>12, <3>13, <3>14 DEF Good
  <2>8. fallen' => fallen \/ Exempt' # {}
    <3>1. CASE D(c) \notin Exempt
      BY <2>1, <2>2, <2>7, <3>1
    <3>2. CASE D(c) \in Exempt
      BY <1>1, <3>2
    <3> QED BY <3>1, <3>2
  <2> QED BY <1>1, <1>4, <2>5, <2>6, <2>7, <2>8, Together
<1> QED BY <1>6, <1>7 DEF Comms_CPU

\* The operation passes from the CPU to DAM.
LEMMA RequestsKeeps ==
  ASSUME Crossing, NEW c \in CPUs, Requests(c) PROVE Crossing'
<1> DEFINE r == [cpu[c] EXCEPT !.at = Then(@), !.asks = Nothing]
           j == cpu[c].asks
<1>1. /\ cpu[c].at = "tellsDAM" /\ cpu' = [cpu EXCEPT ![c] = r] /\ job' = [job EXCEPT ![D(c)] = cpu[c].asks]
      /\ UNCHANGED <<place, table, unread, fallen, wire, mem, closing, history>>
  BY DEF Requests, safa, memory
<1>2. IsCPU(cpu[c]) /\ D(c) \in DTBs /\ IsOrder(cpu[c].asks)
  BY <1>1 DEF Crossing, Typed, CPUsTyped, IsCPU, D
<1>3. IsCPU(r) /\ r.at = "idle" /\ r.dtb = D(c) /\ r.said = cpu[c].said
  BY <1>1, <1>2 DEF IsCPU, Then, D
<1>10. r.open = cpu[c].open
  BY <1>2 DEF IsCPU
<1> HIDE DEF r
<1>4. r.dtb \notin Exempt => r.said = 1
  BY <1>1, <1>3 DEF Crossing, OneReport, D
<1>5. CPUsTyped' /\ OneReport' /\ \A e \in CPUs : IF e = c THEN cpu'[e] = r ELSE cpu'[e] = cpu[e]
  <2>1. DOMAIN unread' = CPUs
    BY <1>1 DEF Crossing, Typed, CPUsTyped
  <2>2. Becomes(c, r) /\ Reported(r)
    BY <1>1, <1>2, <1>3, <1>4, <2>1 DEF Becomes, Reported
  <2> QED BY <1>1, <2>2, CPUMoves
<1>11. \A d \in DTBs, e \in CPUs : (ToldBy(e, d)' <=> ToldBy(e, d)) /\ cpu'[e].open = cpu[e].open
  BY <1>1, <1>3, <1>5, <1>10 DEF ToldBy, D
<1>6. JobsTyped' /\ \A e \in DTBs : job'[e] = IF e = D(c) THEN cpu[c].asks ELSE job[e]
  BY <1>1, <1>2 DEF Crossing, Typed, JobsTyped, IsOrder
<1>7. Typed'
  BY <1>1, <1>5, <1>6 DEF Crossing, Typed, PlaceTyped, TableTyped, WireTyped, MemTyped, NamesItsFile
<1>8. ASSUME NEW e \in DTBs, e # D(c) PROVE Untouched(e)
  BY <1>1, <1>3, <1>5, <1>6, <1>8, <1>11 DEF Untouched, RunsIt, HandsIt, D
<1>9. ASSUME NEW d \in DTBs \ Exempt, d = D(c) PROVE Good(d)'
  <2>1. Good(d) /\ HandsIt(c, d)
    BY <1>1, <1>9 DEF Crossing, HandsIt, D
  <2>11. Where(d)' = Where(d) /\ Table(d)' = Table(d) /\ OneNotice(d)'
    BY <1>1, <1>11, <2>1, WhereStays DEF Good
  <2>2. Where(d) = "blocked" /\ ~Served(d) /\ Pieces(d) = {} /\ DOMAIN mem[d] = Table(d) \cup {Script}
    BY <2>1 DEF Good, OneCPU, OneTable
  <2>3. d \notin closing
    BY <2>1, <2>2 DEF Good, OneRelease, Refused
  <2>4. \A e \in CPUs : ~RunsIt(e, d)' /\ ~HandsIt(e, d)'
    <3>1. \A e \in CPUs : e # c => ~RunsIt(e, d) /\ ~HandsIt(e, d)
      BY <2>1 DEF Good, OneCPU, Has
    <3> QED BY <1>3, <1>5, <3>1 DEF RunsIt, HandsIt
  <2>5. /\ job'[d] = cpu[c].asks /\ job'[d] # Nothing /\ job'[d].at = "queued" /\ job'[d].op # "dummy"
    BY <1>2, <1>6, <1>9 DEF IsOrder, Nothing
  <2>6. /\ Served(d)' /\ Pieces(d)' = {} /\ Where(d)' = "blocked" /\ d \notin closing'
        /\ AnswersTo(job[d])' = "blocked"
    BY <1>1, <2>2, <2>3, <2>5, <2>11 DEF Served, Pieces, AnswersTo
  <2>7. ~HeaderSent(d)' /\ ~Succeeds(d)'
    BY <2>5 DEF HeaderSent, Succeeds
  <2>8. OneCPU(d)' /\ OneAnswer(d)' /\ OneRelease(d)'
    BY <2>4, <2>6 DEF OneCPU, Has, OneAnswer, OneRelease, Refused
  <2>9. OneJob(d)'
    BY <2>5, <2>6, <2>7 DEF OneJob, AnswersTo
  <2>10. OneTable(d)'
    <3>1. Loaded(job'[d].op, P(d)', Succeeds(d)') = {Script}
      BY <2>5, <2>7 DEF Loaded
    <3>2. DOMAIN mem'[d] = Table(d)' \cup {Script}
      BY <1>1, <2>2, <2>11
    <3> QED BY <2>4, <2>6, <3>1, <3>2 DEF OneTable
  <2> QED BY <2>8, <2>9, <2>10, <2>11 DEF Good
<1> QED BY <1>1, <1>5, <1>7, <1>8, <1>9, Together

\* A piece is added at the end of the wire.
LEMMA Appended ==
  ASSUME WireTyped, NEW w \in Piece, NamesItsFile(w[2]), wire' = Append(wire, w)
  PROVE  /\ WireTyped'
         /\ \A d : d # w[2].dtb => Nearer(d, 0)
         /\ \A i \in Pieces(w[2].dtb) : i \in Pieces(w[2].dtb)' /\ wire'[i] = wire[i]
         /\ \A i \in Pieces(w[2].dtb)' : i \in Pieces(w[2].dtb) \/ i = Len(wire) + 1
         /\ Len(wire) + 1 \in Pieces(w[2].dtb)' /\ wire'[Len(wire) + 1] = w
<1>1. wire \in Seq(Piece) /\ Len(wire) \in Nat /\ DOMAIN wire = 1..Len(wire)
  BY DEF WireTyped
<1>2. /\ wire' \in Seq(Piece) /\ DOMAIN wire' = 1..(Len(wire) + 1)
      /\ wire'[Len(wire) + 1] = w /\ \A i \in 1..Len(wire) : wire'[i] = wire[i]
  BY <1>1
<1>3. \A i \in DOMAIN wire' : i \in DOMAIN wire \/ i = Len(wire) + 1
  BY <1>1, <1>2
<1>4. WireTyped'
  BY <1>1, <1>2, <1>3 DEF WireTyped, NamesItsFile
<1>5. \A d : \A i \in Pieces(d) : i \in Pieces(d)' /\ wire'[i] = wire[i]
  BY <1>1, <1>2 DEF Pieces
<1>6. \A d : \A i \in Pieces(d)' : i \in Pieces(d) \/ (i = Len(wire) + 1 /\ w[2].dtb = d)
  BY <1>1, <1>2, <1>3 DEF Pieces
<1>7. Len(wire) + 1 \in Pieces(w[2].dtb)'
  BY <1>1, <1>2 DEF Pieces
<1>8. ASSUME NEW d, d # w[2].dtb PROVE Nearer(d, 0)
  <2>1. \A i \in Pieces(d) : i + 0 = i /\ i - 0 = i
    BY <1>1 DEF Pieces
  <2>2. \A i \in Pieces(d)' : i \in Pieces(d)
    BY <1>6, <1>8
  <2> QED BY <1>5, <2>1, <2>2 DEF Nearer
<1> QED BY <1>2, <1>4, <1>5, <1>6, <1>7, <1>8

\* Two pieces, of the same DTB, are taken from its beginning.
LEMMA Received ==
  ASSUME WireTyped, IsWhole(wire), wire' = SubSeq(wire, 3, Len(wire))
  PROVE  /\ WireTyped'
         /\ 1 \in Pieces(wire[1][2].dtb) /\ 2 \in Pieces(wire[1][2].dtb)
         /\ wire[1] = <<"header", wire[1][2]>> /\ wire[2] = <<"body", wire[1][2]>>
         /\ \A d : d # wire[1][2].dtb => Nearer(d, 2)
         /\ \A d : \A i \in Pieces(d)' : i \in Nat \ {0} /\ i + 2 \in Pieces(d) /\ wire'[i] = wire[i + 2]
<1>1. wire \in Seq(Piece) /\ Len(wire) \in Nat /\ DOMAIN wire = 1..Len(wire) /\ Len(wire) >= 2
  BY DEF WireTyped, IsWhole
<1>2. /\ wire' \in Seq(Piece) /\ DOMAIN wire' = 1..(Len(wire) - 2)
      /\ \A i \in 1..(Len(wire) - 2) : wire'[i] = wire[i + 2]
  BY <1>1
<1>3. wire[1] \in Piece /\ wire[1][1] = "header" /\ wire[2] = <<"body", wire[1][2]>> /\ wire[2][2] = wire[1][2]
  BY <1>1 DEF IsWhole
<1>4. wire[1] = <<"header", wire[1][2]>>
  BY <1>3 DEF Piece
<1>5. WireTyped'
  BY <1>1, <1>2 DEF WireTyped, NamesItsFile
<1>6. 1 \in Pieces(wire[1][2].dtb) /\ 2 \in Pieces(wire[1][2].dtb)
  BY <1>1, <1>3 DEF Pieces
<1>7. \A d : \A i \in Pieces(d)' : i \in Nat \ {0} /\ i + 2 \in Pieces(d) /\ wire'[i] = wire[i + 2]
  BY <1>1, <1>2 DEF Pieces
<1>8. ASSUME NEW d, d # wire[1][2].dtb PROVE Nearer(d, 2)
  <2>1. ASSUME NEW i \in Pieces(d) PROVE i - 2 \in Pieces(d)' /\ wire'[i - 2] = wire[i]
    <3>1. i \in 1..Len(wire) /\ i # 1 /\ i # 2 /\ wire[i][2].dtb = d
      BY <1>1, <1>3, <1>8, <2>1 DEF Pieces
    <3>2. i - 2 \in 1..(Len(wire) - 2) /\ (i - 2) + 2 = i
      BY <1>1, <3>1
    <3> QED BY <1>2, <3>1, <3>2 DEF Pieces
  <2> QED BY <1>7, <2>1 DEF Nearer
<1> QED BY <1>4, <1>3, <1>5, <1>6, <1>7, <1>8

\* A step that adds or takes messages of one DTB.
LEMMA TogetherOnTheWire ==
  ASSUME Crossing, NEW a, NEW k \in Nat, Typed', OneReport', Exempt \subseteq Exempt',
         fallen' => fallen \/ Exempt' # {},
         \A d \in DTBs \ Exempt' : d # a => Untouched(d) /\ Nearer(d, k),
         a \in DTBs \ Exempt' => Good(a)'
  PROVE  Crossing'
<1>1. WireTyped'
  BY DEF Typed
<1>3. FallsAreProvoked'
  BY DEF Crossing, FallsAreProvoked
<1>2. ASSUME NEW d \in DTBs \ Exempt' PROVE Good(d)'
  <2>1. CASE d = a
    BY <2>1
  <2>2. CASE d # a
    BY <1>1, <2>2, UntouchedStays DEF Crossing
  <2> QED BY <2>1, <2>2
<1> QED BY <1>2, <1>3 DEF Crossing

\* What DAM says of a request.
LEMMA MessageKnown ==
  ASSUME NEW d \in DTBs, IsJob(job[d]), NEW k \in {"header", "body"}
  PROVE  /\ <<k, Message(d)>> \in Piece /\ NamesItsFile(Message(d))
         /\ Message(d).dtb = d /\ Message(d).op = job[d].op /\ Message(d).path = job[d].path
         /\ Message(d).ok = Succeeds(d) /\ AnswersTo(Message(d)) = AnswersTo(job[d])
         /\ <<k, Message(d)>>[1] = k /\ <<k, Message(d)>>[2] = Message(d)
<1>1. Message(d) \in Reply
  BY DEF Message, Reply, IsJob, NamesItsFile, P, Succeeds
<1>2. /\ Message(d).dtb = d /\ Message(d).op = job[d].op /\ Message(d).path = job[d].path
      /\ Message(d).ok = Succeeds(d)
  BY DEF Message, P
<1>3. NamesItsFile(Message(d)) /\ AnswersTo(Message(d)) = AnswersTo(job[d])
  BY <1>2 DEF NamesItsFile, AnswersTo, IsJob
<1> QED BY <1>1, <1>2, <1>3 DEF Piece

\* The header goes out; the request keeps its answer for the body.
LEMMA SendsHeaderKeeps ==
  ASSUME Crossing, NEW d \in DTBs, SendsHeader(d) PROVE Crossing'
<1> DEFINE at == IF Succeeds(d) THEN "doneHeader" ELSE "errorHeader"
           j == [job[d] EXCEPT !.at = at]
           w == <<"header", Message(d)>>
           n == Len(wire) + 1
<1>1. /\ job[d].at \in {"done", "error"} /\ job' = [job EXCEPT ![d] = j] /\ wire' = Append(wire, w)
      /\ UNCHANGED <<place, table, unread, fallen, cpu, mem, closing, history>>
  BY DEF SendsHeader, Serving, Goes, safa, cpus, memory
<1>2. Served(d) /\ IsJob(job[d])
  <2>1. Served(d)
    BY <1>1, AtNothing DEF Served
  <2> QED BY <2>1, JobKnown
<1>3. /\ j.at = at /\ j.op = job[d].op /\ j.path = job[d].path /\ IsJob(j)
      /\ at \in {"doneHeader", "errorHeader"}
      /\ Succeeds(d) <=> at = "doneHeader"
  BY <1>2 DEF IsJob, NamesItsFile, JobPlaces, Ops, Answered
<1> HIDE DEF j, at
<1>4. j # Nothing
  BY <1>3, AtNothing
<1>5. JobsTyped' /\ \A e \in DTBs : job'[e] = IF e = d THEN j ELSE job[e]
  BY <1>1, <1>3 DEF Crossing, Typed, JobsTyped
<1>6. WireTyped
  BY DEF Crossing, Typed
<1>7. w \in Piece /\ NamesItsFile(w[2]) /\ w[2].dtb = d /\ w[1] = "header" /\ w[2] = Message(d)
  BY <1>2, MessageKnown
<1> HIDE DEF w, n
<1>8. /\ WireTyped' /\ \A e : e # d => Nearer(e, 0)
      /\ \A i \in Pieces(d)' : i \in Pieces(d) \/ i = n
      /\ wire'[n] = w
  BY <1>1, <1>6, <1>7, Appended DEF n
<1>9. Typed' /\ OneReport'
  BY <1>1, <1>5, <1>8 DEF Crossing, Typed, PlaceTyped, TableTyped, CPUsTyped, MemTyped, OneReport
<1>10. ASSUME NEW e \in DTBs, e # d PROVE Untouched(e) /\ Nearer(e, 0)
  BY <1>1, <1>5, <1>8, <1>10 DEF Untouched, RunsIt, HandsIt, ToldBy
<1>11. ASSUME d \notin Exempt PROVE Good(d)'
  <2>1. Good(d)
    BY <1>11 DEF Crossing
  <2>13. Where(d)' = Where(d) /\ Table(d)' = Table(d) /\ OneNotice(d)'
    BY <1>1, <2>1, WhereStays DEF Good, ToldBy
  <2>14. PICK x, s : x = Where(d) /\ x = Where(d)' /\ s = Table(d) /\ s = Table(d)'
    BY <2>13
  <2>2. ~HeaderSent(d) /\ job[d].at # "release"
    BY <1>1 DEF HeaderSent
  <2>3. Pieces(d) = {} /\ x = AnswersTo(job[d]) /\ x \in {"loading", "blocked"}
    BY <1>2, <2>1, <2>2, <2>14 DEF Good, OneJob, AnswersTo
  <2>4. \A i \in Pieces(d)' : i = n /\ wire'[i] = w
    BY <1>8, <2>3
  <2>5. \A e \in CPUs : ~RunsIt(e, d)' /\ ~HandsIt(e, d)'
    <3>1. \A e \in CPUs : ~RunsIt(e, d) /\ ~HandsIt(e, d)
      BY <1>2, <2>1, <2>3, <2>14 DEF Good, OneCPU
    <3> QED BY <1>1, <3>1 DEF RunsIt, HandsIt
  <2>6. /\ Served(d)' /\ HeaderSent(d)' /\ Where(d)' = AnswersTo(job[d]) /\ ~Refused(d)'
        /\ job'[d] = j /\ AnswersTo(j) = AnswersTo(job[d]) /\ AnswersTo(w[2]) = AnswersTo(job[d])
    <3>1. job'[d] = j /\ Served(d)' /\ HeaderSent(d)'
      BY <1>3, <1>4, <1>5 DEF Served, HeaderSent
    <3>2. ~Refused(d)'
      BY <1>7, <2>4 DEF Refused
    <3>3. AnswersTo(j) = AnswersTo(job[d]) /\ AnswersTo(w[2]) = AnswersTo(job[d])
      <4>1. AnswersTo(j) = AnswersTo(job[d])
        BY <1>3 DEF AnswersTo
      <4>2. AnswersTo(Message(d)) = AnswersTo(job[d])
        BY <1>2, MessageKnown
      <4> QED BY <1>7, <4>1, <4>2
    <3> QED BY <2>3, <2>14, <3>1, <3>2, <3>3
  <2>7. P(d)' = P(d) /\ (Succeeds(d)' <=> Succeeds(d))
    BY <1>3, <2>6 DEF P, Succeeds
  <2>8. OneCPU(d)'
    BY <2>3, <2>5, <2>14 DEF OneCPU, Has
  <2>9. OneJob(d)'
    BY <1>3, <1>7, <2>4, <2>6 DEF OneJob, AnswersTo
  <2>10. OneAnswer(d)'
    BY <1>7, <2>4, <2>6 DEF OneAnswer, AnswersTo
  <2>11. OneTable(d)'
    <3>1. Loaded(job'[d].op, P(d)', Succeeds(d)') = Loaded(job[d].op, P(d), Succeeds(d))
      BY <1>3, <2>6, <2>7 DEF Loaded
    <3>2. at = "doneHeader" => job[d].at = "done"
      BY <1>1, <1>3 DEF Succeeds
    <3>3. job'[d].at \notin {"release", "error", "errorHeader"} =>
            DOMAIN mem'[d] = Table(d)' \cup Loaded(job'[d].op, P(d)', Succeeds(d)')
      BY <1>1, <1>2, <1>3, <2>1, <2>6, <2>14, <3>1, <3>2 DEF Good, OneTable
    <3> QED BY <1>7, <2>3, <2>4, <2>5, <2>14, <3>3 DEF OneTable
  <2>12. OneRelease(d)'
    <3>1. ~Refused(d)
      BY <2>3 DEF Refused
    <3>2. d \notin closing /\ Where(d)' # "ended"
      BY <2>1, <2>3, <2>14, <3>1 DEF Good, OneRelease
    <3> QED BY <1>1, <2>6, <3>2 DEF OneRelease
  <2> QED BY <2>8, <2>9, <2>10, <2>11, <2>12, <2>13 DEF Good
<1> QED BY <1>1, <1>9, <1>10, <1>11, TogetherOnTheWire

\* The body goes out: the request is over, or its memory has still to be released.
LEMMA SendsBodyKeeps ==
  ASSUME Crossing, NEW d \in DTBs, SendsBody(d) PROVE Crossing'
<1> DEFINE j == IF Succeeds(d) THEN Nothing ELSE [job[d] EXCEPT !.at = "release"]
           w == <<"body", Message(d)>>
           n == Len(wire) + 1
<1>1. /\ HeaderSent(d) /\ job' = [job EXCEPT ![d] = j] /\ wire' = Append(wire, w)
      /\ UNCHANGED <<place, table, unread, fallen, cpu, mem, closing, history>>
  BY DEF SendsBody, Goes, safa, cpus, memory
<1>2. Served(d) /\ IsJob(job[d])
  <2>1. Served(d)
    BY <1>1, AtNothing DEF Served, HeaderSent
  <2> QED BY <2>1, JobKnown
<1>3. IF Succeeds(d) THEN j = Nothing ELSE j.at = "release" /\ IsJob(j)
  BY <1>2 DEF IsJob, NamesItsFile, JobPlaces, Ops, Answered
<1>4. Succeeds(d) => job[d].at = "doneHeader"
  BY <1>1 DEF Succeeds, HeaderSent
<1> HIDE DEF j
<1>5. JobsTyped' /\ \A e \in DTBs : job'[e] = IF e = d THEN j ELSE job[e]
  BY <1>1, <1>3 DEF Crossing, Typed, JobsTyped
<1>6. WireTyped
  BY DEF Crossing, Typed
<1>7. w \in Piece /\ NamesItsFile(w[2]) /\ w[2].dtb = d /\ w[1] = "body" /\ w[2] = Message(d)
  BY <1>2, MessageKnown
<1>8. w[2].op = job[d].op /\ w[2].path = P(d) /\ w[2].ok = Succeeds(d) /\ AnswersTo(w[2]) = AnswersTo(job[d])
  BY <1>2, <1>7, MessageKnown DEF P
<1> HIDE DEF w, n
<1>9. /\ WireTyped' /\ \A e : e # d => Nearer(e, 0)
      /\ \A i \in Pieces(d) : i \in Pieces(d)' /\ wire'[i] = wire[i]
      /\ \A i \in Pieces(d)' : i \in Pieces(d) \/ i = n
      /\ n \in Pieces(d)' /\ wire'[n] = w
  BY <1>1, <1>6, <1>7, Appended DEF n
<1>10. Typed' /\ OneReport'
  BY <1>1, <1>5, <1>9 DEF Crossing, Typed, PlaceTyped, TableTyped, CPUsTyped, MemTyped, OneReport
<1>11. ASSUME NEW e \in DTBs, e # d PROVE Untouched(e) /\ Nearer(e, 0)
  BY <1>1, <1>5, <1>9, <1>11 DEF Untouched, RunsIt, HandsIt, ToldBy
<1>12. ASSUME d \notin Exempt PROVE Good(d)'
  <2>1. Good(d)
    BY <1>12 DEF Crossing
  <2>15. Where(d)' = Where(d) /\ Table(d)' = Table(d) /\ OneNotice(d)'
    BY <1>1, <2>1, WhereStays DEF Good, ToldBy
  <2>16. PICK x, s : x = Where(d) /\ x = Where(d)' /\ s = Table(d) /\ s = Table(d)'
    BY <2>15
  <2>2. job[d].at # "release"
    BY <1>1 DEF HeaderSent
  <2>3. /\ x = AnswersTo(job[d]) /\ x \in {"loading", "blocked"}
        /\ \A i \in Pieces(d) : wire[i][1] = "header"
    BY <1>1, <1>2, <2>1, <2>2, <2>16 DEF Good, OneJob, AnswersTo
  <2>4. \A i \in Pieces(d)' : wire'[i][1] = "body" => i = n /\ wire'[i] = w
    BY <1>9, <2>3
  <2>5. \A e \in CPUs : ~RunsIt(e, d)' /\ ~HandsIt(e, d)'
    <3>1. \A e \in CPUs : ~RunsIt(e, d) /\ ~HandsIt(e, d)
      BY <1>2, <2>1, <2>3, <2>16 DEF Good, OneCPU
    <3> QED BY <1>1, <3>1 DEF RunsIt, HandsIt
  <2>6. ~HeaderSent(d)'
    <3>1. job'[d].at \in {"none", "release"}
      BY <1>3, <1>5, AtNothing
    <3> QED BY <3>1 DEF HeaderSent
  <2>7. IF Succeeds(d) THEN ~Served(d)' ELSE Served(d)' /\ job'[d].at = "release"
    <3>1. job'[d] = j
      BY <1>5
    <3>2. j.at = "release" => j # Nothing
      BY AtNothing
    <3> QED BY <1>3, <3>1, <3>2 DEF Served
  <2>8. Refused(d)' <=> ~Succeeds(d)
    BY <1>7, <1>8, <1>9, <2>4 DEF Refused
  <2>9. ~Refused(d) /\ d \notin closing
    <3>1. ~Refused(d)
      BY <2>3 DEF Refused
    <3> QED BY <2>1, <2>3, <2>16, <3>1 DEF Good, OneRelease
  <2>10. OneCPU(d)'
    BY <2>3, <2>5, <2>16 DEF OneCPU, Has
  <2>11. OneJob(d)'
    BY <2>6, <2>7, <2>8 DEF OneJob
  <2>12. OneAnswer(d)'
    <3> SUFFICES ASSUME NEW i \in Pieces(d)', NEW k \in Pieces(d)'
                 PROVE  /\ Where(d)' = AnswersTo(wire'[i][2])
                        /\ wire'[i][1] = wire'[k][1] => i = k
                        /\ wire'[i][1] = "body" =>
                             IF wire'[i][2].ok THEN ~Served(d)' ELSE Served(d)' => job'[d].at = "release"
      BY DEF OneAnswer, AnswersTo
    <3>1. Where(d)' = AnswersTo(wire'[i][2])
      <4>1. CASE i = n
        BY <1>8, <1>9, <2>3, <2>16, <4>1
      <4>2. CASE i \in Pieces(d)
        BY <1>9, <2>1, <2>16, <4>2 DEF Good, OneAnswer
      <4> QED BY <1>9, <4>1, <4>2
    <3>2. wire'[i][1] = wire'[k][1] => i = k
      <4>1. CASE i = n \/ k = n
        BY <1>7, <1>9, <2>3, <2>4, <4>1
      <4>2. CASE i \in Pieces(d) /\ k \in Pieces(d)
        BY <1>9, <2>1, <4>2 DEF Good, OneAnswer
      <4> QED BY <1>9, <4>1, <4>2
    <3>3. wire'[i][1] = "body" =>
            IF wire'[i][2].ok THEN ~Served(d)' ELSE Served(d)' => job'[d].at = "release"
      BY <1>8, <2>4, <2>7
    <3> QED BY <3>1, <3>2, <3>3
  <2>13. OneTable(d)'
    <3>1. Succeeds(d) => DOMAIN mem[d] = Table(d) \cup Loaded(job[d].op, P(d), TRUE)
      <4>1. Succeeds(d) => DOMAIN mem[d] = Table(d) \cup Loaded(job[d].op, P(d), Succeeds(d))
        BY <1>2, <1>4, <2>1 DEF Good, OneTable
      <4> QED BY <4>1 DEF Loaded
    <3>2. \A i \in Pieces(d)' : wire'[i][1] = "body" /\ wire'[i][2].ok =>
            DOMAIN mem'[d] = Table(d)' \cup Loaded(wire'[i][2].op, wire'[i][2].path, TRUE)
      BY <1>1, <1>8, <2>4, <2>15, <3>1
    <3>3. Served(d)' => job'[d].at = "release"
      BY <2>7
    <3>4. Where(d)' \notin {"new", "ready"}
      BY <2>3, <2>16
    <3> QED BY <2>5, <3>2, <3>3, <3>4 DEF OneTable
  <2>14. OneRelease(d)'
    BY <1>1, <2>3, <2>7, <2>8, <2>9, <2>16 DEF OneRelease
  <2> QED BY <2>10, <2>11, <2>12, <2>13, <2>14, <2>15 DEF Good
<1> QED BY <1>1, <1>10, <1>11, <1>12, TogetherOnTheWire

\* After an error DAM has FM9 release the memory.
LEMMA ErrorKeeps ==
  ASSUME Crossing, NEW d \in DTBs, DAM_ErrorOperacion(d) PROVE Crossing'
<1>1. /\ job[d].at = "release" /\ job' = [job EXCEPT ![d] = Nothing] /\ closing' = closing \cup {d}
      /\ UNCHANGED <<place, table, unread, fallen, cpu, wire, mem, history>>
  BY DEF DAM_ErrorOperacion, Serving, safa, cpus
<1>2. JobsTyped' /\ \A e \in DTBs : job'[e] = IF e = d THEN Nothing ELSE job[e]
  BY <1>1 DEF Crossing, Typed, JobsTyped
<1>3. Typed' /\ OneReport'
  BY <1>1, <1>2 DEF Crossing, Typed, PlaceTyped, TableTyped, CPUsTyped, WireTyped, MemTyped, NamesItsFile, OneReport
<1>4. ASSUME NEW e \in DTBs, e # d PROVE Untouched(e)
  BY <1>1, <1>2, <1>4 DEF Untouched, RunsIt, HandsIt, ToldBy
<1>5. ASSUME d \notin Exempt PROVE Good(d)'
  <2>1. Good(d)
    BY <1>5 DEF Crossing
  <2>12. Where(d)' = Where(d) /\ Table(d)' = Table(d) /\ OneNotice(d)'
    BY <1>1, <2>1, WhereStays DEF Good, ToldBy
  <2>13. PICK x, s : x = Where(d) /\ x = Where(d)' /\ s = Table(d) /\ s = Table(d)'
    BY <2>12
  <2>2. Served(d)
    BY <1>1, AtNothing DEF Served
  <2>3. ~Served(d)' /\ ~HeaderSent(d)' /\ Pieces(d)' = Pieces(d)
    BY <1>1, <1>2, Unserved DEF Served, Pieces
  <2>4. (Refused(d)' <=> Refused(d)) /\ (x = "ended" \/ Refused(d))
    BY <1>1, <2>1, <2>2, <2>3, <2>13 DEF Good, OneJob, Refused
  <2>5. \A e \in CPUs : (RunsIt(e, d)' <=> RunsIt(e, d)) /\ (HandsIt(e, d)' <=> HandsIt(e, d))
    BY <1>1 DEF RunsIt, HandsIt
  <2>6. x \notin {"new", "ready", "exec"} /\ \A e \in CPUs : ~HandsIt(e, d) /\ ~RunsIt(e, d)
    BY <2>1, <2>2, <2>13 DEF Good, OneCPU
  <2>7. OneCPU(d)'
    BY <2>5, <2>6, <2>13 DEF OneCPU, Has
  <2>8. OneJob(d)'
    BY <2>3 DEF OneJob
  <2>9. OneAnswer(d)'
    BY <1>1, <2>1, <2>3, <2>13 DEF Good, OneAnswer, AnswersTo
  <2>10. OneTable(d)'
    <3>1. \A i \in Pieces(d) : wire[i][1] = "body" /\ wire[i][2].ok => FALSE
      BY <2>1, <2>2 DEF Good, OneAnswer
    <3> QED BY <1>1, <2>3, <2>5, <2>6, <2>13, <3>1 DEF OneTable
  <2>11. OneRelease(d)'
    BY <1>1, <2>4, <2>13 DEF OneRelease
  <2> QED BY <2>7, <2>8, <2>9, <2>10, <2>11, <2>12 DEF Good
<1> QED BY <1>1, <1>3, <1>4, <1>5, Together

\* FM9 releases the memory of a DTB that is over.
LEMMA CloseDTBKeeps ==
  ASSUME Crossing, NEW d \in DTBs, FM9_CloseDTB(d) PROVE Crossing'
<1>1. /\ d \in closing /\ closing' = closing \ {d} /\ mem' = [mem EXCEPT ![d] = NoFiles]
      /\ UNCHANGED <<place, table, unread, fallen, cpu, job, wire, history>>
  BY DEF FM9_CloseDTB, safa, cpus, dam
<1>2. MemTyped' /\ \A e \in DTBs : mem'[e] = IF e = d THEN NoFiles ELSE mem[e]
  BY <1>1 DEF Crossing, Typed, MemTyped
<1>3. Typed' /\ OneReport'
  BY <1>1, <1>2 DEF Crossing, Typed, PlaceTyped, TableTyped, CPUsTyped, JobsTyped, WireTyped, NamesItsFile, OneReport
<1>4. ASSUME NEW e \in DTBs, e # d PROVE Untouched(e)
  BY <1>1, <1>2, <1>4 DEF Untouched, RunsIt, HandsIt, ToldBy
<1>5. ASSUME d \notin Exempt PROVE Good(d)'
  <2>10. Good(d)
    BY <1>5 DEF Crossing
  <2>11. Where(d)' = Where(d) /\ Table(d)' = Table(d) /\ OneNotice(d)'
    BY <1>1, <2>10, WhereStays DEF Good, ToldBy
  <2>12. PICK x, s : x = Where(d) /\ x = Where(d)' /\ s = Table(d) /\ s = Table(d)'
    BY <2>11
  <2>1. Good(d) /\ (x = "ended" \/ Refused(d))
    BY <1>1, <2>10, <2>12 DEF Good, OneRelease
  <2>2. /\ Served(d)' <=> Served(d)
        /\ HeaderSent(d)' <=> HeaderSent(d)
        /\ Pieces(d)' = Pieces(d)
        /\ Refused(d)' <=> Refused(d)
    BY <1>1 DEF Served, HeaderSent, Pieces, Refused
  <2>3. \A e \in CPUs : (RunsIt(e, d)' <=> RunsIt(e, d)) /\ (HandsIt(e, d)' <=> HandsIt(e, d))
    BY <1>1 DEF RunsIt, HandsIt
  <2>4. x \notin {"new", "ready", "exec"} /\ \A e \in CPUs : ~HandsIt(e, d) /\ ~RunsIt(e, d)
    BY <2>1, <2>12 DEF Good, OneCPU, Refused
  <2>5. OneCPU(d)' /\ OneJob(d)' /\ OneAnswer(d)'
    BY <1>1, <2>1, <2>2, <2>3, <2>12 DEF Good, OneCPU, Has, OneJob, OneAnswer, AnswersTo
  <2>6. Served(d) => job[d].at = "release"
    <3>1. CASE x = "ended"
      BY <2>1, <2>12, <3>1 DEF Good, OneJob, AnswersTo
    <3>2. CASE Refused(d)
      BY <2>1, <3>2 DEF Good, OneAnswer, Refused
    <3> QED BY <2>1, <3>1, <3>2
  <2>7. \A i \in Pieces(d) : wire[i][1] = "body" /\ wire[i][2].ok => FALSE
    <3>1. CASE x = "ended"
      BY <2>1, <2>12, <3>1 DEF Good, OneAnswer, AnswersTo
    <3>2. CASE Refused(d)
      BY <2>1, <3>2 DEF Good, OneAnswer, Refused
    <3> QED BY <2>1, <3>1, <3>2
  <2>8. OneTable(d)'
    BY <1>1, <2>2, <2>3, <2>4, <2>6, <2>7, <2>12 DEF OneTable
  <2>9. OneRelease(d)'
    BY <1>1, <1>2, <2>1, <2>2, <2>12 DEF OneRelease
  <2> QED BY <2>5, <2>8, <2>9, <2>11 DEF Good
<1> QED BY <1>1, <1>3, <1>4, <1>5, Together

\* SAFA reads the two pieces of an answer: its DTB has no other.
LEMMA ReceivesKeeps == ASSUME Crossing, SAFAReceives PROVE Crossing'
<1>1. PICK m : m = wire[1][2]
  OBVIOUS
<1>2. /\ IsWhole(wire) /\ wire' = SubSeq(wire, 3, Len(wire)) /\ Comms_DAM(m)
      /\ UNCHANGED <<cpu, unread, job, mem, closing, killed>>
  BY <1>1 DEF SAFAReceives, cpus, memory
<1>3. PICK d : d = m.dtb
  OBVIOUS
<1>4. WireTyped
  BY DEF Crossing, Typed
<1>5. /\ WireTyped' /\ 1 \in Pieces(d) /\ 2 \in Pieces(d)
      /\ wire[1] = <<"header", m>> /\ wire[2] = <<"body", m>>
      /\ \A e : e # d => Nearer(e, 2)
      /\ \A i \in Pieces(d)' : i \in Nat \ {0} /\ i + 2 \in Pieces(d) /\ wire'[i] = wire[i + 2]
  BY <1>1, <1>2, <1>3, <1>4, Received
<1>6. d \in DTBs /\ NamesItsFile(m) /\ m.ok \in BOOLEAN
  <2>1. 1 \in DOMAIN wire /\ wire[1] \in Piece
    <3>1. 1 \in DOMAIN wire
      BY <1>5 DEF Pieces
    <3> QED BY <1>4, <3>1 DEF WireTyped
  <2>2. m \in Reply
    BY <1>1, <2>1 DEF Piece
  <2>3. NamesItsFile(m)
    BY <1>1, <1>4, <2>1 DEF WireTyped
  <2> QED BY <1>3, <2>2, <2>3 DEF Reply
<1>12. Exempt \subseteq Exempt' /\ (Overtakes(m) => d \in Exempt')
  BY <1>2, <1>3 DEF Comms_DAM
<1>13. /\ place[d] \in Searched(m) => fallen' = fallen
       /\ PlaceTyped' /\ \A e \in DTBs : place'[e] = IF e = d /\ place[d] \in Searched(m)
                                                   THEN (IF m.ok THEN "ready" ELSE "ended") ELSE place[e]
  BY <1>2, <1>3, <1>6 DEF Comms_DAM, Moves, Crossing, Typed, PlaceTyped
<1>8. TableTyped' /\ \A e \in DTBs : table'[e] = IF e = d /\ m.ok /\ m.op = "abrir"
                                                   THEN table[d] \cup {m.path} ELSE table[e]
  BY <1>2, <1>3, <1>6 DEF Comms_DAM, NamesItsFile, Crossing, Typed, TableTyped
<1>9. Typed' /\ OneReport'
  <2>1. OneReport'
    BY <1>2, <1>12 DEF Crossing, OneReport
  <2> QED BY <1>2, <1>5, <1>8, <1>13, <2>1 DEF Crossing, Typed, CPUsTyped, JobsTyped, MemTyped
<1>10. ASSUME NEW e \in DTBs, e # d PROVE Untouched(e) /\ Nearer(e, 2)
  BY <1>2, <1>5, <1>8, <1>10, <1>13 DEF Untouched, RunsIt, HandsIt, ToldBy
<1>11. ASSUME d \notin Exempt' PROVE Good(d)' /\ place[d] \in Searched(m)
  <2>1. Good(d)
    BY <1>6, <1>11, <1>12 DEF Crossing
  <2>15. Where(d) = AnswersTo(m) /\ Where(d) \in {"loading", "blocked"} /\ (m.op = "dummy" => Where(d) = "loading")
    BY <1>5, <2>1 DEF Good, OneAnswer, AnswersTo
  <2>16. \A e \in CPUs : ~ToldBy(e, d)
    <3>1. CASE m.op = "dummy"
      BY <2>1, <2>15, <3>1, InExec DEF Good
    <3>2. CASE m.op # "dummy"
      <4>1. place[d] # "exec"
        BY <1>3, <1>11, <1>12, <3>2 DEF Overtakes
      <4> QED BY <2>1, <4>1, InExec DEF Good
    <3> QED BY <3>1, <3>2
  <2>17. Where(d) = place[d] /\ Table(d) = table[d] /\ \A e \in CPUs : ~ToldBy(e, d)'
    BY <1>2, <2>16, NotTold DEF ToldBy
  <2>18. Where(d)' = place'[d] /\ Table(d)' = table'[d] /\ OneNotice(d)'
    BY <2>17, NotToldThen
  <2>2. place[d] = AnswersTo(m) /\ place[d] \in {"loading", "blocked"} /\ place[d] \in Searched(m)
    BY <2>15, <2>17 DEF AnswersTo, Searched, Alive
  <2>3. \A i \in Pieces(d) : (wire[i][1] = "header" /\ i = 1) \/ (wire[i][1] = "body" /\ i = 2)
    <3> SUFFICES ASSUME NEW i \in Pieces(d)
                 PROVE  (wire[i][1] = "header" /\ i = 1) \/ (wire[i][1] = "body" /\ i = 2)
      OBVIOUS
    <3>1. wire[i] \in Piece
      BY <1>4 DEF WireTyped, Pieces
    <3>2. wire[i][1] \in {"header", "body"}
      BY <3>1 DEF Piece
    <3>3. wire[1][1] = "header" /\ wire[2][1] = "body"
      BY <1>5
    <3>4. \A k \in Pieces(d) : wire[i][1] = wire[k][1] => i = k
      BY <2>1 DEF Good, OneAnswer
    <3> QED BY <1>5, <3>2, <3>3, <3>4
  <2>4. Pieces(d)' = {}
    <3> SUFFICES ASSUME NEW i \in Pieces(d)' PROVE FALSE
      OBVIOUS
    <3>1. i \in Nat \ {0} /\ i + 2 \in Pieces(d)
      BY <1>5
    <3>2. i + 2 # 1 /\ i + 2 # 2
      BY <3>1
    <3>3. i + 2 = 1 \/ i + 2 = 2
      BY <2>3, <3>1
    <3> QED BY <3>2, <3>3
  <2>5. Refused(d) <=> ~m.ok
    <3>1. wire[2][1] = "body" /\ wire[2][2] = m
      BY <1>5
    <3> QED BY <1>5, <2>3, <3>1 DEF Refused
  <2>6. IF m.ok THEN ~Served(d) ELSE Served(d) => job[d].at = "release"
    <3>1. wire[2][1] = "body" /\ wire[2][2] = m
      BY <1>5
    <3> QED BY <1>5, <2>1, <3>1 DEF Good, OneAnswer
  <2>7. /\ Served(d)' <=> Served(d)
        /\ HeaderSent(d)' <=> HeaderSent(d)
        /\ ~Refused(d)'
    BY <1>2, <2>4 DEF Served, HeaderSent, Refused
  <2>8. \A e \in CPUs : ~RunsIt(e, d)' /\ ~HandsIt(e, d)'
    <3>1. \A e \in CPUs : ~RunsIt(e, d) /\ ~HandsIt(e, d)
      BY <1>5, <2>1, <2>15 DEF Good, OneCPU
    <3> QED BY <1>2, <3>1 DEF RunsIt, HandsIt
  <2>9. Where(d)' = IF m.ok THEN "ready" ELSE "ended"
    BY <1>6, <1>13, <2>2, <2>18
  <2>10. OneCPU(d)'
    BY <2>4, <2>6, <2>7, <2>8, <2>9 DEF OneCPU, Has
  <2>11. OneJob(d)'
    <3>1. HeaderSent(d)' => Served(d)' /\ job'[d].at # "release"
      BY AtNothing DEF HeaderSent, Served
    <3> QED BY <1>2, <2>4, <2>6, <2>7, <2>9, <3>1 DEF OneJob
  <2>12. OneAnswer(d)'
    BY <2>4 DEF OneAnswer
  <2>13. OneTable(d)'
    <3>1. m.ok => DOMAIN mem[d] = table[d] \cup Loaded(m.op, m.path, TRUE)
      <4>1. wire[2][1] = "body" /\ wire[2][2] = m
        BY <1>5
      <4> QED BY <1>5, <2>1, <2>17, <4>1 DEF Good, OneTable
    <3>2. m.ok => DOMAIN mem'[d] = table'[d] \cup {Script}
      <4>1. m.ok => table'[d] = IF m.op = "abrir" THEN table[d] \cup {m.path} ELSE table[d]
        BY <1>6, <1>8, <2>2
      <4>2. m.op = "dummy" => m.path = Script
        BY <1>6 DEF NamesItsFile
      <4>3. DOMAIN mem'[d] = DOMAIN mem[d]
        BY <1>2
      <4> QED BY <3>1, <4>1, <4>2, <4>3 DEF Loaded
    <3>3. Served(d)' => ~m.ok /\ job'[d].at = "release"
      BY <1>2, <2>6, <2>7
    <3> QED BY <2>4, <2>8, <2>9, <2>18, <3>2, <3>3 DEF OneTable
  <2>14. OneRelease(d)'
    <3>1. m.ok => d \notin closing
      BY <2>1, <2>5, <2>15 DEF Good, OneRelease
    <3>2. ~m.ok /\ ~Served(d) /\ d \notin closing => mem[d] = NoFiles
      BY <2>1, <2>5 DEF Good, OneRelease
    <3> QED BY <1>2, <2>7, <2>9, <3>1, <3>2 DEF OneRelease
  <2> QED BY <2>2, <2>10, <2>11, <2>12, <2>13, <2>14, <2>18 DEF Good
<1>14. fallen' => fallen \/ Exempt' # {}
  BY <1>6, <1>11, <1>13
<1> QED BY <1>9, <1>10, <1>11, <1>12, <1>14, TogetherOnTheWire

\* Every step keeps the invariant.
LEMMA CrossingStep == ASSUME Crossing, [Next]_vars PROVE Crossing'
<1>1. ASSUME NEW c \in CPUs, NEW d \in DTBs, Dispatches(c, d) \/ ExecutesDummy(c, d) \/ FreesGDT(c, d)
      PROVE  Crossing'
  BY <1>1, DispatchesKeeps, ExecutesDummyKeeps, FreesGDTKeeps
<1>2. CASE SAFAReceives
  BY <1>2, ReceivesKeeps
<1>3. ASSUME NEW c \in CPUs, Executes(c) \/ Comms_CPU(c) PROVE Crossing'
  BY <1>3, LinesKeep, CloseKeeps, BlocksDummyKeeps, BlocksKeeps, EndsQuantumKeeps, RequestsKeeps,
     Comms_CPUKeeps DEF Executes
<1>4. ASSUME NEW d \in DTBs, Serves(d) PROVE Crossing'
  BY <1>4, ServesKeeps, SendsHeaderKeeps, SendsBodyKeeps, ErrorKeeps DEF Serves
<1>5. ASSUME NEW d \in DTBs, FM9_CloseDTB(d) PROVE Crossing'
  BY <1>5, CloseDTBKeeps
<1>6. CASE UNCHANGED vars
  <2>1. UNCHANGED <<place, table, unread, fallen, cpu, job, wire, mem, closing, history>>
    BY <1>6 DEF vars, safa, cpus, dam, memory
  <2>2. Typed' /\ OneReport'
    BY <2>1 DEF Crossing, Typed, PlaceTyped, TableTyped, CPUsTyped, JobsTyped, WireTyped, MemTyped, NamesItsFile, OneReport
  <2>3. \A d \in DTBs : Untouched(d)
    BY <2>1 DEF Untouched, RunsIt, HandsIt, ToldBy
  <2> QED BY <2>1, <2>2, <2>3, Together
<1> QED BY <1>1, <1>2, <1>3, <1>4, <1>5, <1>6 DEF Next, Plans, Finalizar

\* The invariant of all the reachable states.
THEOREM CrossingInvariant == Spec => []Crossing
<1>1. Init => Crossing
  BY CrossingInit
<1>2. Crossing /\ [Next]_vars => Crossing'
  BY CrossingStep
<1> QED BY <1>1, <1>2, PTL DEF Spec

\* A CPU reports to SAFA exactly once for each DTB that it is given.
THEOREM ReportInvariant == Spec => []OneReport
<1>1. Crossing => OneReport
  BY DEF Crossing
<1> QED BY <1>1, CrossingInvariant, PTL

\* The table that SAFA sends with a READY DTB names the files that FM9 has in memory for it.
THEOREM TablesInvariant == Spec => []TablesAgree
<1>1. Crossing => TablesAgree
  BY NotExec DEF Crossing, TablesAgree, Good, OneTable
<1> QED BY <1>1, CrossingInvariant, PTL

\* While DAM serves or answers a DTB, it waits where SAFA will look for it, or its BLOCKDTB is
\* among what SAFA has still to handle.
THEOREM ToldInvariant == Spec => []ToldBeforeAsked
<1>1. ASSUME Crossing PROVE ToldBeforeAsked
  <2>1. ASSUME NEW d \in DTBs \ Exempt, NEW m, Where(d) = AnswersTo(m) PROVE WaitsFor(d, m)
    <3>1. CASE Told(d)
      BY <1>1, <2>1, <3>1 DEF Crossing, Good, OneNotice, Told, Where, WaitsFor, AnswersTo
    <3>2. CASE ~Told(d)
      BY <2>1, <3>2 DEF Where, WaitsFor
    <3> QED BY <3>1, <3>2
  <2>2. ASSUME NEW d \in DTBs \ Exempt, job[d].at \notin {"none", "release"} PROVE WaitsFor(d, job[d])
    <3>1. Served(d)
      BY <2>2, AtNothing DEF Served
    <3>2. Where(d) = AnswersTo(job[d])
      BY <1>1, <2>2, <3>1 DEF Crossing, Good, OneJob
    <3> QED BY <2>1, <3>2
  <2>3. ASSUME NEW i \in 1..Len(wire), wire[i][2].dtb \notin Exempt PROVE WaitsFor(wire[i][2].dtb, wire[i][2])
    <3>1. wire \in Seq(Piece)
      BY <1>1 DEF Crossing, Typed, WireTyped
    <3>2. i \in DOMAIN wire /\ wire[i] \in Piece
      BY <3>1
    <3>3. wire[i][2].dtb \in DTBs /\ i \in Pieces(wire[i][2].dtb)
      BY <3>2 DEF Piece, Reply, Pieces
    <3>4. Where(wire[i][2].dtb) = AnswersTo(wire[i][2])
      BY <1>1, <2>3, <3>3 DEF Crossing, Good, OneAnswer
    <3> QED BY <2>1, <2>3, <3>3, <3>4
  <2> QED BY <2>2, <2>3 DEF ToldBeforeAsked
<1> QED BY <1>1, CrossingInvariant, PTL

\* SAFA looks for a DTB where it is not only after "finalizar" took one away, or DAM's answer
\* overtook a BLOCKDTB.
THEOREM FallsInvariant == Spec => []FallsAreProvoked
<1>1. Crossing => FallsAreProvoked
  BY DEF Crossing
<1> QED BY <1>1, CrossingInvariant, PTL

\* A DTB that is over holds no memory of FM9 once it has been told.
THEOREM ReleaseInvariant == Spec => []EndedIsReleased
<1>1. Crossing => EndedIsReleased
  BY NotExec DEF Crossing, EndedIsReleased, Good, OneRelease, Served
<1> QED BY <1>1, CrossingInvariant, PTL
-----------------------------------------------------------------------------
\* The contents of files: what MDJ keeps, what FM9 keeps, which is never empty, and what a
\* request carries.
Marks == {"blank", "written"}
Untransferred == {"queued", "abrir", "dummy"}
FilesTyped ==
    /\ \A p \in DOMAIN disk : disk[p] \in Seq(Marks)
    /\ \A d \in DTBs : \A p \in DOMAIN mem[d] : mem[d][p] \in Seq(Marks) /\ mem[d][p] # <<>>
Carries(j) == j.n \in Nat /\ j.data \in Seq(Marks) /\ (j.at \in Untransferred => j.data = <<>>)
Asks(c) == cpu[c].asks # Nothing
RequestsTyped ==
    /\ \A d \in DTBs : Served(d) => Carries(job[d])
    /\ \A c \in CPUs : Asks(c) => Carries(cpu[c].asks) /\ cpu[c].asks.path \in Paths

\* No two requests are about one file, but for the scripts, which nobody writes.
PathsApart ==
    /\ \A d, e \in DTBs : Served(d) /\ Served(e) /\ P(d) = P(e) => d = e \/ P(d) = Script
    /\ \A c \in CPUs, d \in DTBs : Asks(c) /\ Served(d) => cpu[c].asks.path # P(d)
    /\ \A b, c \in CPUs : Asks(b) /\ Asks(c) /\ cpu[b].asks.path = cpu[c].asks.path => b = c

\* s is what t begins with.
Begins(s, t) == Len(s) <= Len(t) /\ \A i \in 1 .. Len(s) : t[i] = s[i]
OnDisk(d) == P(d) \in DOMAIN disk
InMem(d) == P(d) \in DOMAIN mem[d]

\* What DAM has moved for d is a beginning of the file, and all of it when it says so.  FM9
\* may have released the memory of a DTB that the console ended.
Moved(d) ==
    /\ job[d].at = "read" => OnDisk(d) /\ Begins(job[d].data, disk[P(d)])
    /\ job[d].at = "store" => OnDisk(d) /\ job[d].data = disk[P(d)]
    /\ job[d].at = "write" =>
         /\ job[d].n <= Len(job[d].data)
         /\ d \notin Exempt => InMem(d) /\ job[d].data = mem[d][P(d)]
         /\ job[d].n > 0 =>
              /\ OnDisk(d) /\ job[d].n <= Len(disk[P(d)])
              /\ \A i \in 1 .. job[d].n : disk[P(d)][i] = job[d].data[i]
    /\ job[d].at = "done" /\ d \notin Exempt =>
         /\ job[d].op \in {"abrir", "dummy"} => OnDisk(d) /\ InMem(d) /\ mem[d][P(d)] = disk[P(d)]
         /\ job[d].op = "flush" => OnDisk(d) /\ InMem(d) /\ Begins(mem[d][P(d)], disk[P(d)])

Transfers == FilesTyped /\ RequestsTyped /\ PathsApart /\ \A d \in DTBs : Moved(d)

\* What was moved stays as it is when neither the request nor what it is about changes.
LEMMA MovedStays ==
  ASSUME NEW d \in DTBs, Moved(d), job'[d] = job[d], Exempt \subseteq Exempt',
         d \notin Exempt' /\ job[d].at \in {"write", "done"} => mem'[d] = mem[d],
         OnDisk(d) => P(d) \in DOMAIN disk' /\ disk'[P(d)] = disk[P(d)]
  PROVE  Moved(d)'
<1>1. P(d)' = P(d)
  BY DEF P
<1>2. OnDisk(d) => OnDisk(d)' /\ disk'[P(d)'] = disk[P(d)]
  BY <1>1 DEF OnDisk
<1>3. d \notin Exempt' /\ job[d].at \in {"write", "done"} =>
        /\ InMem(d)' <=> InMem(d)
        /\ mem'[d][P(d)'] = mem[d][P(d)]
        /\ d \notin Exempt
  BY <1>1 DEF InMem
<1>4. job'[d].at = "read" => OnDisk(d)' /\ Begins(job'[d].data, disk'[P(d)'])
  BY <1>2 DEF Moved, Begins
<1>5. job'[d].at = "store" => OnDisk(d)' /\ job'[d].data = disk'[P(d)']
  BY <1>2 DEF Moved
<1>6. job'[d].at = "write" =>
         /\ job'[d].n <= Len(job'[d].data)
         /\ d \notin Exempt' => InMem(d)' /\ job'[d].data = mem'[d][P(d)']
         /\ job'[d].n > 0 =>
              /\ OnDisk(d)' /\ job'[d].n <= Len(disk'[P(d)'])
              /\ \A i \in 1 .. job'[d].n : disk'[P(d)'][i] = job'[d].data[i]
  BY <1>2, <1>3 DEF Moved
<1>7. job'[d].at = "done" /\ d \notin Exempt' /\ job'[d].op \in {"abrir", "dummy"} =>
         OnDisk(d)' /\ InMem(d)' /\ mem'[d][P(d)'] = disk'[P(d)']
  BY <1>2, <1>3 DEF Moved
<1>8. job'[d].at = "done" /\ d \notin Exempt' /\ job'[d].op = "flush" =>
         OnDisk(d)' /\ InMem(d)' /\ Begins(mem'[d][P(d)'], disk'[P(d)'])
  BY <1>2, <1>3 DEF Moved, Begins
<1> QED BY <1>4, <1>5, <1>6, <1>7, <1>8 DEF Moved, Begins

\* A request that is not under way, or is about to be answered otherwise, has moved nothing.
LEMMA NothingMoved ==
  ASSUME NEW d \in DTBs,
         job'[d].at \notin {"read", "store", "write"},
         job'[d].at = "done" => job'[d].op \notin {"abrir", "dummy", "flush"}
  PROVE  Moved(d)'
BY DEF Moved

\* A step of SAFA, of a CPU or of FM9: no request of DAM changes, and no file that one is about.
LEMMA OthersKeep ==
  ASSUME Transfers, job' = job, disk' = disk, Exempt \subseteq Exempt', FilesTyped',
         \A c \in CPUs : cpu'[c].asks \in {cpu[c].asks, Nothing},
         \A d \in DTBs \ Exempt' : job[d].at \in {"write", "done"} => mem'[d] = mem[d]
  PROVE  Transfers'
<1>1. \A d \in DTBs : (Served(d)' <=> Served(d)) /\ P(d)' = P(d)
  BY DEF Served, P
<1>2. \A c \in CPUs : Asks(c)' => Asks(c) /\ cpu'[c].asks = cpu[c].asks
  BY DEF Asks
<1>3. RequestsTyped'
  <2>1. \A d \in DTBs : Served(d)' => Carries(job'[d])
    BY <1>1 DEF Transfers, RequestsTyped
  <2>2. \A c \in CPUs : Asks(c)' => Carries(cpu'[c].asks) /\ cpu'[c].asks.path \in Paths
    BY <1>2 DEF Transfers, RequestsTyped
  <2> QED BY <2>1, <2>2 DEF RequestsTyped, Carries
<1>4. PathsApart'
  BY <1>1, <1>2 DEF Transfers, PathsApart
<1>5. ASSUME NEW d \in DTBs PROVE Moved(d)'
  <2>1. /\ Moved(d) /\ job'[d] = job[d]
        /\ d \notin Exempt' /\ job[d].at \in {"write", "done"} => mem'[d] = mem[d]
    BY DEF Transfers
  <2>2. OnDisk(d) => P(d) \in DOMAIN disk' /\ disk'[P(d)] = disk[P(d)]
    BY DEF OnDisk
  <2> QED BY <2>1, <2>2, MovedStays
<1> QED BY <1>3, <1>4, <1>5 DEF Transfers

\* A step of DAM's thread on its request: the file it is about is its own.
LEMMA ServingKeeps ==
  ASSUME Crossing, Transfers, NEW d \in DTBs, Served(d), NEW j, job' = [job EXCEPT ![d] = j],
         j = Nothing \/ (Carries(j) /\ j.path = job[d].path),
         UNCHANGED <<cpu, history>>, FilesTyped',
         \A e \in DTBs : e # d => mem'[e] = mem[e],
         \A p \in DOMAIN disk : p # P(d) \/ p = Script => p \in DOMAIN disk' /\ disk'[p] = disk[p],
         Moved(d)'
  PROVE  Transfers'
<1>1. job'[d] = j /\ \A e \in DTBs : e # d => job'[e] = job[e]
  BY DEF Crossing, Typed, JobsTyped
<1>2. \A e \in DTBs : Served(e)' => Served(e) /\ P(e)' = P(e)
  BY <1>1 DEF Served, P
<1>3. \A c \in CPUs : cpu'[c].asks = cpu[c].asks /\ (Asks(c)' <=> Asks(c))
  BY DEF Asks
<1>4. RequestsTyped'
  <2>1. \A e \in DTBs : Served(e)' => Carries(job'[e])
    BY <1>1, <1>2 DEF Served, Transfers, RequestsTyped
  <2> QED BY <1>3, <2>1 DEF Transfers, RequestsTyped, Carries
<1>5. PathsApart'
  BY <1>2, <1>3 DEF Transfers, PathsApart
<1>6. ASSUME NEW e \in DTBs, e # d PROVE Moved(e)'
  <2>1. job'[e] = job[e] /\ mem'[e] = mem[e] /\ Moved(e)
    BY <1>1, <1>6 DEF Transfers
  <2>2. CASE Served(e)
    <3>1. P(e) # P(d) \/ P(e) = Script
      BY <1>6, <2>2 DEF Transfers, PathsApart
    <3>2. OnDisk(e) => P(e) \in DOMAIN disk' /\ disk'[P(e)] = disk[P(e)]
      BY <3>1 DEF OnDisk
    <3> QED BY <2>1, <3>2, MovedStays
  <2>3. CASE ~Served(e)
    <3>1. job'[e].at = "none"
      BY <2>1, <2>3 DEF Served, Nothing
    <3> QED BY <3>1, NothingMoved
  <2> QED BY <2>2, <2>3
<1> QED BY <1>4, <1>5, <1>6 DEF Transfers

\* The contents that With and Without leave.
LEMMA WithIs ==
  ASSUME NEW f, NEW p, NEW s
  PROVE  /\ DOMAIN With(f, p, s) = DOMAIN f \cup {p} /\ With(f, p, s)[p] = s
         /\ \A q \in DOMAIN f : q # p => With(f, p, s)[q] = f[q]
         /\ DOMAIN Without(f, p) = DOMAIN f \ {p}
         /\ \A q \in DOMAIN f : q # p => Without(f, p)[q] = f[q]
BY DEF With, Without

\* A blank file.
LEMMA BlankIs == ASSUME NEW n \in Nat PROVE Blank(n) \in Seq(Marks) /\ Len(Blank(n)) = n
<1>1. Blank(n) \in [1 .. n -> Marks] /\ DOMAIN Blank(n) = 1 .. n
  BY DEF Blank, Marks
<1> QED BY <1>1

\* The files keep their types when those that change get contents.
LEMMA FilesStay ==
  ASSUME FilesTyped, disk' = disk, NEW d \in DTBs,
         \A e \in DTBs : e # d => mem'[e] = mem[e],
         \A p \in DOMAIN mem'[d] : mem'[d][p] \in Seq(Marks) /\ mem'[d][p] # <<>>
  PROVE  FilesTyped'
BY DEF FilesTyped

\* The lines of the CPU that change nothing but its own record.
LEMMA CPUSteps ==
  ASSUME Crossing, Transfers, NEW c \in CPUs,
         \/ (\E d \in DTBs : Dispatches(c, d) \/ FreesGDT(c, d))
         \/ BlocksDummy(c) \/ EndsScript(c) \/ ExecutesLine(c) \/ Blocks(c) \/ EndsQuantum(c)
         \/ (\E p \in Paths : CommandFails(c, p))
  PROVE  Transfers'
<1>1. UNCHANGED <<job, disk, mem>> /\ Exempt \subseteq Exempt'
  BY DEF Dispatches, FreesGDT, BlocksDummy, EndsScript, ExecutesLine, Blocks, EndsQuantum,
         CommandFails, Aborts, CPU_EndDTB, dam, memory
<1>2. \A e \in CPUs : cpu[e].asks = cpu'[e].asks \/ cpu'[e].asks = Nothing
  <2>1. DOMAIN cpu = CPUs /\ IsCPU(cpu[c])
    BY DEF Crossing, Typed, CPUsTyped
  <2>2. CASE \E d \in DTBs : Dispatches(c, d)
    BY <2>1, <2>2 DEF Dispatches
  <2>3. CASE UNCHANGED cpu
    BY <2>3
  <2>4. Stops(c).asks = cpu[c].asks /\ GoesOn(c).asks = cpu[c].asks
    BY <2>1 DEF Stops, GoesOn, IsCPU
  <2>5. CASE cpu' = [cpu EXCEPT ![c] = Stops(c)] \/ cpu' = [cpu EXCEPT ![c] = GoesOn(c)]
    BY <2>1, <2>4, <2>5
  <2>6. CASE BlocksDummy(c) \/ Blocks(c) \/ EndsQuantum(c)
    <3>1. \/ cpu' = [cpu EXCEPT ![c].at = "idle", ![c].said = @ + 1]
          \/ cpu' = [cpu EXCEPT ![c].at = Then(@), ![c].said = @ + 1]
      BY <2>6 DEF BlocksDummy, Blocks, EndsQuantum
    <3>2. cpu'[c].asks = cpu[c].asks /\ \A e \in CPUs : e # c => cpu'[e] = cpu[e]
      <4>1. "asks" \in DOMAIN cpu[c]
        BY <2>1 DEF IsCPU
      <4>2. CASE cpu' = [cpu EXCEPT ![c].at = "idle", ![c].said = @ + 1]
        BY <2>1, <4>1, <4>2
      <4>3. CASE cpu' = [cpu EXCEPT ![c].at = Then(@), ![c].said = @ + 1]
        BY <2>1, <4>1, <4>3
      <4> QED BY <3>1, <4>2, <4>3
    <3> QED BY <3>2
  <2> QED BY <2>2, <2>3, <2>5, <2>6 DEF FreesGDT, EndsScript, ExecutesLine, CommandFails, Aborts, cpus
<1>3. FilesTyped'
  BY <1>1 DEF Transfers, FilesTyped
<1>4. \A e \in CPUs : cpu'[e].asks \in {cpu[e].asks, Nothing}
  BY <1>2
<1> QED BY <1>1, <1>3, <1>4, OthersKeep

\* SAFA handles a message of a CPU or of DAM, or nothing happens.
LEMMA KeptSteps ==
  ASSUME Transfers, SAFAReceives \/ (\E c \in CPUs : Comms_CPU(c)) \/ UNCHANGED vars
  PROVE  Transfers'
<1>1. UNCHANGED <<job, disk, mem, cpu>> /\ Exempt \subseteq Exempt'
  <2>1. CASE SAFAReceives
    BY <2>1 DEF SAFAReceives, Comms_DAM, cpus, memory
  <2>2. CASE \E c \in CPUs : Comms_CPU(c)
    BY <2>2 DEF Comms_CPU, HandlesBlockDTB, HandlesBlockDummy, Handles, cpus, dam, memory
  <2>3. CASE UNCHANGED vars
    BY <2>3 DEF vars, cpus, dam, memory
  <2> QED BY <2>1, <2>2, <2>3
<1>2. FilesTyped' /\ \A c \in CPUs : cpu'[c].asks \in {cpu[c].asks, Nothing}
  BY <1>1 DEF Transfers, FilesTyped
<1> QED BY <1>1, <1>2, OthersKeep

\* A DTB that a CPU executes is served by nobody.
LEMMA RunsUnserved ==
  ASSUME Crossing, NEW c \in CPUs, Runs(c)
  PROVE  D(c) \in DTBs /\ (D(c) \notin Exempt => job[D(c)].at = "none")
<1>1. D(c) \in DTBs
  BY DEF Crossing, Typed, CPUsTyped, IsCPU, Runs, D
<1>2. ASSUME D(c) \notin Exempt PROVE ~Served(D(c))
  <2>1. Good(D(c)) /\ RunsIt(c, D(c))
    BY <1>1, <1>2 DEF Crossing, RunsIt, Runs, D
  <2> QED BY <2>1 DEF Good, OneCPU
<1> QED BY <1>1, <1>2 DEF Served, Nothing

\* A line that writes in memory, or closes a file there, has no request under way.
LEMMA MemorySteps ==
  ASSUME Crossing, Transfers, NEW c \in CPUs, NEW p \in Paths,
         CommandClose(c, p) \/ \E i \in Sizes : CommandAsignar(c, p, i)
  PROVE  Transfers'
<1>1. Runs(c) /\ UNCHANGED <<job, disk, history>>
  BY DEF CommandClose, CommandAsignar, Fetches, dam
<1>2. PICK d \in DTBs : d = D(c)
  BY <1>1, RunsUnserved
<1>3. d \notin Exempt => job[d].at = "none"
  BY <1>1, <1>2, RunsUnserved
<1>4. \A e \in CPUs : cpu'[e].asks \in {cpu[e].asks, Nothing}
  <2>1. DOMAIN cpu = CPUs /\ IsCPU(cpu[c])
    BY DEF Crossing, Typed, CPUsTyped
  <2>2. PICK r : cpu' = [cpu EXCEPT ![c] = r]
                 /\ r \in {GoesOn(c), Stops(c), CloseFails(c), [GoesOn(c) EXCEPT !.open = @ \ {p}]}
    BY DEF CommandClose, CommandAsignar, Aborts
  <2>3. r.asks = cpu[c].asks
    BY <2>1, <2>2 DEF Stops, GoesOn, CloseFails, IsCPU
  <2> QED BY <2>1, <2>2, <2>3
<1>5. DOMAIN mem = DTBs /\ FilesTyped
  BY DEF Crossing, Typed, MemTyped, Transfers
<1>6. /\ \A e \in DTBs : e # d => mem'[e] = mem[e]
      /\ \A q \in DOMAIN mem'[d] : mem'[d][q] \in Seq(Marks) /\ mem'[d][q] # <<>>
  <2>1. CASE mem' = mem
    BY <1>5, <2>1 DEF FilesTyped
  <2>2. CASE mem' = [mem EXCEPT ![d] = Without(@, p)]
    <3>1. mem'[d] = Without(mem[d], p) /\ \A e \in DTBs : e # d => mem'[e] = mem[e]
      BY <1>5, <2>2
    <3>2. DOMAIN mem'[d] = DOMAIN mem[d] \ {p} /\ \A q \in DOMAIN mem[d] : q # p => mem'[d][q] = mem[d][q]
      BY <3>1 DEF Without
    <3> QED BY <1>5, <3>1, <3>2 DEF FilesTyped
  <2>3. ASSUME NEW i \in Sizes, CommandAsignar(c, p, i), mem' # mem
        PROVE  /\ \A e \in DTBs : e # d => mem'[e] = mem[e]
               /\ \A q \in DOMAIN mem'[d] : mem'[d][q] \in Seq(Marks) /\ mem'[d][q] # <<>>
    <3>1. /\ mem' = [mem EXCEPT ![d][p][i] = "written"]
          /\ p \in DOMAIN mem[d] /\ i <= Len(mem[d][p]) /\ i \in Nat \ {0}
      BY <1>2, <2>3, OperationsAssumption DEF CommandAsignar, Aborts, CPU_EndDTB
    <3>2. PICK s, t : s = mem[d][p] /\ t = [s EXCEPT ![i] = "written"]
      OBVIOUS
    <3>3. s \in Seq(Marks) /\ s # <<>>
      BY <1>5, <3>1, <3>2 DEF FilesTyped
    <3>4. t \in Seq(Marks) /\ Len(t) = Len(s)
      <4>1. DOMAIN t = 1 .. Len(s) /\ \A k \in 1 .. Len(s) : t[k] \in Marks
        BY <3>2, <3>3 DEF Marks
      <4>2. Len(s) \in Nat /\ t = [k \in 1 .. Len(s) |-> t[k]]
        BY <3>2, <3>3, <4>1
      <4>3. t \in [1 .. Len(s) -> Marks]
        BY <4>1, <4>2
      <4> QED BY <4>1, <4>2, <4>3
    <3>5. t # <<>>
      BY <3>3, <3>4
    <3>6. mem'[d][p] = t /\ (\A e \in DTBs : e # d => mem'[e] = mem[e]) /\ DOMAIN mem'[d] = DOMAIN mem[d]
          /\ \A q \in DOMAIN mem[d] : q # p => mem'[d][q] = mem[d][q]
      BY <1>5, <3>1, <3>2
    <3> QED BY <1>5, <3>4, <3>5, <3>6 DEF FilesTyped
  <2>4. CASE CommandClose(c, p)
    BY <1>2, <2>1, <2>2, <2>4 DEF CommandClose, CPU_EndDTB
  <2> QED BY <2>1, <2>3, <2>4
<1>7. FilesTyped'
  BY <1>1, <1>5, <1>6, FilesStay
<1>8. \A e \in DTBs \ Exempt' : job[e].at \in {"write", "done"} => mem'[e] = mem[e]
  BY <1>1, <1>3, <1>6
<1> QED BY <1>1, <1>4, <1>7, <1>8, OthersKeep

\* FM9 releases the memory of a DTB that nobody serves any more, but to answer that it failed.
LEMMA ReleaseSteps == ASSUME Crossing, Transfers, NEW d \in DTBs, FM9_CloseDTB(d) PROVE Transfers'
<1>1. d \in closing /\ mem' = [mem EXCEPT ![d] = NoFiles] /\ UNCHANGED <<cpu, job, disk, history>>
  BY DEF FM9_CloseDTB, cpus, dam
<1>2. mem'[d] = NoFiles /\ \A e \in DTBs : e # d => mem'[e] = mem[e]
  BY <1>1 DEF Crossing, Typed, MemTyped
<1>3. FilesTyped'
  <2>1. \A p \in DOMAIN mem'[d] : FALSE
    BY <1>2 DEF NoFiles
  <2> QED BY <1>1, <1>2, <2>1, FilesStay DEF Transfers
<1>4. ASSUME d \notin Exempt PROVE job[d].at \notin {"write", "done"}
  <2> SUFFICES ASSUME job[d].at \in {"write", "done"} PROVE FALSE
    OBVIOUS
  <2>1. Good(d) /\ Served(d) /\ ~HeaderSent(d) /\ job[d].at # "release"
    BY <1>4, AtNothing DEF Crossing, Served, HeaderSent
  <2>2. Pieces(d) = {} /\ Where(d) = AnswersTo(job[d])
    BY <2>1 DEF Good, OneJob
  <2>3. Where(d) # "ended" /\ ~Refused(d)
    BY <2>2 DEF AnswersTo, Refused
  <2> QED BY <1>1, <2>1, <2>3 DEF Good, OneRelease
<1>5. \A e \in DTBs \ Exempt' : job[e].at \in {"write", "done"} => mem'[e] = mem[e]
  BY <1>1, <1>2, <1>4
<1>6. \A c \in CPUs : cpu'[c].asks \in {cpu[c].asks, Nothing}
  BY <1>1
<1> QED BY <1>1, <1>3, <1>5, <1>6, OthersKeep

\* A line that asks DAM for an operation: no request is about that file.
LEMMA CommandSteps ==
  ASSUME Crossing, Transfers, NEW c \in CPUs, NEW op, NEW p \in Paths, NEW n \in Nat, Command(c, op, p, n)
  PROVE  Transfers'
<1>1. Exclusive(p) /\ UNCHANGED <<job, disk, mem, history>>
  BY DEF Command, dam, memory
<1>2. cpu'[c].asks = Asked(op, p, n) /\ \A e \in CPUs : e # c => cpu'[e] = cpu[e]
  <2>1. DOMAIN cpu = CPUs /\ "asks" \in DOMAIN cpu[c]
    BY DEF Crossing, Typed, CPUsTyped, IsCPU
  <2>2. cpu' = [cpu EXCEPT ![c] = [GoesOn(c) EXCEPT !.at = Then("runs"), !.asks = Asked(op, p, n)]]
    BY DEF Command
  <2>3. "asks" \in DOMAIN GoesOn(c)
    BY <2>1 DEF GoesOn
  <2> QED BY <2>1, <2>2, <2>3
<1>3. PICK k : k = Asked(op, p, n)
  OBVIOUS
<1>4. Carries(k) /\ k.path = p
  <2>1. k.n \in Nat /\ k.data = <<>> /\ k.path = p
    BY <1>3 DEF Asked
  <2> QED BY <2>1 DEF Carries
<1>5. FilesTyped'
  BY <1>1 DEF Transfers, FilesTyped
<1>6. \A e \in DTBs : (Served(e)' <=> Served(e)) /\ P(e)' = P(e)
  BY <1>1 DEF Served, P
<1>7. \A e \in CPUs : e # c => (Asks(e)' <=> Asks(e)) /\ cpu'[e].asks = cpu[e].asks
  BY <1>2 DEF Asks
<1>8. RequestsTyped'
  <2>1. \A e \in DTBs : Served(e)' => Carries(job'[e])
    BY <1>1, <1>6 DEF Transfers, RequestsTyped
  <2>2. \A e \in CPUs : Asks(e)' => Carries(cpu'[e].asks) /\ cpu'[e].asks.path \in Paths
    BY <1>2, <1>3, <1>4, <1>7 DEF Transfers, RequestsTyped
  <2> QED BY <2>1, <2>2 DEF RequestsTyped, Carries
<1>9. PathsApart'
  <2>1. \A e \in DTBs : Served(e) => P(e) # p
    BY <1>1 DEF Exclusive, Served, P
  <2>2. \A e \in CPUs : Asks(e) => cpu[e].asks.path # p
    BY <1>1 DEF Exclusive, Asks
  <2>3. cpu'[c].asks.path = p
    BY <1>2, <1>3, <1>4
  <2> QED BY <1>6, <1>7, <2>1, <2>2, <2>3 DEF Transfers, PathsApart
<1>10. ASSUME NEW d \in DTBs PROVE Moved(d)'
  <2>1. Moved(d) /\ job'[d] = job[d] /\ mem'[d] = mem[d] /\ Exempt \subseteq Exempt'
    BY <1>1 DEF Transfers
  <2>2. OnDisk(d) => P(d) \in DOMAIN disk' /\ disk'[P(d)] = disk[P(d)]
    BY <1>1 DEF OnDisk
  <2> QED BY <2>1, <2>2, MovedStays
<1> QED BY <1>5, <1>8, <1>9, <1>10 DEF Transfers

\* DAM gets a request of a CPU, or that of a script: it has moved nothing for it yet.
LEMMA NewRequest ==
  ASSUME Crossing, Transfers, NEW d \in DTBs, NEW j, job' = [job EXCEPT ![d] = j], j.at = "queued", Carries(j),
         UNCHANGED <<disk, mem, history>>,
         \A e \in CPUs : Asks(e)' => Asks(e) /\ cpu'[e].asks = cpu[e].asks /\ cpu[e].asks.path # j.path,
         \A e \in DTBs : e # d /\ Served(e) => P(e) # j.path \/ j.path = Script
  PROVE  Transfers'
<1>1. job'[d] = j /\ \A e \in DTBs : e # d => job'[e] = job[e]
  BY DEF Crossing, Typed, JobsTyped
<1>2. P(d)' = j.path /\ \A e \in DTBs : e # d => (Served(e)' <=> Served(e)) /\ P(e)' = P(e)
  BY <1>1 DEF Served, P
<1>3. FilesTyped'
  BY DEF Transfers, FilesTyped
<1>4. RequestsTyped'
  <2>1. \A e \in DTBs : Served(e)' => Carries(job'[e])
    BY <1>1, <1>2 DEF Transfers, RequestsTyped
  <2>2. \A e \in CPUs : Asks(e)' => Carries(cpu'[e].asks) /\ cpu'[e].asks.path \in Paths
    BY DEF Transfers, RequestsTyped
  <2> QED BY <2>1, <2>2 DEF RequestsTyped, Carries
<1>5. PathsApart'
  <2>1. \A e, f \in DTBs : Served(e)' /\ Served(f)' /\ P(e)' = P(f)' => e = f \/ P(e)' = Script
    BY <1>2 DEF Transfers, PathsApart
  <2>2. \A e \in CPUs, f \in DTBs : Asks(e)' /\ Served(f)' => cpu'[e].asks.path # P(f)'
    BY <1>2 DEF Transfers, PathsApart
  <2>3. \A e, b \in CPUs : Asks(e)' /\ Asks(b)' /\ cpu'[e].asks.path = cpu'[b].asks.path => e = b
    BY DEF Transfers, PathsApart
  <2> QED BY <2>1, <2>2, <2>3 DEF PathsApart
<1>6. ASSUME NEW e \in DTBs PROVE Moved(e)'
  <2>1. CASE e = d
    BY <1>1, <2>1, NothingMoved
  <2>2. CASE e # d
    <3>1. Moved(e) /\ job'[e] = job[e] /\ mem'[e] = mem[e]
      BY <1>1, <1>6, <2>2 DEF Transfers
    <3>2. OnDisk(e) => P(e) \in DOMAIN disk' /\ disk'[P(e)] = disk[P(e)]
      BY DEF OnDisk
    <3> QED BY <3>1, <3>2, MovedStays
  <2> QED BY <2>1, <2>2
<1> QED BY <1>3, <1>4, <1>5, <1>6 DEF Transfers

\* The request of a line gets to DAM.
LEMMA RequestsSteps == ASSUME Crossing, Transfers, NEW c \in CPUs, Requests(c) PROVE Transfers'
<1>1. PICK d, j : d = D(c) /\ j = cpu[c].asks
  OBVIOUS
<1>2. job' = [job EXCEPT ![d] = j] /\ UNCHANGED <<disk, mem, history>> /\ cpu[c].at = "tellsDAM"
  BY <1>1 DEF Requests, memory
<1>3. DOMAIN cpu = CPUs /\ IsCPU(cpu[c])
  BY DEF Crossing, Typed, CPUsTyped
<1>4. d \in DTBs /\ j.at = "queued" /\ j # Nothing
  <2>1. d \in DTBs /\ IsOrder(j)
    BY <1>1, <1>2, <1>3 DEF IsCPU, D
  <2> QED BY <2>1, AtNothing DEF IsOrder
<1>5. Asks(c) /\ Carries(j)
  BY <1>1, <1>4 DEF Asks, Transfers, RequestsTyped
<1>6. cpu'[c].asks = Nothing /\ \A e \in CPUs : e # c => cpu'[e] = cpu[e]
  <2>1. "asks" \in DOMAIN cpu[c]
    BY <1>3 DEF IsCPU
  <2> QED BY <1>3, <2>1 DEF Requests
<1>7. \A e \in CPUs : Asks(e)' => Asks(e) /\ cpu'[e].asks = cpu[e].asks /\ cpu[e].asks.path # j.path
  <2>1. \A e \in CPUs : Asks(e)' => e # c /\ Asks(e) /\ cpu'[e].asks = cpu[e].asks
    BY <1>6 DEF Asks
  <2> QED BY <1>1, <1>5, <2>1 DEF Transfers, PathsApart
<1>8. \A e \in DTBs : Served(e) => P(e) # j.path
  BY <1>1, <1>5 DEF Transfers, PathsApart
<1> QED BY <1>2, <1>4, <1>5, <1>7, <1>8, NewRequest

\* DAM is asked for a script.
LEMMA DummySteps == ASSUME Crossing, Transfers, NEW c \in CPUs, NEW d \in DTBs, ExecutesDummy(c, d) PROVE Transfers'
<1>1. PICK j : j = Asked("dummy", Script, 0)
  OBVIOUS
<1>2. job' = [job EXCEPT ![d] = j] /\ UNCHANGED <<disk, mem, history>>
  BY <1>1 DEF ExecutesDummy, memory
<1>3. j.at = "queued" /\ j.path = Script /\ Carries(j)
  <2>1. j.at = "queued" /\ j.path = Script /\ j.n = 0 /\ j.data = <<>>
    BY <1>1 DEF Asked
  <2> QED BY <2>1 DEF Carries
<1>4. \A e \in CPUs : cpu'[e].asks = cpu[e].asks
  <2>1. DOMAIN cpu = CPUs /\ "asks" \in DOMAIN cpu[c]
    BY DEF Crossing, Typed, CPUsTyped, IsCPU
  <2>2. cpu' = [cpu EXCEPT ![c].at = "dummy", ![c].dtb = d, ![c].said = 0]
    BY DEF ExecutesDummy
  <2> QED BY <2>1, <2>2
<1>5. \A e \in CPUs : Asks(e)' => Asks(e) /\ cpu'[e].asks = cpu[e].asks /\ cpu[e].asks.path # j.path
  <2>1. \A e \in CPUs : Asks(e) => cpu[e].asks.path \in Paths
    BY DEF Transfers, RequestsTyped
  <2> QED BY <1>3, <1>4, <2>1, OperationsAssumption DEF Asks
<1> QED BY <1>2, <1>3, <1>5, NewRequest

\* What DAM knows of the request it serves.
LEMMA RequestKnown ==
  ASSUME Crossing, Transfers, NEW d \in DTBs, job[d].at # "none"
  PROVE  /\ Served(d) /\ Carries(job[d]) /\ IsJob(job[d])
         /\ P(d) = job[d].path /\ (job[d].op # "dummy" => P(d) \in Paths /\ P(d) # Script)
<1>1. Served(d)
  BY AtNothing DEF Served
<1>2. Carries(job[d]) /\ IsJob(job[d])
  BY <1>1, JobKnown DEF Transfers, RequestsTyped
<1> QED BY <1>1, <1>2, OperationsAssumption DEF IsJob, NamesItsFile, P

\* A request that only changes its place.
LEMMA PlaceIs ==
  ASSUME Crossing, Transfers, NEW d \in DTBs, job[d].at # "none", NEW x, Goes(d, x),
         x \in Untransferred => job[d].data = <<>>
  PROVE  \E j : /\ job' = [job EXCEPT ![d] = j] /\ job'[d] = j /\ Carries(j)
                /\ j.at = x /\ j.op = job[d].op /\ j.path = job[d].path /\ j.n = job[d].n
                /\ j.data = job[d].data
<1> DEFINE k == [job[d] EXCEPT !.at = x]
<1>1. job' = [job EXCEPT ![d] = k]
  BY DEF Goes
<1>2. IsJob(job[d]) /\ Carries(job[d])
  BY RequestKnown
<1>3. k.at = x /\ k.op = job[d].op /\ k.path = job[d].path /\ k.n = job[d].n /\ k.data = job[d].data
  BY <1>2 DEF IsJob
<1> HIDE DEF k
<1>4. job'[d] = k
  BY <1>1 DEF Crossing, Typed, JobsTyped
<1>5. Carries(k)
  BY <1>2, <1>3 DEF Carries
<1> WITNESS k
<1> QED BY <1>1, <1>3, <1>4, <1>5

\* A step of DAM's thread that changes the request alone.
LEMMA PlaceKeeps ==
  ASSUME Crossing, Transfers, NEW d \in DTBs, job[d].at # "none", NEW x, Goes(d, x),
         x \in Untransferred => job[d].data = <<>>, UNCHANGED <<cpu, history, disk, mem>>,
         Moved(d)'
  PROVE  Transfers'
<1>1. PICK j : job' = [job EXCEPT ![d] = j] /\ Carries(j) /\ j.path = job[d].path
  BY PlaceIs
<1>2. FilesTyped' /\ Served(d)
  BY RequestKnown DEF Transfers, FilesTyped
<1>3. \A p \in DOMAIN disk : p \in DOMAIN disk' /\ disk'[p] = disk[p]
  OBVIOUS
<1>4. \A e \in DTBs : e # d => mem'[e] = mem[e]
  OBVIOUS
<1> QED BY <1>1, <1>2, <1>3, <1>4, ServingKeeps

\* The steps by which DAM's thread takes a request and gives up, or begins to read.
LEMMA TakesSteps == ASSUME Crossing, Transfers, NEW d \in DTBs, Takes(d) \/ ChecksFile(d) PROVE Transfers'
<1>1. job[d].at \in Untransferred /\ UNCHANGED <<cpu, history, disk, mem>>
  BY DEF Takes, ChecksFile, Serving, Untransferred, cpus, memory
<1>2. job[d].at # "none"
  BY <1>1 DEF Untransferred
<1>3. job[d].data = <<>> /\ Carries(job[d]) /\ IsJob(job[d])
  BY <1>1, <1>2, RequestKnown DEF Carries
<1>4. PICK x : /\ Goes(d, x) /\ x \in Ops \cup {"read", "error"}
               /\ x = "read" => P(d) \in DOMAIN disk
  <2>1. CASE Takes(d)
    <3>1. job[d].op \in Ops /\ Goes(d, job[d].op)
      BY <1>3, <2>1 DEF Takes, IsJob, NamesItsFile
    <3>2. job[d].op # "read"
      BY <3>1 DEF Ops
    <3> QED BY <3>1, <3>2
  <2>2. CASE ChecksFile(d) /\ P(d) \in DOMAIN disk
    <3>1. Goes(d, "read")
      BY <2>2 DEF ChecksFile
    <3> QED BY <2>2, <3>1
  <2>3. CASE ChecksFile(d) /\ P(d) \notin DOMAIN disk
    <3>1. Goes(d, "error")
      BY <2>3 DEF ChecksFile
    <3> QED BY <3>1
  <2> QED BY <2>1, <2>2, <2>3
<1>5. Moved(d)'
  <2>1. PICK j : job'[d] = j /\ j.at = x /\ j.path = job[d].path /\ j.data = job[d].data
    BY <1>2, <1>3, <1>4, PlaceIs
  <2>2. CASE x = "read"
    <3>1. job'[d].at = "read" /\ job'[d].data = <<>> /\ P(d)' = P(d)
      BY <1>3, <2>1, <2>2 DEF P
    <3>2. OnDisk(d)' /\ disk'[P(d)'] = disk[P(d)] /\ disk[P(d)] \in Seq(Marks)
      BY <1>1, <1>4, <2>2, <3>1 DEF OnDisk, Transfers, FilesTyped
    <3>3. Begins(job'[d].data, disk'[P(d)'])
      <4>1. \A s \in Seq(Marks) : Begins(<<>>, s)
        BY DEF Begins
      <4> QED BY <3>1, <3>2, <4>1
    <3> QED BY <3>1, <3>2, <3>3 DEF Moved, Begins
  <2>3. CASE x # "read"
    <3>1. job'[d].at \notin {"read", "store", "write", "done"}
      BY <1>4, <2>1, <2>3 DEF Ops
    <3> QED BY <3>1, NothingMoved
  <2> QED BY <2>2, <2>3
<1> QED BY <1>1, <1>2, <1>3, <1>4, <1>5, PlaceKeeps

\* A chunk is what follows in the file, and is empty at its end only.
LEMMA ChunkIs ==
  ASSUME NEW s \in Seq(Marks), NEW from \in Nat, from <= Len(s), NEW chunk, chunk = Chunk(s, from)
  PROVE  /\ chunk \in Seq(Marks) /\ from + Len(chunk) <= Len(s)
         /\ \A i \in 1 .. Len(chunk) : chunk[i] = s[from + i]
         /\ chunk = <<>> <=> from = Len(s)
<1> DEFINE last == Lesser(from + TransferSize, Len(s))
<1>1. Len(s) \in Nat /\ TransferSize \in Nat /\ TransferSize > 0
  BY OperationsAssumption
<1>2. last \in Nat /\ from <= last /\ last <= Len(s) /\ (last = from <=> from = Len(s))
  BY <1>1 DEF Lesser
<1>3. chunk = SubSeq(s, from + 1, last)
  BY DEF Chunk
<1> HIDE DEF last
<1>4. \A i \in from + 1 .. last : i \in 1 .. Len(s) /\ s[i] \in Marks
  BY <1>1, <1>2
<1>5. chunk \in Seq(Marks) /\ Len(chunk) = last - from /\ \A i \in 1 .. last - from : chunk[i] = s[from + i]
  BY <1>1, <1>2, <1>3, <1>4
<1>6. chunk = <<>> <=> last = from
  BY <1>2, <1>5
<1> QED BY <1>2, <1>5, <1>6

\* What a chunk that is written over a file leaves.
LEMMA OverlayIs ==
  ASSUME NEW old \in Seq(Marks), NEW chunk \in Seq(Marks), NEW from \in Nat, from <= Len(old), NEW new,
         new = Overlay(old, from, chunk)
  PROVE  /\ new \in Seq(Marks) /\ from + Len(chunk) <= Len(new)
         /\ \A i \in 1 .. from : new[i] = old[i]
         /\ \A i \in from + 1 .. from + Len(chunk) : new[i] = chunk[i - from]
<1> DEFINE n == IF Len(old) > from + Len(chunk) THEN Len(old) ELSE from + Len(chunk)
<1>1. Len(old) \in Nat /\ Len(chunk) \in Nat
  OBVIOUS
<1>2. n \in Nat /\ from + Len(chunk) <= n /\ (n = Len(old) \/ n = from + Len(chunk))
  BY <1>1
<1>3. /\ DOMAIN new = 1 .. n
      /\ \A i \in 1 .. n : new[i] = IF i \in from + 1 .. from + Len(chunk) THEN chunk[i - from] ELSE old[i]
      /\ new = [i \in 1 .. n |-> new[i]]
  BY DEF Overlay
<1> HIDE DEF n
<1>4. ASSUME NEW i \in 1 .. n PROVE new[i] \in Marks
  <2>1. CASE i \in from + 1 .. from + Len(chunk)
    <3>1. i - from \in 1 .. Len(chunk)
      BY <1>1, <2>1
    <3>2. PICK k : k = i - from
      OBVIOUS
    <3>3. chunk[k] \in Marks
      BY <3>1, <3>2
    <3>4. new[i] = chunk[k]
      BY <1>3, <1>4, <2>1, <3>2
    <3> QED BY <3>3, <3>4
  <2>2. CASE i \notin from + 1 .. from + Len(chunk)
    <3>1. i \in 1 .. Len(old)
      BY <1>1, <1>2, <1>4, <2>2
    <3> QED BY <1>3, <1>4, <2>2, <3>1
  <2> QED BY <2>1, <2>2
<1>5. new \in [1 .. n -> Marks]
  BY <1>3, <1>4
<1>6. new \in Seq(Marks) /\ Len(new) = n
  BY <1>2, <1>3, <1>5
<1>7. ASSUME NEW i \in 1 .. from PROVE new[i] = old[i]
  <2>1. i \in 1 .. n /\ i \notin from + 1 .. from + Len(chunk)
    BY <1>1, <1>2, <1>7
  <2> QED BY <1>3, <2>1
<1>8. ASSUME NEW i \in from + 1 .. from + Len(chunk) PROVE new[i] = chunk[i - from]
  <2>1. i \in 1 .. n
    BY <1>1, <1>2, <1>8
  <2> QED BY <1>3, <1>8, <2>1
<1> QED BY <1>2, <1>6, <1>7, <1>8

\* What was added to the beginning of a file is still its beginning.
LEMMA BeginsOn ==
  ASSUME NEW s \in Seq(Marks), NEW t \in Seq(Marks), Begins(s, t), NEW chunk, chunk = Chunk(t, Len(s))
  PROVE  /\ s \o chunk \in Seq(Marks) /\ Begins(s \o chunk, t)
         /\ chunk = <<>> => s \o chunk = t
<1>1. Len(s) \in Nat /\ Len(s) <= Len(t) /\ Len(t) \in Nat
  BY DEF Begins
<1>2. /\ chunk \in Seq(Marks) /\ Len(s) + Len(chunk) <= Len(t) /\ Len(chunk) \in Nat
      /\ \A i \in 1 .. Len(chunk) : chunk[i] = t[Len(s) + i]
      /\ chunk = <<>> <=> Len(s) = Len(t)
  <2>1. PICK from \in Nat : from = Len(s)
    BY <1>1
  <2>2. from <= Len(t) /\ chunk = Chunk(t, from)
    BY <1>1, <2>1
  <2>3. /\ chunk \in Seq(Marks) /\ from + Len(chunk) <= Len(t)
        /\ \A i \in 1 .. Len(chunk) : chunk[i] = t[from + i]
        /\ chunk = <<>> <=> from = Len(t)
    BY <2>2, ChunkIs
  <2> QED BY <2>1, <2>3
<1>3. PICK u : u = s \o chunk
  OBVIOUS
<1>4. u \in Seq(Marks) /\ Len(u) = Len(s) + Len(chunk)
  BY <1>2, <1>3
<1>5. ASSUME NEW i \in 1 .. Len(u) PROVE u[i] = t[i]
  <2>1. CASE i <= Len(s)
    BY <1>1, <1>2, <1>3, <1>4, <1>5, <2>1 DEF Begins
  <2>2. CASE i > Len(s)
    <3>1. PICK k \in 1 .. Len(chunk) : i = Len(s) + k
      <4>1. i - Len(s) \in 1 .. Len(chunk) /\ i = Len(s) + (i - Len(s))
        BY <1>1, <1>2, <1>4, <1>5, <2>2
      <4> QED BY <4>1
    <3>2. u[i] = chunk[k]
      BY <1>1, <1>2, <1>3, <3>1
    <3> QED BY <1>2, <3>1, <3>2
  <2> QED BY <1>1, <1>5, <2>1, <2>2
<1>6. Begins(u, t)
  BY <1>2, <1>4, <1>5 DEF Begins
<1>7. ASSUME chunk = <<>> PROVE u = t
  <2>1. Len(u) = Len(t)
    BY <1>1, <1>2, <1>4, <1>7
  <2> QED BY <1>4, <1>5, <2>1
<1> QED BY <1>3, <1>4, <1>6, <1>7

\* A chunk is read from MDJ.
LEMMA ReadSteps == ASSUME Crossing, Transfers, NEW d \in DTBs, DAM_ReadFile(d) PROVE Transfers'
<1>1. /\ job[d].at = "read" /\ P(d) \in DOMAIN disk
      /\ UNCHANGED <<cpu, history, disk, mem>>
  BY DEF DAM_ReadFile, Serving, cpus, memory
<1>2. Served(d) /\ Carries(job[d]) /\ IsJob(job[d]) /\ P(d) = job[d].path
  BY <1>1, RequestKnown
<1>3. PICK t : t = disk[P(d)]
  OBVIOUS
<1>4. t \in Seq(Marks) /\ job[d].data \in Seq(Marks)
  BY <1>1, <1>2, <1>3 DEF Transfers, FilesTyped, Carries
<1>5. PICK chunk : chunk = Chunk(t, Len(job[d].data))
  OBVIOUS
<1>6. PICK x, w : x = (IF chunk = <<>> THEN "store" ELSE "read") /\ w = job[d].data \o chunk
  OBVIOUS
<1>7. PICK j : j = [job[d] EXCEPT !.at = x, !.data = w]
  OBVIOUS
<1>8. job' = [job EXCEPT ![d] = j] /\ job'[d] = j
  BY <1>1, <1>3, <1>5, <1>6, <1>7 DEF DAM_ReadFile, Crossing, Typed, JobsTyped
<1>9. j.at = x /\ j.data = w /\ j.path = job[d].path /\ j.n = job[d].n
  BY <1>2, <1>7 DEF IsJob
<1>10. ASSUME Begins(job[d].data, t) PROVE w \in Seq(Marks) /\ Begins(w, t) /\ (x = "store" => w = t)
  BY <1>4, <1>5, <1>6, <1>10, BeginsOn
<1>11. w \in Seq(Marks)
  <2>1. chunk \in Seq(Marks)
    <3>1. Len(job[d].data) \in Nat /\ Len(t) \in Nat /\ TransferSize \in Nat
      BY <1>4, OperationsAssumption
    <3>2. \A i \in Len(job[d].data) + 1 .. Lesser(Len(job[d].data) + TransferSize, Len(t)) : t[i] \in Marks
      BY <1>4, <3>1 DEF Lesser
    <3>3. Lesser(Len(job[d].data) + TransferSize, Len(t)) \in Nat
      BY <3>1 DEF Lesser
    <3> QED BY <1>5, <3>1, <3>2, <3>3 DEF Chunk
  <2> QED BY <1>4, <1>6, <2>1
<1>12. Carries(j)
  BY <1>2, <1>6, <1>9, <1>11 DEF Carries, Untransferred
<1>13. Moved(d)'
  <2>1. Begins(job[d].data, t)
    BY <1>1, <1>3 DEF Transfers, Moved
  <2>2. Begins(w, t) /\ (x = "store" => w = t)
    BY <1>10, <2>1
  <2>3. job'[d].at = x /\ job'[d].data = w /\ P(d)' = P(d) /\ disk'[P(d)'] = t /\ OnDisk(d)'
    BY <1>1, <1>3, <1>8, <1>9 DEF P, OnDisk
  <2>4. job'[d].at = "read" => OnDisk(d)' /\ Begins(job'[d].data, disk'[P(d)'])
    BY <2>2, <2>3 DEF Begins
  <2>5. job'[d].at = "store" => OnDisk(d)' /\ job'[d].data = disk'[P(d)']
    BY <2>2, <2>3
  <2>6. job'[d].at \notin {"write", "done"}
    BY <1>6, <2>3
  <2> QED BY <2>4, <2>5, <2>6 DEF Moved, Begins
<1>14. FilesTyped' /\ (\A p \in DOMAIN disk : p \in DOMAIN disk' /\ disk'[p] = disk[p])
       /\ \A e \in DTBs : e # d => mem'[e] = mem[e]
  BY <1>1 DEF Transfers, FilesTyped
<1> QED BY <1>1, <1>2, <1>8, <1>9, <1>12, <1>13, <1>14, ServingKeeps

\* MDJ creates a file, or deletes one, that only this request is about.
LEMMA CreatesSteps == ASSUME Crossing, Transfers, NEW d \in DTBs, DAM_Crear(d) \/ DAM_Borrar(d) PROVE Transfers'
<1>1. job[d].at \in {"crear", "borrar"} /\ UNCHANGED <<cpu, history, mem>>
  BY DEF DAM_Crear, DAM_Borrar, Serving, cpus, memory
<1>2. Served(d) /\ Carries(job[d]) /\ IsJob(job[d]) /\ P(d) # Script /\ job[d].op = job[d].at
  BY <1>1, RequestKnown DEF IsJob, Ops
<1>3. PICK x \in {"done", "error"} : Goes(d, x)
  BY DEF DAM_Crear, DAM_Borrar
<1>4. PICK j : /\ job' = [job EXCEPT ![d] = j] /\ job'[d] = j /\ Carries(j)
               /\ j.at = x /\ j.op = job[d].op /\ j.path = job[d].path
  <2>1. x \notin Untransferred
    BY DEF Untransferred
  <2> QED BY <1>1, <1>3, <2>1, PlaceIs
<1>5. /\ \A p \in DOMAIN disk' : disk'[p] \in Seq(Marks)
      /\ \A p \in DOMAIN disk : p # P(d) => p \in DOMAIN disk' /\ disk'[p] = disk[p]
  <2>1. CASE disk' = disk
    BY <2>1 DEF Transfers, FilesTyped
  <2>2. CASE disk' = Without(disk, P(d))
    BY <2>2 DEF Without, Transfers, FilesTyped
  <2>3. CASE disk' = With(disk, P(d), Blank(job[d].n))
    <3>1. PICK n, s : n = job[d].n /\ s = Blank(n)
      OBVIOUS
    <3>2. s \in Seq(Marks)
      BY <1>2, <3>1, BlankIs DEF Carries
    <3>3. disk' = With(disk, P(d), s)
      BY <2>3, <3>1
    <3> QED BY <3>2, <3>3 DEF With, Transfers, FilesTyped
  <2> QED BY <2>1, <2>2, <2>3 DEF DAM_Crear, DAM_Borrar
<1>6. FilesTyped'
  BY <1>1, <1>5 DEF Transfers, FilesTyped
<1>7. Moved(d)'
  <2>1. job'[d].at \notin {"read", "store", "write"} /\ job'[d].op \notin {"abrir", "dummy", "flush"}
    BY <1>1, <1>2, <1>4
  <2> QED BY <2>1, NothingMoved
<1>8. \A p \in DOMAIN disk : p # P(d) \/ p = Script => p \in DOMAIN disk' /\ disk'[p] = disk[p]
  BY <1>2, <1>5
<1>9. \A e \in DTBs : e # d => mem'[e] = mem[e]
  BY <1>1
<1> QED BY <1>1, <1>2, <1>4, <1>6, <1>7, <1>8, <1>9, ServingKeeps

\* FM9 stores the file that was read, or has no room for it.
LEMMA StoresSteps == ASSUME Crossing, Transfers, NEW d \in DTBs, DAM_SendToFM9(d) PROVE Transfers'
<1>1. job[d].at = "store" /\ job[d].data # <<>> /\ UNCHANGED <<cpu, history, disk>>
  BY DEF DAM_SendToFM9, Serving, cpus
<1>2. Served(d) /\ Carries(job[d]) /\ IsJob(job[d]) /\ P(d) = job[d].path
  BY <1>1, RequestKnown
<1>3. CASE UNCHANGED mem /\ Goes(d, "error")
  <2>1. "error" \notin Untransferred
    BY DEF Untransferred
  <2>2. PICK j : job'[d] = j /\ j.at = "error"
    BY <1>1, <1>3, <2>1, PlaceIs
  <2>3. Moved(d)'
    BY <2>2, NothingMoved
  <2> QED BY <1>1, <1>3, <2>1, <2>3, PlaceKeeps
<1>4. CASE mem' = [mem EXCEPT ![d] = With(@, P(d), job[d].data)] /\ Goes(d, "done")
  <2>1. PICK j : /\ job' = [job EXCEPT ![d] = j] /\ job'[d] = j /\ Carries(j)
                 /\ j.at = "done" /\ j.op = job[d].op /\ j.path = job[d].path
    <3>1. "done" \notin Untransferred
      BY DEF Untransferred
    <3> QED BY <1>1, <1>4, <3>1, PlaceIs
  <2>2. PICK s : s = job[d].data
    OBVIOUS
  <2>3. s \in Seq(Marks) /\ s # <<>>
    BY <1>1, <1>2, <2>2 DEF Carries
  <2>4. mem'[d] = With(mem[d], P(d), s) /\ \A e \in DTBs : e # d => mem'[e] = mem[e]
    BY <1>4, <2>2 DEF Crossing, Typed, MemTyped
  <2>5. /\ DOMAIN mem'[d] = DOMAIN mem[d] \cup {P(d)} /\ mem'[d][P(d)] = s
        /\ \A q \in DOMAIN mem[d] : q # P(d) => mem'[d][q] = mem[d][q]
    BY <2>4 DEF With
  <2>6. FilesTyped'
    <3>1. \A p \in DOMAIN mem'[d] : mem'[d][p] \in Seq(Marks) /\ mem'[d][p] # <<>>
      BY <2>3, <2>5 DEF Transfers, FilesTyped
    <3> QED BY <1>1, <2>4, <3>1, FilesStay DEF Transfers
  <2>7. Moved(d)'
    <3>1. OnDisk(d) /\ s = disk[P(d)]
      BY <1>1, <2>2 DEF Transfers, Moved
    <3>2. job[d].op \in {"dummy", "abrir"}
      BY <1>1, <1>2 DEF IsJob
    <3>3. P(d)' = P(d) /\ job'[d].at = "done" /\ job'[d].op # "flush"
      BY <1>2, <2>1, <3>2 DEF P
    <3>4. OnDisk(d)' /\ InMem(d)' /\ mem'[d][P(d)'] = disk'[P(d)']
      BY <1>1, <2>5, <3>1, <3>3 DEF OnDisk, InMem
    <3> QED BY <3>3, <3>4 DEF Moved
  <2>8. \A p \in DOMAIN disk : p \in DOMAIN disk' /\ disk'[p] = disk[p]
    BY <1>1
  <2> QED BY <1>1, <1>2, <2>1, <2>4, <2>6, <2>7, <2>8, ServingKeeps
<1> QED BY <1>3, <1>4 DEF DAM_SendToFM9

\* FM9 gives the file that DAM will write.
LEMMA FetchesSteps == ASSUME Crossing, Transfers, NEW d \in DTBs, DAM_ReadFileFromFM9(d) PROVE Transfers'
<1>1. job[d].at = "flush" /\ UNCHANGED <<cpu, history, disk, mem>>
  BY DEF DAM_ReadFileFromFM9, Serving, cpus, memory
<1>2. Served(d) /\ Carries(job[d]) /\ IsJob(job[d]) /\ P(d) = job[d].path
  BY <1>1, RequestKnown
<1>3. CASE P(d) \notin DOMAIN mem[d]
  <2>1. "error" \notin Untransferred /\ Goes(d, "error")
    BY <1>3 DEF Untransferred, DAM_ReadFileFromFM9
  <2>2. PICK j : job'[d] = j /\ j.at = "error"
    BY <1>1, <2>1, PlaceIs
  <2>3. Moved(d)'
    BY <2>2, NothingMoved
  <2> QED BY <1>1, <2>1, <2>3, PlaceKeeps
<1>4. CASE P(d) \in DOMAIN mem[d]
  <2>1. PICK s : s = mem[d][P(d)]
    OBVIOUS
  <2>2. PICK j : j = [job[d] EXCEPT !.at = "write", !.data = s, !.n = 0]
    OBVIOUS
  <2>3. job' = [job EXCEPT ![d] = j] /\ job'[d] = j
    BY <1>4, <2>1, <2>2 DEF DAM_ReadFileFromFM9, Crossing, Typed, JobsTyped
  <2>4. j.at = "write" /\ j.data = s /\ j.n = 0 /\ j.path = job[d].path
    BY <1>2, <2>2 DEF IsJob
  <2>5. s \in Seq(Marks) /\ Len(s) \in Nat
    BY <1>4, <2>1 DEF Transfers, FilesTyped
  <2>6. Carries(j)
    BY <2>4, <2>5 DEF Carries, Untransferred
  <2>7. Moved(d)'
    <3>1. P(d)' = P(d) /\ job'[d].at = "write" /\ job'[d].data = s /\ job'[d].n = 0
      BY <1>2, <2>3, <2>4 DEF P
    <3>2. InMem(d)' /\ mem'[d][P(d)'] = s
      BY <1>1, <1>4, <2>1, <3>1 DEF InMem
    <3> QED BY <2>5, <3>1, <3>2 DEF Moved
  <2>8. FilesTyped' /\ (\A p \in DOMAIN disk : p \in DOMAIN disk' /\ disk'[p] = disk[p])
        /\ \A e \in DTBs : e # d => mem'[e] = mem[e]
    BY <1>1 DEF Transfers, FilesTyped
  <2> QED BY <1>1, <1>2, <2>3, <2>4, <2>6, <2>7, <2>8, ServingKeeps
<1> QED BY <1>3, <1>4

\* A chunk is written in MDJ, over what the file has there, until FM9 had no more.
LEMMA WritesSteps == ASSUME Crossing, Transfers, NEW d \in DTBs, DAM_Flush(d) PROVE Transfers'
<1>1. job[d].at = "write" /\ UNCHANGED <<cpu, history, mem>>
  BY DEF DAM_Flush, Serving, cpus, memory
<1>2. Served(d) /\ Carries(job[d]) /\ IsJob(job[d]) /\ P(d) = job[d].path /\ P(d) # Script
      /\ job[d].op = "flush"
  <2>1. job[d].op = "flush"
    BY <1>1, RequestKnown DEF IsJob
  <2> QED BY <1>1, <2>1, RequestKnown
<1>3. PICK s \in Seq(Marks), n \in Nat : s = job[d].data /\ n = job[d].n
  BY <1>2 DEF Carries
<1>4. s \in Seq(Marks) /\ n \in Nat /\ Len(s) \in Nat /\ n <= Len(s)
  BY <1>1, <1>3 DEF Transfers, Moved
<1>5. PICK chunk : chunk = Chunk(s, n)
  OBVIOUS
<1>6. /\ chunk \in Seq(Marks) /\ n + Len(chunk) <= Len(s) /\ Len(chunk) \in Nat
      /\ \A i \in 1 .. Len(chunk) : chunk[i] = s[n + i]
      /\ chunk = <<>> <=> n = Len(s)
  <2>1. /\ chunk \in Seq(Marks) /\ n + Len(chunk) <= Len(s)
        /\ \A i \in 1 .. Len(chunk) : chunk[i] = s[n + i]
        /\ chunk = <<>> <=> n = Len(s)
    <3>1. n <= Len(s) /\ chunk = Chunk(s, n)
      BY <1>4, <1>5
    <3>2. chunk \in Seq(Marks)
      BY <3>1, ChunkIs
    <3>3. n + Len(chunk) <= Len(s)
      BY <3>1, ChunkIs
    <3>4. \A i \in 1 .. Len(chunk) : chunk[i] = s[n + i]
      BY <3>1, ChunkIs
    <3>5. chunk = <<>> <=> n = Len(s)
      BY <3>1, ChunkIs
    <3> QED BY <3>2, <3>3, <3>4, <3>5
  <2> QED BY <2>1
<1>7. n > 0 => /\ OnDisk(d) /\ n <= Len(disk[P(d)])
               /\ \A i \in 1 .. n : disk[P(d)][i] = s[i]
  BY <1>1, <1>3 DEF Transfers, Moved
<1>8. d \notin Exempt => InMem(d) /\ s = mem[d][P(d)]
  BY <1>1, <1>3 DEF Transfers, Moved
<1>9. CASE Goes(d, "error") /\ UNCHANGED disk
  <2>1. "error" \notin Untransferred
    BY DEF Untransferred
  <2>2. PICK j : job'[d] = j /\ j.at = "error"
    BY <1>1, <1>9, <2>1, PlaceIs
  <2>3. Moved(d)'
    BY <2>2, NothingMoved
  <2> QED BY <1>1, <1>9, <2>1, <2>3, PlaceKeeps
<1>10. CASE chunk = <<>> /\ Goes(d, "done") /\ UNCHANGED disk
  <2>1. "done" \notin Untransferred
    BY DEF Untransferred
  <2>2. PICK j : job'[d] = j /\ j.at = "done" /\ j.op = job[d].op /\ j.path = job[d].path
    BY <1>1, <1>10, <2>1, PlaceIs
  <2>3. Moved(d)'
    <3>1. P(d)' = P(d) /\ job'[d].at = "done" /\ job'[d].op = "flush"
      BY <1>2, <2>2 DEF P
    <3>2. ASSUME d \notin Exempt PROVE OnDisk(d)' /\ InMem(d)' /\ Begins(mem'[d][P(d)'], disk'[P(d)'])
      <4>1. InMem(d) /\ s = mem[d][P(d)] /\ s # <<>>
        BY <1>8, <3>2 DEF Transfers, FilesTyped, InMem
      <4>2. n = Len(s) /\ n > 0
        BY <1>4, <1>6, <1>10, <4>1
      <4>3. OnDisk(d) /\ Begins(s, disk[P(d)])
        BY <1>7, <4>2 DEF Begins
      <4>4. OnDisk(d)' /\ InMem(d)'
        BY <1>1, <1>10, <3>1, <4>1, <4>3 DEF OnDisk, InMem
      <4>5. mem'[d][P(d)'] = s /\ disk'[P(d)'] = disk[P(d)]
        BY <1>1, <1>10, <3>1, <4>1
      <4> QED BY <4>3, <4>4, <4>5 DEF Begins
    <3>3. Exempt' = Exempt
      BY <1>1
    <3> QED BY <3>1, <3>2, <3>3 DEF Moved, Begins
  <2> QED BY <1>1, <1>10, <2>1, <2>3, PlaceKeeps
<1>11. CASE /\ chunk # <<>> /\ P(d) \in DOMAIN disk
            /\ disk' = [disk EXCEPT ![P(d)] = Overlay(@, job[d].n, chunk)]
            /\ job' = [job EXCEPT ![d].n = @ + Len(chunk)]
  <2>1. PICK old, new, m : old = disk[P(d)] /\ new = Overlay(old, n, chunk) /\ m = n + Len(chunk)
    OBVIOUS
  <2>2. PICK j : j = [job[d] EXCEPT !.n = m]
    OBVIOUS
  <2>3. job' = [job EXCEPT ![d] = j] /\ job'[d] = j
    BY <1>3, <1>11, <2>1, <2>2 DEF Crossing, Typed, JobsTyped
  <2>4. j.at = "write" /\ j.data = s /\ j.n = m /\ j.path = job[d].path
    BY <1>1, <1>2, <1>3, <2>2 DEF IsJob
  <2>5. m \in Nat /\ n <= m /\ m <= Len(s)
    BY <1>4, <1>6, <2>1
  <2>6. Carries(j)
    BY <1>4, <2>4, <2>5 DEF Carries, Untransferred
  <2>7. old \in Seq(Marks) /\ n <= Len(old)
    <3>1. old \in Seq(Marks) /\ Len(old) \in Nat
      BY <1>11, <2>1 DEF Transfers, FilesTyped
    <3>2. CASE n > 0
      BY <1>7, <2>1, <3>1, <3>2
    <3>3. CASE ~(n > 0)
      BY <1>4, <3>1, <3>3
    <3> QED BY <3>1, <3>2, <3>3
  <2>8. /\ new \in Seq(Marks) /\ m <= Len(new)
        /\ \A i \in 1 .. n : new[i] = old[i]
        /\ \A i \in n + 1 .. m : new[i] = chunk[i - n]
    <3>1. new = Overlay(old, n, chunk) /\ n <= Len(old) /\ old \in Seq(Marks) /\ chunk \in Seq(Marks)
      BY <1>6, <2>1, <2>7
    <3>2. /\ new \in Seq(Marks) /\ n + Len(chunk) <= Len(new)
          /\ \A i \in 1 .. n : new[i] = old[i]
          /\ \A i \in n + 1 .. n + Len(chunk) : new[i] = chunk[i - n]
      BY <3>1, OverlayIs
    <3> QED BY <2>1, <3>2
  <2>9. ASSUME NEW i \in 1 .. m PROVE new[i] = s[i]
    <3>1. CASE i <= n
      <4>1. i \in 1 .. n /\ n > 0
        BY <1>4, <2>5, <2>9, <3>1
      <4> QED BY <1>7, <2>1, <2>8, <4>1
    <3>2. CASE i > n
      <4>1. PICK k \in 1 .. Len(chunk) : i = n + k /\ k = i - n
        <5>1. i - n \in 1 .. Len(chunk) /\ i = n + (i - n)
          BY <1>4, <1>6, <2>1, <2>5, <2>9, <3>2
        <5> QED BY <5>1
      <4>2. i \in n + 1 .. m
        BY <1>4, <2>5, <2>9, <3>2
      <4> QED BY <1>6, <2>8, <4>1, <4>2
    <3> QED BY <1>4, <2>9, <3>1, <3>2
  <2>10. /\ DOMAIN disk' = DOMAIN disk /\ disk'[P(d)] = new
         /\ \A p \in DOMAIN disk : p # P(d) => disk'[p] = disk[p]
    BY <1>3, <1>11, <2>1
  <2>11. FilesTyped'
    BY <1>1, <2>8, <2>10 DEF Transfers, FilesTyped
  <2>12. Moved(d)'
    <3>1. P(d)' = P(d) /\ job'[d].at = "write" /\ job'[d].data = s /\ job'[d].n = m
      BY <1>2, <2>3, <2>4 DEF P
    <3>2. OnDisk(d)' /\ disk'[P(d)'] = new
      BY <1>11, <2>10, <3>1 DEF OnDisk
    <3>3. d \notin Exempt' => InMem(d)' /\ s = mem'[d][P(d)']
      BY <1>1, <1>8, <3>1 DEF InMem
    <3> QED BY <2>5, <2>8, <2>9, <3>1, <3>2, <3>3 DEF Moved
  <2>13. \A p \in DOMAIN disk : p # P(d) \/ p = Script => p \in DOMAIN disk' /\ disk'[p] = disk[p]
    BY <1>2, <2>10
  <2>14. \A e \in DTBs : e # d => mem'[e] = mem[e]
    BY <1>1
  <2> QED BY <1>1, <1>2, <2>3, <2>4, <2>6, <2>11, <2>12, <2>13, <2>14, ServingKeeps
<1> QED BY <1>3, <1>5, <1>9, <1>10, <1>11 DEF DAM_Flush

\* DAM answers: what it moved is not looked at any more.
LEMMA AnswersSteps ==
  ASSUME Crossing, Transfers, NEW d \in DTBs, SendsHeader(d) \/ SendsBody(d) \/ DAM_ErrorOperacion(d)
  PROVE  Transfers'
<1>1. UNCHANGED <<cpu, history, disk, mem>> /\ job[d].at # "none"
  BY DEF SendsHeader, SendsBody, DAM_ErrorOperacion, Serving, HeaderSent, cpus, memory
<1>2. ASSUME NEW x, x \in {"doneHeader", "errorHeader", "release"}, Goes(d, x) PROVE Transfers'
  <2>1. x \notin Untransferred
    BY <1>2 DEF Untransferred
  <2>2. PICK j : job'[d] = j /\ j.at = x
    <3>1. Goes(d, x) /\ job[d].at # "none"
      BY <1>1, <1>2
    <3>2. x \in Untransferred => job[d].data = <<>>
      BY <2>1
    <3>3. \E j : /\ job' = [job EXCEPT ![d] = j] /\ job'[d] = j /\ Carries(j)
                /\ j.at = x /\ j.op = job[d].op /\ j.path = job[d].path /\ j.n = job[d].n
                /\ j.data = job[d].data
      BY <3>1, <3>2, PlaceIs
    <3> QED BY <3>3
  <2>3. Moved(d)'
    BY <1>2, <2>2, NothingMoved
  <2> QED BY <1>1, <1>2, <2>1, <2>3, PlaceKeeps
<1>3. CASE job' = [job EXCEPT ![d] = Nothing]
  <2>1. job'[d].at = "none"
    BY <1>3, AtNothing DEF Crossing, Typed, JobsTyped
  <2>2. Moved(d)'
    BY <2>1, NothingMoved
  <2>3. FilesTyped' /\ Served(d)
    BY <1>1, RequestKnown DEF Transfers, FilesTyped
  <2>4. /\ \A p \in DOMAIN disk : p \in DOMAIN disk' /\ disk'[p] = disk[p]
        /\ \A e \in DTBs : e # d => mem'[e] = mem[e]
    BY <1>1
  <2> QED BY <1>1, <1>3, <2>2, <2>3, <2>4, ServingKeeps
<1> QED BY <1>2, <1>3 DEF SendsHeader, SendsBody, DAM_ErrorOperacion

\* At the start nothing is asked.
LEMMA TransfersInit == ASSUME Init PROVE Transfers
<1>1. PICK s, n : s = Blank(1) /\ n = 1
  OBVIOUS
<1>2. s \in Seq(Marks)
  BY <1>1, BlankIs
<1>3. \A p \in DOMAIN ScriptOnly : ScriptOnly[p] \in Seq(Marks)
  BY <1>1, <1>2 DEF ScriptOnly, With, NoFiles
<1>4. \A p \in DOMAIN disk : disk[p] \in Seq(Marks)
  <2>1. CASE disk = ScriptOnly
    BY <1>3, <2>1
  <2>2. ASSUME NEW p \in Paths, NEW k \in Sizes, disk = With(ScriptOnly, p, Blank(k))
        PROVE  \A q \in DOMAIN disk : disk[q] \in Seq(Marks)
    <3>1. PICK t : t = Blank(k)
      OBVIOUS
    <3>2. t \in Seq(Marks)
      BY <3>1, BlankIs, OperationsAssumption
    <3>3. disk = With(ScriptOnly, p, t)
      BY <2>2, <3>1
    <3> QED BY <1>3, <3>2, <3>3 DEF With
  <2> QED BY <2>1, <2>2 DEF Init
<1>5. FilesTyped
  <2>1. \A d \in DTBs : DOMAIN mem[d] = {}
    BY DEF Init, NoFiles
  <2> QED BY <1>4, <2>1 DEF FilesTyped
<1>6. (\A d \in DTBs : job[d] = Nothing) /\ \A c \in CPUs : cpu[c].asks = Nothing
  BY DEF Init
<1>7. RequestsTyped /\ PathsApart
  BY <1>6 DEF RequestsTyped, PathsApart, Served, Asks
<1>8. \A d \in DTBs : Moved(d)
  BY <1>6, AtNothing DEF Moved
<1> QED BY <1>5, <1>7, <1>8 DEF Transfers

\* Every step keeps what the transfers are.
LEMMA TransfersStep == ASSUME Crossing, Transfers, [Next]_vars PROVE Transfers'
<1>1. ASSUME NEW c \in CPUs, NEW d \in DTBs, Dispatches(c, d) \/ FreesGDT(c, d) PROVE Transfers'
  BY <1>1, CPUSteps
<1>2. ASSUME NEW c \in CPUs, NEW d \in DTBs, ExecutesDummy(c, d) PROVE Transfers'
  BY <1>2, DummySteps
<1>3. CASE SAFAReceives \/ (\E c \in CPUs : Comms_CPU(c)) \/ UNCHANGED vars
  BY <1>3, KeptSteps
<1>4. ASSUME NEW c \in CPUs, Executes(c) PROVE Transfers'
  <2>1. ASSUME EndsScript(c) \/ ExecutesLine(c) \/ EndsQuantum(c) \/ BlocksDummy(c) \/ Blocks(c)
               \/ \E p \in Paths : CommandFails(c, p)
        PROVE  Transfers'
    BY <2>1, CPUSteps
  <2>2. ASSUME NEW p \in Paths, CommandAbrir(c, p) \/ CommandFlush(c, p) \/ CommandBorrar(c, p) PROVE Transfers'
    <3>1. PICK op : Command(c, op, p, 0)
      BY <2>2 DEF CommandAbrir, CommandFlush, CommandBorrar
    <3> QED BY <3>1, CommandSteps
  <2>3. ASSUME NEW p \in Paths, CommandCrear(c, p) PROVE Transfers'
    BY <2>3, CommandSteps, OperationsAssumption DEF CommandCrear
  <2>4. ASSUME NEW p \in Paths, CommandClose(c, p) \/ \E i \in Sizes : CommandAsignar(c, p, i) PROVE Transfers'
    BY <2>4, MemorySteps
  <2>5. CASE Requests(c)
    BY <2>5, RequestsSteps
  <2> QED BY <1>4, <2>1, <2>2, <2>3, <2>4, <2>5 DEF Executes
<1>5. ASSUME NEW d \in DTBs, Serves(d) PROVE Transfers'
  BY <1>5, TakesSteps, CreatesSteps, ReadSteps, StoresSteps, FetchesSteps, WritesSteps, AnswersSteps DEF Serves
<1>6. ASSUME NEW d \in DTBs, FM9_CloseDTB(d) PROVE Transfers'
  BY <1>6, ReleaseSteps
<1> QED BY <1>1, <1>2, <1>3, <1>4, <1>5, <1>6 DEF Next, Plans, Finalizar

\* What DAM has moved, in chunks and between the steps of everybody else, is whole when it says so.
THEOREM TransfersInvariant == Spec => []TransfersAreWhole
<1>1. Init => Crossing /\ Transfers
  BY CrossingInit, TransfersInit
<1>2. (Crossing /\ Transfers) /\ [Next]_vars => (Crossing /\ Transfers)'
  BY CrossingStep, TransfersStep
<1>3. ASSUME Transfers PROVE TransfersAreWhole
  <2> SUFFICES ASSUME NEW d \in DTBs \ Exempt, job[d].at = "done"
               PROVE  /\ job[d].op \in {"abrir", "dummy"} => mem[d][P(d)] = disk[P(d)]
                      /\ job[d].op = "flush" =>
                           /\ Len(mem[d][P(d)]) <= Len(disk[P(d)])
                           /\ SubSeq(disk[P(d)], 1, Len(mem[d][P(d)])) = mem[d][P(d)]
    BY DEF TransfersAreWhole, Serving
  <2>1. CASE job[d].op \in {"abrir", "dummy"}
    BY <1>3, <2>1 DEF Transfers, Moved
  <2>2. CASE job[d].op = "flush"
    <3>1. PICK s, t : s = mem[d][P(d)] /\ t = disk[P(d)]
      OBVIOUS
    <3>2. OnDisk(d) /\ InMem(d) /\ Begins(s, t)
      BY <1>3, <2>2, <3>1 DEF Transfers, Moved
    <3>3. s \in Seq(Marks) /\ t \in Seq(Marks)
      BY <1>3, <3>1, <3>2 DEF Transfers, FilesTyped, OnDisk, InMem
    <3>4. PICK u : u = SubSeq(t, 1, Len(s))
      OBVIOUS
    <3>5. u \in Seq(Marks) /\ Len(u) = Len(s) /\ \A i \in 1 .. Len(s) : u[i] = s[i]
      BY <3>2, <3>3, <3>4 DEF Begins
    <3>6. u = s
      BY <3>3, <3>5
    <3> QED BY <2>2, <3>1, <3>2, <3>4, <3>6 DEF Begins
  <2> QED BY <2>1, <2>2
<1> QED BY <1>1, <1>2, <1>3, PTL DEF Spec
=============================================================================
