------------------------------- MODULE Operations -------------------------------
(***************************************************************************)
(* How an operation on a file crosses the system: the CPU that executes a  *)
(* script (CPU/main.c, CPU/bibliotecaCPU.c) blocks the DTB at SAFA and     *)
(* asks DAM; a thread of DAM (DAM/DAMInterface.c) moves the file between   *)
(* MDJ and FM9, a chunk at a time, and answers SAFA.                       *)
(*                                                                         *)
(* A script is any sequence of lines; a file is a sequence of lines.  SAFA *)
(* is reduced to where a DTB is and to its table of open files (its        *)
(* threads are in Scheduling, wait and signal in Resources), MDJ to its    *)
(* files (FileSystem), FM9 to the files a DTB has in memory (Segmentation, *)
(* Paging).  Their replies come at once.                                   *)
(*                                                                         *)
(* The BLOCKDTB of a CPU and the answer of DAM come through two sockets,   *)
(* and SAFA handles each as a job of a pool of threads: the answer may be  *)
(* handled first.  Where SAFA would follow a NULL or exit, the model ends. *)
(*                                                                         *)
(* Environment: the scripts exclude each other with wait and signal, so    *)
(* that DAM never serves two requests on one path at once.                 *)
(***************************************************************************)
EXTENDS Integers, Sequences, FiniteSets

CONSTANTS
    DTBs, CPUs,
    None,         \* no DTB
    Paths,        \* the files that scripts name
    Script,       \* the path of a script
    Threads,      \* the threads of DAM's pool: how many
    Quantum,
    TransferSize, \* settings->transferSize, in lines
    Sizes,        \* bound: the lines of the files that are created
    Lines,        \* bound: the lines of a script
    MaxKills,     \* bound: the DTBs that the console ends
    Preempted     \* may a thread of DAM be stopped between the two sends of a message?

ASSUME OperationsAssumption ==
    /\ Threads \in Nat \ {0} /\ Quantum \in Nat \ {0} /\ TransferSize \in Nat \ {0}
    /\ Sizes \subseteq Nat \ {0} /\ Lines \in Nat /\ MaxKills \in Nat
    /\ Preempted \in BOOLEAN /\ Script \notin Paths

VARIABLES
    place,   \* SAFA: place[d]
    table,   \* SAFA: the open files of d
    unread,  \* unread[c]: the BLOCKDTB or BLOCKDUMMY of c that SAFA has not handled, or "none"
    fallen,  \* did SAFA look for a DTB where it is not?
    cpu,     \* cpu[c]: its loop, and the copy of the table it works on
    left,    \* the lines d's script still has
    job,     \* job[d]: the request that DAM serves for d
    wire,    \* what was sent and not yet read on DAM's connection with SAFA
    disk,    \* MDJ: the contents of the files that exist
    mem,     \* FM9: mem[d], the contents of the files d has in memory
    closing, \* the DTBs with a CLOSEDTB on its way to FM9
    killed,  \* the DTBs that the console ended
    overtaken \* the DTBs whose BLOCKDTB or BLOCKDUMMY was handled after what follows it

safa == <<place, table, unread, fallen>>
cpus == <<cpu, left>>
dam == <<job, wire>>
memory == <<mem, closing>>
history == <<killed, overtaken>>
vars == <<safa, cpus, dam, disk, memory, history>>

Nothing == [at |-> "none"]
NoFiles == [p \in {} |-> <<>>]
With(f, p, content) == [q \in DOMAIN f \cup {p} |-> IF q = p THEN content ELSE f[q]]
Without(f, p) == [q \in DOMAIN f \ {p} |-> f[q]]
Lesser(m, n) == IF m < n THEN m ELSE n
Blank(n) == [i \in 1..n |-> "blank"]

(***************************************************************************)
(* SAFA.                                                                   *)
(***************************************************************************)
\* A DTB that is in none of the lists is a NULL, or the "ERROR CRITICO" that exits.
Moves(d, from, to) ==
    IF place[d] \in from
      THEN place' = [place EXCEPT ![d] = to] /\ UNCHANGED fallen
      ELSE fallen' = TRUE /\ UNCHANGED place

\* A CPU that SAFA knows to be idle: it handled what the CPU said last.
Idle(c) == cpu[c].at = "idle" /\ unread[c] = "none"

\* The dummy is in EXEC, with the id of d.
DummyHas(d) == \E e \in CPUs : cpu[e].dtb = d /\ (cpu[e].at = "dummy" \/ unread[e] = "BLOCKDUMMY")

\* The planners send a READY DTB to an idle CPU, with its table of open files.  What the lists
\* do with two DTBs of one id in EXEC is in Scheduling.
Dispatches(c, d) ==
    /\ Idle(c) /\ place[d] = "ready"
    /\ overtaken' = IF DummyHas(d) THEN overtaken \cup {d} ELSE overtaken
    /\ place' = [place EXCEPT ![d] = "exec"]
    /\ cpu' = [cpu EXCEPT ![c] = [at |-> "runs", dtb |-> d, quantum |-> Quantum,
                                  open |-> table[d], asks |-> Nothing, said |-> 0]]
    /\ UNCHANGED <<table, unread, fallen, left, dam, disk, memory, killed>>

\* "finalizar": an idle CPU is told to have FM9 release the DTB's memory.
FreesGDT(c, d) ==
    /\ Idle(c) /\ place[d] \in {"ready", "exec", "blocked"} /\ Cardinality(killed) < MaxKills
    /\ killed' = killed \cup {d}
    /\ place' = [place EXCEPT ![d] = "ended"]
    /\ closing' = closing \cup {d}
    /\ UNCHANGED <<table, unread, fallen, cpus, dam, disk, mem, overtaken>>

(***************************************************************************)
(* The CPU.                                                                *)
(***************************************************************************)
Runs(c) == cpu[c].at = "runs"
D(c) == cpu[c].dtb

\* DAM learns of the load before SAFA learns that the CPU is free, and the dummy with it.
Asked(op, p, n) == [at |-> "queued", op |-> op, path |-> p, n |-> n, data |-> <<>>]
ExecutesDummy(c, d) ==
    /\ Idle(c) /\ place[d] = "new" /\ \A e \in DTBs : ~DummyHas(e)
    /\ place' = [place EXCEPT ![d] = "loading"]
    /\ job' = [job EXCEPT ![d] = Asked("dummy", Script, 0)]
    /\ cpu' = [cpu EXCEPT ![c].at = "dummy", ![c].dtb = d, ![c].said = 0]
    /\ UNCHANGED <<table, unread, fallen, left, wire, disk, memory, history>>

BlocksDummy(c) ==
    /\ cpu[c].at = "dummy"
    /\ unread' = [unread EXCEPT ![c] = "BLOCKDUMMY"]
    /\ cpu' = [cpu EXCEPT ![c].at = "idle", ![c].said = @ + 1]
    /\ UNCHANGED <<place, table, fallen, left, dam, disk, memory, history>>

\* A line: the program counter and the quantum move before it is executed.
Fetches(c) ==
    /\ Runs(c) /\ cpu[c].quantum > 0 /\ left[D(c)] > 0 /\ Script \in DOMAIN mem[D(c)]
    /\ left' = [left EXCEPT ![D(c)] = @ - 1]
GoesOn(c) == [cpu[c] EXCEPT !.quantum = @ - 1]
\* MUTANT of Stops: commandResult is left as it was, and the loop goes on.
StopsNot(c) == [GoesOn(c) EXCEPT !.said = @ + 1]
Stops(c) == [GoesOn(c) EXCEPT !.at = "idle", !.said = @ + 1]

\* The lists where SAFA looks for a DTB that is over.
Alive == {"loading", "ready", "exec", "blocked"}
\* MUTANT of CPU_EndDTB: SAFA alone is told.
CPU_EndDTBAtSAFA(d) ==
    /\ Moves(d, Alive, "ended")
    /\ UNCHANGED <<closing, table, unread, mem>>
\* To SAFA, that the DTB is over; to FM9, that it releases its memory.
CPU_EndDTB(d) ==
    /\ Moves(d, Alive, "ended")
    /\ closing' = closing \cup {d}
    /\ UNCHANGED <<table, unread, mem>>

Aborts(c) ==
    /\ CPU_EndDTB(D(c))
    /\ cpu' = [cpu EXCEPT ![c] = Stops(c)]

\* No line is left, or FM9 does not have it.
EndsScript(c) ==
    /\ Runs(c) /\ cpu[c].quantum > 0
    /\ left[D(c)] = 0 \/ Script \notin DOMAIN mem[D(c)]
    /\ Aborts(c)
    /\ UNCHANGED <<left, dam, disk, history>>

\* concentrar, a wait that is granted, a signal, "abrir" of an open file.
ExecutesLine(c) ==
    /\ Fetches(c)
    /\ cpu' = [cpu EXCEPT ![c] = GoesOn(c)]
    /\ UNCHANGED <<safa, dam, disk, memory, history>>

\* flush, asignar or close of a file that is not open.
CommandFails(c, p) ==
    /\ Fetches(c) /\ p \notin cpu[c].open
    /\ Aborts(c)
    /\ UNCHANGED <<dam, disk, history>>

\* FM9 has no such line, or the data do not fit in it.
CommandAsignar(c, p, i) ==
    /\ Fetches(c) /\ p \in cpu[c].open
    /\ \/ /\ p \in DOMAIN mem[D(c)] /\ i <= Len(mem[D(c)][p])
          /\ mem' = [mem EXCEPT ![D(c)][p][i] = "written"]
          /\ cpu' = [cpu EXCEPT ![c] = GoesOn(c)]
          /\ UNCHANGED <<safa, closing>>
       \/ Aborts(c)
    /\ UNCHANGED <<dam, disk, history>>

\* An error of FM9 ends the DTB, but leaves commandResult as it was: the loop goes on.
CloseFails(c) == [GoesOn(c) EXCEPT !.said = @ + 1]
CommandClose(c, p) ==
    /\ Fetches(c) /\ p \in cpu[c].open
    /\ IF p \in DOMAIN mem[D(c)]
         THEN /\ mem' = [mem EXCEPT ![D(c)] = Without(@, p)]
              /\ cpu' = [cpu EXCEPT ![c] = [GoesOn(c) EXCEPT !.open = @ \ {p}]]
              /\ UNCHANGED <<safa, closing>>
         ELSE /\ CPU_EndDTB(D(c))
              /\ cpu' = [cpu EXCEPT ![c] = CloseFails(c)]
    /\ UNCHANGED <<dam, disk, history>>

\* MUTANT of TakesTable: SAFA keeps the table it had.
KeepsTable(c) == UNCHANGED table
\* SAFA takes the table of the CPU for that of the DTB.
TakesTable(c) == table' = [table EXCEPT ![D(c)] = cpu[c].open]

\* The scripts exclude each other.
Exclusive(p) ==
    /\ \A d \in DTBs : job[d] # Nothing => job[d].path # p
    /\ \A e \in CPUs : cpu[e].asks # Nothing => cpu[e].asks.path # p

\* MUTANT of Then: DAM is asked before SAFA is told.
ThenBackwards(at) ==
    CASE at = "runs" -> "tellsDAM"
      [] at = "tellsDAM" -> "tellsSAFA"
      [] at = "tellsSAFA" -> "idle"
\* An operation of DAM: SAFA is told to block the DTB, with the table of open files;
\* then DAM is asked.
Then(at) ==
    CASE at = "runs" -> "tellsSAFA"
      [] at = "tellsSAFA" -> "tellsDAM"
      [] at = "tellsDAM" -> "idle"
Command(c, op, p, n) ==
    /\ Fetches(c) /\ Exclusive(p)
    /\ cpu' = [cpu EXCEPT ![c] = [GoesOn(c) EXCEPT !.at = Then("runs"), !.asks = Asked(op, p, n)]]
    /\ UNCHANGED <<safa, dam, disk, memory, history>>
CommandAbrir(c, p) == p \notin cpu[c].open /\ Command(c, "abrir", p, 0)
CommandFlush(c, p) == p \in cpu[c].open /\ Command(c, "flush", p, 0)
CommandCrear(c, p) == \E n \in Sizes : Command(c, "crear", p, n)
CommandBorrar(c, p) == Command(c, "borrar", p, 0)

Blocks(c) ==
    /\ cpu[c].at = "tellsSAFA"
    /\ unread' = [unread EXCEPT ![c] = "BLOCKDTB"]
    /\ cpu' = [cpu EXCEPT ![c].at = Then(@), ![c].said = @ + 1]
    /\ UNCHANGED <<place, table, fallen, left, dam, disk, memory, history>>

Requests(c) ==
    /\ cpu[c].at = "tellsDAM"
    /\ job' = [job EXCEPT ![D(c)] = cpu[c].asks]
    /\ cpu' = [cpu EXCEPT ![c].at = Then(@), ![c].asks = Nothing]
    /\ UNCHANGED <<safa, left, wire, disk, memory, history>>

EndsQuantum(c) ==
    /\ Runs(c) /\ cpu[c].quantum = 0
    /\ Moves(D(c), {"exec", "blocked"}, "ready")
    /\ TakesTable(c)
    /\ cpu' = [cpu EXCEPT ![c].at = "idle", ![c].said = @ + 1]
    /\ UNCHANGED <<unread, left, dam, disk, memory, history>>

(***************************************************************************)
(* SAFA frees the CPU and the PCP looks for the DTB in EXEC; the dummy is  *)
(* let go.                                                                 *)
(***************************************************************************)
Handles(c, message) ==
    /\ unread[c] = message
    /\ unread' = [unread EXCEPT ![c] = "none"]
    /\ UNCHANGED <<cpus, dam, disk, memory, history>>
HandlesBlockDTB(c) ==
    /\ Handles(c, "BLOCKDTB")
    /\ Moves(D(c), {"exec"}, "blocked")
    /\ TakesTable(c)
HandlesBlockDummy(c) ==
    /\ Handles(c, "BLOCKDUMMY")
    /\ UNCHANGED <<place, table, fallen>>

(***************************************************************************)
(* A thread of DAM.                                                        *)
(***************************************************************************)
Serving(d, at) == job[d].at = at
P(d) == job[d].path
Goes(d, at) == job' = [job EXCEPT ![d].at = at]
Busy == {d \in DTBs : job[d] # Nothing /\ job[d].at # "queued"}
Takes(d) ==
    /\ Serving(d, "queued") /\ Cardinality(Busy) < Threads
    /\ Goes(d, job[d].op)
    /\ UNCHANGED <<safa, cpus, wire, disk, memory, history>>

\* MDJ has it, or no room or no metadata for it.
DAM_Crear(d) ==
    /\ Serving(d, "crear")
    /\ \/ /\ P(d) \notin DOMAIN disk
          /\ disk' = With(disk, P(d), Blank(job[d].n))
          /\ Goes(d, "done")
       \/ /\ UNCHANGED disk
          /\ Goes(d, "error")
    /\ UNCHANGED <<safa, cpus, wire, memory, history>>

DAM_Borrar(d) ==
    /\ Serving(d, "borrar")
    /\ disk' = Without(disk, P(d))
    /\ Goes(d, IF P(d) \in DOMAIN disk THEN "done" ELSE "error")
    /\ UNCHANGED <<safa, cpus, wire, memory, history>>

ChecksFile(d) ==
    /\ Serving(d, "abrir") \/ Serving(d, "dummy")
    /\ Goes(d, IF P(d) \in DOMAIN disk THEN "read" ELSE "error")
    /\ UNCHANGED <<safa, cpus, wire, disk, memory, history>>

\* A chunk from MDJ; an empty one is the end.  A file that is gone is asked for again, for ever.
Chunk(s, from) == SubSeq(s, from + 1, Lesser(from + TransferSize, Len(s)))
DAM_ReadFile(d) ==
    /\ Serving(d, "read") /\ P(d) \in DOMAIN disk
    /\ LET chunk == Chunk(disk[P(d)], Len(job[d].data)) IN
         job' = [job EXCEPT ![d].at = IF chunk = <<>> THEN "store" ELSE @,
                            ![d].data = @ \o chunk]
    /\ UNCHANGED <<safa, cpus, wire, disk, memory, history>>

\* FM9 keeps the file when it has its end, or has no room for it.  To the end of an
\* empty file it does not answer.
DAM_SendToFM9(d) ==
    /\ Serving(d, "store") /\ job[d].data # <<>>
    /\ \/ /\ mem' = [mem EXCEPT ![d] = With(@, P(d), job[d].data)]
          /\ Goes(d, "done")
       \/ /\ UNCHANGED mem
          /\ Goes(d, "error")
    /\ UNCHANGED <<safa, cpus, wire, disk, closing, history>>

\* FM9 reads the whole file before it sends the first chunk.
DAM_ReadFileFromFM9(d) ==
    /\ Serving(d, "flush")
    /\ IF P(d) \in DOMAIN mem[d]
         THEN job' = [job EXCEPT ![d].at = "write", ![d].data = mem[d][P(d)], ![d].n = 0]
         ELSE Goes(d, "error")
    /\ UNCHANGED <<safa, cpus, wire, disk, memory, history>>

\* MUTANT of Overlay: every chunk is written at the beginning.
OverlayAtTheStart(old, from, chunk) ==
    [i \in 1..(IF Len(old) > Len(chunk) THEN Len(old) ELSE Len(chunk)) |->
       IF i <= Len(chunk) THEN chunk[i] ELSE old[i]]
\* A chunk to MDJ, over what the file has there; n is the offset.
Overlay(old, from, chunk) ==
    [i \in 1..(IF Len(old) > from + Len(chunk) THEN Len(old) ELSE from + Len(chunk)) |->
       IF i \in from + 1 .. from + Len(chunk) THEN chunk[i - from] ELSE old[i]]
DAM_Flush(d) ==
    /\ Serving(d, "write")
    /\ LET chunk == Chunk(job[d].data, job[d].n) IN
         \/ /\ chunk = <<>>
            /\ Goes(d, "done")
            /\ UNCHANGED disk
         \/ /\ chunk # <<>> /\ P(d) \in DOMAIN disk
            /\ disk' = [disk EXCEPT ![P(d)] = Overlay(@, job[d].n, chunk)]
            /\ job' = [job EXCEPT ![d].n = @ + Len(chunk)]
         \/ /\ chunk # <<>>
            /\ Goes(d, "error")
            /\ UNCHANGED disk
    /\ UNCHANGED <<safa, cpus, wire, memory, history>>

(***************************************************************************)
(* The answer: SocketCommons_SendData sends a header and then a body, on   *)
(* a socket that all the threads of DAM share.  After an error FM9 is told *)
(* to release the DTB's memory (DAM_ErrorOperacion).                       *)
(***************************************************************************)
Succeeds(d) == job[d].at \in {"done", "doneHeader"}
Message(d) == [dtb |-> d, op |-> job[d].op, path |-> P(d), ok |-> Succeeds(d)]
HeaderSent(d) == job[d].at \in {"doneHeader", "errorHeader"}

SendsHeader(d) ==
    /\ Serving(d, "done") \/ Serving(d, "error")
    /\ Preempted \/ \A e \in DTBs : ~HeaderSent(e)
    /\ wire' = Append(wire, <<"header", Message(d)>>)
    /\ Goes(d, IF Succeeds(d) THEN "doneHeader" ELSE "errorHeader")
    /\ UNCHANGED <<safa, cpus, disk, memory, history>>

SendsBody(d) ==
    /\ HeaderSent(d)
    /\ wire' = Append(wire, <<"body", Message(d)>>)
    /\ IF Succeeds(d) THEN job' = [job EXCEPT ![d] = Nothing] ELSE Goes(d, "release")
    /\ UNCHANGED <<safa, cpus, disk, memory, history>>

DAM_ErrorOperacion(d) ==
    /\ Serving(d, "release")
    /\ closing' = closing \cup {d}
    /\ job' = [job EXCEPT ![d] = Nothing]
    /\ UNCHANGED <<safa, cpus, wire, disk, mem, history>>

\* SAFA reads a header and then the body; any other sequence it misreads.
IsWhole(pieces) ==
    /\ Len(pieces) >= 2
    /\ pieces[1][1] = "header" /\ pieces[2] = <<"body", pieces[1][2]>>
\* Where the DTB waits for the answer, and the lists where SAFA looks for it.
AnswersTo(m) == IF m.op = "dummy" THEN "loading" ELSE "blocked"
Searched(m) ==
    IF ~m.ok THEN Alive
    ELSE IF m.op = "dummy" THEN {"loading"} ELSE {"exec", "blocked"}
\* Its BLOCKDTB is still unread when the answer finds it in EXEC.
Overtakes(m) == m.op # "dummy" /\ place[m.dtb] = "exec"
Comms_DAM(m) ==
    /\ Moves(m.dtb, Searched(m), IF m.ok THEN "ready" ELSE "ended")
    /\ table' = IF m.ok /\ m.op = "abrir"
                  THEN [table EXCEPT ![m.dtb] = @ \cup {m.path}] ELSE table
    /\ overtaken' = IF Overtakes(m) THEN overtaken \cup {m.dtb} ELSE overtaken
SAFAReceives ==
    /\ ~fallen /\ IsWhole(wire)
    /\ Comms_DAM(wire[1][2])
    /\ wire' = SubSeq(wire, 3, Len(wire))
    /\ UNCHANGED <<cpus, unread, job, disk, memory, killed>>

FM9_CloseDTB(d) ==
    /\ ~fallen /\ d \in closing
    /\ closing' = closing \ {d}
    /\ mem' = [mem EXCEPT ![d] = NoFiles]
    /\ UNCHANGED <<safa, cpus, dam, disk, history>>

(***************************************************************************)
(* The specification.                                                      *)
(***************************************************************************)
ScriptOnly == With(NoFiles, Script, Blank(1))
Init ==
    /\ place = [d \in DTBs |-> "new"]
    /\ table = [d \in DTBs |-> {}]
    /\ unread = [c \in CPUs |-> "none"]
    /\ fallen = FALSE
    /\ cpu = [c \in CPUs |-> [at |-> "idle", dtb |-> None, quantum |-> 0,
                              open |-> {}, asks |-> Nothing, said |-> 1]]
    /\ left = [d \in DTBs |-> Lines]
    /\ job = [d \in DTBs |-> Nothing]
    /\ wire = <<>>
    /\ disk \in {ScriptOnly} \cup {With(ScriptOnly, p, Blank(n)) : p \in Paths, n \in Sizes}
    /\ mem = [d \in DTBs |-> NoFiles]
    /\ closing = {}
    /\ killed = {} /\ overtaken = {}

Executes(c) ==
    /\ ~fallen
    /\ \/ EndsScript(c) \/ ExecutesLine(c) \/ EndsQuantum(c)
       \/ \E p \in Paths :
            \/ CommandFails(c, p) \/ CommandClose(c, p)
            \/ \E i \in Sizes : CommandAsignar(c, p, i)
            \/ CommandAbrir(c, p) \/ CommandFlush(c, p)
            \/ CommandCrear(c, p) \/ CommandBorrar(c, p)
       \/ BlocksDummy(c) \/ Blocks(c) \/ Requests(c)

Serves(d) ==
    /\ ~fallen
    /\ \/ Takes(d) \/ DAM_Crear(d) \/ DAM_Borrar(d)
       \/ ChecksFile(d) \/ DAM_ReadFile(d) \/ DAM_SendToFM9(d)
       \/ DAM_ReadFileFromFM9(d) \/ DAM_Flush(d)
       \/ SendsHeader(d) \/ SendsBody(d) \/ DAM_ErrorOperacion(d)

Comms_CPU(c) == ~fallen /\ (HandlesBlockDTB(c) \/ HandlesBlockDummy(c))
Plans == ~fallen /\ \E c \in CPUs, d \in DTBs : Dispatches(c, d) \/ ExecutesDummy(c, d)
Finalizar == ~fallen /\ \E c \in CPUs, d \in DTBs : FreesGDT(c, d)

Next ==
    \/ Plans \/ SAFAReceives \/ Finalizar
    \/ \E c \in CPUs : Executes(c) \/ Comms_CPU(c)
    \/ \E d \in DTBs : Serves(d) \/ FM9_CloseDTB(d)

Spec == Init /\ [][Next]_vars

\* No thread stops for ever: those of the CPUs, of DAM and FM9, and SAFA's planners.
Fairness ==
    /\ WF_vars(Plans) /\ WF_vars(SAFAReceives)
    /\ \A c \in CPUs : WF_vars(Executes(c)) /\ WF_vars(Comms_CPU(c))
    /\ \A d \in DTBs : WF_vars(Serves(d)) /\ WF_vars(FM9_CloseDTB(d))
FairSpec == Spec /\ Fairness

(***************************************************************************)
(* Properties.                                                             *)
(***************************************************************************)
Requested == [at : {"queued"}, op : {"abrir", "flush", "crear", "borrar"}, path : Paths,
              n : Sizes \cup {0}, data : {<<>>}]

\* The type of every variable: a CPU holds no more quantum than it was given, and
\* what SAFA may still have to read is at most a message for each DTB.
TypeOK ==
    /\ place \in [DTBs -> {"new", "loading", "ready", "exec", "blocked", "ended"}]
    /\ table \in [DTBs -> SUBSET Paths]
    /\ unread \in [CPUs -> {"none", "BLOCKDTB", "BLOCKDUMMY"}] /\ fallen \in BOOLEAN
    /\ cpu \in [CPUs -> [at : {"idle", "dummy", "runs", "tellsSAFA", "tellsDAM"}, dtb : DTBs \cup {None},
                         quantum : 0..Quantum, open : SUBSET Paths,
                         asks : Requested \cup {Nothing}, said : 0 .. Lines + 2]]
    /\ left \in [DTBs -> 0..Lines]
    /\ \A d \in DTBs : job[d] # Nothing => P(d) \in Paths \cup {Script}
    /\ Len(wire) <= 2 * Cardinality(DTBs)
    /\ Script \in DOMAIN disk /\ DOMAIN disk \subseteq Paths \cup {Script}
    /\ \A d \in DTBs : DOMAIN mem[d] \subseteq Paths \cup {Script}
    /\ closing \subseteq DTBs /\ killed \subseteq DTBs /\ overtaken \subseteq DTBs

\* The DTBs that are promised nothing.
Exempt == killed \cup overtaken

\* CPU/main.c reports to SAFA exactly once per dispatch, whatever the line at which
\* the DTB stops (quantum, end of the script, error of FM9, operation of DAM): a
\* second report frees a CPU that another DTB has.  DTBs that "finalizar" ended are
\* exempt: there FM9 may refuse a close, and the CPU reports and goes on.
OneReport ==
    \A c \in CPUs : cpu[c].dtb \notin Exempt =>
        cpu[c].said = IF cpu[c].at \in {"idle", "tellsDAM"} THEN 1 ELSE 0

\* The table of open files that SAFA sends with a READY DTB is what FM9 has in memory
\* for it: the CPU's copy, the answer to "abrir" and FM9 never drift apart.
TablesAgree ==
    \A d \in DTBs \ Exempt :
        place[d] = "ready" => table[d] \cup {Script} = DOMAIN mem[d]

\* SAFA was told to block a DTB before DAM was asked to serve it: while DAM serves or answers
\* it, the DTB waits where SAFA will look for it, or its BLOCKDTB is among what SAFA has to handle.
ToldBy(c, d) == cpu[c].dtb = d /\ unread[c] = "BLOCKDTB"
Told(d) == \E c \in CPUs : ToldBy(c, d)
WaitsFor(d, m) == place[d] = AnswersTo(m) \/ (AnswersTo(m) = "blocked" /\ place[d] = "exec" /\ Told(d))
ToldBeforeAsked ==
    /\ \A d \in DTBs \ Exempt : job[d].at \notin {"none", "release"} => WaitsFor(d, job[d])
    /\ \A i \in 1..Len(wire) : LET m == wire[i][2] IN
         m.dtb \notin Exempt => WaitsFor(m.dtb, m)

\* SAFA finds every DTB that a message names, and neither follows a NULL nor leaves with
\* "ERROR CRITICO: No se encontro el DTB en ninguna cola" (Scheduling.c:826-830), unless
\* "finalizar" took the DTB away or DAM's answer overtook its BLOCKDTB.
FallsAreProvoked == fallen => Exempt # {}

\* "[E]so ya lo deberia haber avisado el CPU al pedir desalojo" (Communication.c:45 and 86): when
\* SAFA handles the answer of DAM it has handled the BLOCKDTB, and the DTB is in BLOCKED.
AnswersFindTheDTB ==
    [][SAFAReceives =>
         LET m == wire[1][2] IN m.dtb \notin Exempt => place[m.dtb] = AnswersTo(m)]_vars

\* A DTB that is over holds no memory of FM9 once its CLOSEDTB has been handled,
\* whoever ended it: the CPU, or DAM after an error.
EndedIsReleased ==
    \A d \in DTBs \ Exempt :
        place[d] = "ended" /\ job[d] = Nothing /\ d \notin closing => mem[d] = NoFiles

\* What DAM has moved in chunks is whole when it says so: an opened file is in FM9
\* as it is in MDJ, and a flushed one is in MDJ as it is in FM9.
TransfersAreWhole ==
    \A d \in DTBs \ Exempt :
        Serving(d, "done") =>
          /\ job[d].op \in {"abrir", "dummy"} => mem[d][P(d)] = disk[P(d)]
          /\ job[d].op = "flush" =>
               /\ Len(mem[d][P(d)]) <= Len(disk[P(d)])
               /\ SubSeq(disk[P(d)], 1, Len(mem[d][P(d)])) = mem[d][P(d)]

\* Every script gets to its end, as long as SAFA does not fall: no operation waits for ever
\* for an answer.
EveryScriptEnds == <>(\A d \in DTBs : place[d] = "ended" \/ d \in overtaken \/ fallen)

\* The messages of DAM's threads do not mix on their way to SAFA: a body follows its
\* own header.
MessagesDoNotMix ==
    \A i \in 2..Len(wire) :
        wire[i][1] = "body" => wire[i - 1] = <<"header", wire[i][2]>>
=============================================================================
