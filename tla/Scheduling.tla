----------------------------- MODULE Scheduling -----------------------------
(***************************************************************************)
(* The scheduler of the SAFA process (src/SAFA): the long-term planner     *)
(* thread (PLP), the short-term planner thread (PCP), the pool jobs that   *)
(* handle the messages of the CPUs and of the DAM, and the console         *)
(* commands "ejecutar" and "finalizar".                                    *)
(*                                                                         *)
(* The threads talk through two FIFO task queues (PLPtasks, PCPtasks) and, *)
(* beside each kind of task, a queue with the datum of the task: a handler *)
(* first pushes the datum, then posts the task, and the planner that takes *)
(* the task pops one datum.  The CPUs and the DAM are an environment that  *)
(* answers what it was asked, in any order and after any delay.            *)
(*                                                                         *)
(* Abstracted: the order in which the three policies (RR, VRR, PROPIO)     *)
(* pick from READY (any DTB of READY may be picked), the program counters, *)
(* quanta and open files of a DTB, and resources (wait/signal).  Not       *)
(* abstracted: the NULL dereferences and the exit(-1) of the planners,     *)
(* which end the process (variable failure), and inMemoryAmount++ and --,  *)
(* executed by two threads without a lock (a load and a later store).      *)
(***************************************************************************)
EXTENDS Integers, Sequences, FiniteSets

CONSTANTS
    CPUs,         \* the CPU processes (their sockets)
    InitialCPUs,  \* those connected before the first command
    FaultyCPUs,   \* those that may disconnect at any moment
    NoCPU,        \* not a CPU: the sender of a message of the DAM or console
    Degree,       \* settings->multiprogramacion
    MaxDTB,       \* BOUND: number of "ejecutar" commands
    MaxBursts,    \* BOUND: times a script leaves the CPU before it ends
    MaxFinalizar, \* BOUND: number of "finalizar" commands
    Overtaking    \* may SAFA handle the DAM's answer before the CPU's message?

ASSUME SchedulingAssumption ==
    /\ InitialCPUs \subseteq CPUs
    /\ FaultyCPUs \subseteq InitialCPUs
    /\ NoCPU \notin CPUs
    /\ Degree \in Nat /\ MaxDTB \in Nat /\ MaxBursts \in Nat
    /\ MaxFinalizar \in Nat
    /\ Overtaking \in BOOLEAN

VARIABLES
    PLPtasks, PCPtasks,          \* the task queues of the two planners
    scripts,                     \* number of paths in scriptsQueue
    dummiedQueue, toBeBlocked, toBeUnlocked, toBeEnded,  \* ids
    nextID, inMemoryAmount,
    NEWqueue,                    \* FIFO of ids
    beingDummied, READY, EXEC, BLOCKED, EXIT,  \* sets of ids of DTBs
    dummy,                       \* id and status of dummyDTB
    dummyIn,                     \* how many nodes of each list are the dummy
    plp, pcp,                    \* where each planner thread is, and its locals
    cpus, busy,                  \* connected CPUs, and those with busy = true
    deaf,                        \* CPUs whose next message no handler gets
    failure,                     \* which NULL dereference or exit ended SAFA
    running,                     \* what each CPU process executes
    jobs,                        \* messages and commands not yet fully handled
    dam,                         \* operations the DAM has not yet answered
    bursts,                      \* bursts left in each script
    finalizars                   \* "finalizar" commands still to be typed

tasks    == <<PLPtasks, PCPtasks>>
data     == <<scripts, dummiedQueue, toBeBlocked, toBeUnlocked, toBeEnded>>
lists    == <<NEWqueue, beingDummied, READY, EXEC, BLOCKED, EXIT>>
counters == <<nextID, inMemoryAmount>>
dummies  == <<dummy, dummyIn>>
threads  == <<plp, pcp>>
holder   == <<cpus, busy, deaf>>
outside  == <<running, jobs, dam, bursts, finalizars>>

vars == <<tasks, data, lists, counters, dummies, threads, holder, failure,
          outside>>

DTBs == 1..MaxDTB
DummyLists == {"READY", "EXEC", "BLOCKED", "EXIT"}
NotRunning == [kind |-> "idle", id |-> 0]
Waiting == [at |-> "wait", dtb |-> 0, reg |-> 0]

Init ==
    /\ PLPtasks = <<>> /\ PCPtasks = <<>>
    /\ scripts = 0
    /\ dummiedQueue = <<>> /\ toBeBlocked = <<>>
    /\ toBeUnlocked = <<>> /\ toBeEnded = <<>>
    /\ nextID = 1 /\ inMemoryAmount = 0
    /\ NEWqueue = <<>>
    /\ beingDummied = {} /\ READY = {} /\ EXEC = {} /\ BLOCKED = {} /\ EXIT = {}
    /\ dummy = [id |-> 0, status |-> "BLOCKED"]
    /\ dummyIn = [l \in DummyLists |-> 0]
    /\ plp = Waiting /\ pcp = Waiting
    /\ cpus = InitialCPUs /\ busy = {} /\ deaf = {}
    /\ failure = "none"
    /\ running = [c \in CPUs |-> NotRunning]
    /\ jobs = {} /\ dam = {}
    /\ bursts = [d \in DTBs |-> MaxBursts]
    /\ finalizars = MaxFinalizar

-----------------------------------------------------------------------------
(* Shared operations. *)

AddPLPTask(t) == PLPtasks' = Append(PLPtasks, t)
AddPCPTask(t) == PCPtasks' = Append(PCPtasks, t)

FreeCPU(c) == busy' = busy \ {c}

IdleCPUs == cpus \ busy

NoReadyDTBs == READY = {} /\ dummyIn["READY"] = 0

\* list_remove_by_condition(list, IsDummy) and list_add(list, dummyDTB).
DummyOut(d, l) == [d EXCEPT ![l] = IF @ > 0 THEN @ - 1 ELSE 0]
DummyInto(d, l) == [d EXCEPT ![l] = @ + 1]

\* queue_pop: an empty queue gives NULL, which is no id.
NoId == -1
FirstOf(q) == IF q = <<>> THEN NoId ELSE Head(q)
Popped(q) == IF q = <<>> THEN q ELSE Tail(q)

\* A search by id that does not look at "initialized" also matches the dummy,
\* which carries the id of the DTB it loads; its node is the older one.
DummyHasId(l, id) == dummyIn[l] > 0 /\ dummy.id = id

-----------------------------------------------------------------------------
(* The long-term planner, PlanificadorLargoPlazo. *)

PLPTakes(t) ==
    /\ plp.at = "wait"
    /\ PLPtasks # <<>>
    /\ Head(PLPtasks) = t

DummyAssumedAvailable == TRUE  \* MUTANT of DummyAvailable
MemoryAvailable == inMemoryAmount < Degree
DummyAvailable == dummy.status = "BLOCKED"
CanAdmit == MemoryAvailable /\ NEWqueue # <<>> /\ DummyAvailable

\* PLP_TASK_NORMAL_SCHEDULE, refused: the task is dropped.
PLPCannotSchedule ==
    /\ PLPTakes("NORMAL")
    /\ ~CanAdmit
    /\ PLPtasks' = Tail(PLPtasks)
    /\ UNCHANGED <<PCPtasks, data, lists, counters, dummies, threads, holder,
                   failure, outside>>

\* PLP_TASK_NORMAL_SCHEDULE: take the dummy and the first DTB of NEW, and load
\* inMemoryAmount to increment it.
PLPTakesDummy ==
    /\ PLPTakes("NORMAL")
    /\ CanAdmit
    /\ PLPtasks' = Tail(PLPtasks)
    /\ dummy' = [dummy EXCEPT !.status = "READY"]
    /\ dummyIn' = DummyOut(dummyIn, "BLOCKED")
    /\ NEWqueue' = Tail(NEWqueue)
    /\ plp' = [at |-> "admit", dtb |-> Head(NEWqueue), reg |-> inMemoryAmount]
    /\ UNCHANGED <<PCPtasks, data, beingDummied, READY, EXEC, BLOCKED, EXIT,
                   counters, pcp, holder, failure, outside>>

\* The rest of the same task: store inMemoryAmount, SetDummy, beingDummied.
PLPAdmits ==
    /\ plp.at = "admit"
    /\ inMemoryAmount' = plp.reg + 1
    /\ dummy' = [dummy EXCEPT !.id = plp.dtb]
    /\ AddPCPTask("LOAD_DUMMY")
    /\ beingDummied' = beingDummied \cup {plp.dtb}
    /\ plp' = Waiting
    /\ UNCHANGED <<PLPtasks, data, NEWqueue, READY, EXEC, BLOCKED, EXIT,
                   nextID, dummyIn, pcp, holder, failure, outside>>

\* MUTANT of PLPCreates: the paths are taken as from a stack.
PLPCreatesBackwards ==
    /\ PLPTakes("CREATE")
    /\ NEWqueue' = NEWqueue \o [i \in 1..scripts |-> nextID + scripts - i]
    /\ nextID' = nextID + scripts
    /\ scripts' = 0
    /\ PLPtasks' = Append(Tail(PLPtasks), "NORMAL")
    /\ UNCHANGED <<PCPtasks, dummiedQueue, toBeBlocked, toBeUnlocked, toBeEnded,
                   beingDummied, READY, EXEC, BLOCKED, EXIT, inMemoryAmount,
                   dummies, threads, holder, failure, outside>>

\* PLP_TASK_CREATE_DTB: a DTB for every pending script, then plan.
PLPCreates ==
    /\ PLPTakes("CREATE")
    /\ NEWqueue' = NEWqueue \o [i \in 1..scripts |-> nextID + i - 1]
    /\ nextID' = nextID + scripts
    /\ scripts' = 0
    /\ PLPtasks' = Append(Tail(PLPtasks), "NORMAL")
    /\ UNCHANGED <<PCPtasks, dummiedQueue, toBeBlocked, toBeUnlocked, toBeEnded,
                   beingDummied, READY, EXEC, BLOCKED, EXIT, inMemoryAmount,
                   dummies, threads, holder, failure, outside>>

Loaded == {dummiedQueue[i] : i \in DOMAIN dummiedQueue}

\* MUTANT of PLPInitializes: the DTBs are found in beingDummied, not removed.
PLPInitializesKeeping ==
    /\ PLPTakes("INITIALIZE")
    /\ Loaded \subseteq beingDummied
    /\ READY' = READY \cup Loaded
    /\ dummiedQueue' = <<>>
    /\ AddPCPTask("NORMAL")
    /\ PLPtasks' = Append(Tail(PLPtasks), "NORMAL")
    /\ UNCHANGED <<scripts, toBeBlocked, toBeUnlocked, toBeEnded, NEWqueue,
                   beingDummied, EXEC, BLOCKED, EXIT, counters, dummies,
                   threads, holder, failure, outside>>

\* PLP_TASK_INITIALIZE_DTB: every DTB the DAM has loaded goes to READY.
PLPInitializes ==
    /\ PLPTakes("INITIALIZE")
    /\ Loaded \subseteq beingDummied
    /\ beingDummied' = beingDummied \ Loaded
    /\ READY' = READY \cup Loaded
    /\ dummiedQueue' = <<>>
    /\ AddPCPTask("NORMAL")
    /\ PLPtasks' = Append(Tail(PLPtasks), "NORMAL")
    /\ UNCHANGED <<scripts, toBeBlocked, toBeUnlocked, toBeEnded, NEWqueue, EXEC,
                   BLOCKED, EXIT, counters, dummies, threads, holder, failure,
                   outside>>

\* A loaded DTB is no longer in beingDummied: toBeInitialized is NULL.
PLPInitializeFails ==
    /\ PLPTakes("INITIALIZE")
    /\ ~(Loaded \subseteq beingDummied)
    /\ failure' = "INITIALIZE"
    /\ UNCHANGED <<tasks, data, lists, counters, dummies, threads, holder,
                   outside>>

PLP == \/ PLPCannotSchedule \/ PLPTakesDummy \/ PLPAdmits
       \/ PLPCreates \/ PLPInitializes \/ PLPInitializeFails

-----------------------------------------------------------------------------
(* The short-term planner, PlanificadorCortoPlazo. *)

PCPTakes(t) ==
    /\ pcp.at = "wait"
    /\ PCPtasks # <<>>
    /\ Head(PCPtasks) = t

\* MUTANT of PCPReplans: the task ends without another one.
PCPForgetsToReplan == PCPtasks' = Tail(PCPtasks)

\* The task is done and the planner posts PCP_TASK_NORMAL_SCHEDULE.
PCPReplans == PCPtasks' = Append(Tail(PCPtasks), "NORMAL")

\* PCP_TASK_NORMAL_SCHEDULE: no idle CPU or nothing READY, the task is dropped.
PCPCannotSchedule ==
    /\ PCPTakes("NORMAL")
    /\ IdleCPUs = {} \/ NoReadyDTBs
    /\ PCPtasks' = Tail(PCPtasks)
    /\ UNCHANGED <<PLPtasks, data, lists, counters, dummies, threads, holder,
                   failure, outside>>

\* ... or goes on, without the lock, to pick a CPU.
PCPCanSchedule ==
    /\ PCPTakes("NORMAL")
    /\ IdleCPUs # {}
    /\ ~NoReadyDTBs
    /\ PCPtasks' = Tail(PCPtasks)
    /\ pcp' = [pcp EXCEPT !.at = "dispatch"]
    /\ UNCHANGED <<PLPtasks, data, lists, counters, dummies, plp, holder,
                   failure, outside>>

\* The DTB the policy picks is moved to EXEC and sent to the CPU.
PCPDispatchesDTB(c, d) ==
    /\ pcp.at = "dispatch"
    /\ READY' = READY \ {d}
    /\ EXEC' = EXEC \cup {d}
    /\ busy' = busy \cup {c}
    /\ running' = [running EXCEPT ![c] = [kind |-> "dtb", id |-> d]]
    /\ pcp' = Waiting
    /\ UNCHANGED <<tasks, data, NEWqueue, beingDummied, BLOCKED, EXIT, counters,
                   dummies, plp, cpus, deaf, failure, jobs, dam, bursts,
                   finalizars>>

PCPDispatchesDummy(c) ==
    /\ pcp.at = "dispatch"
    /\ dummyIn["READY"] > 0
    /\ dummyIn' = DummyInto(DummyOut(dummyIn, "READY"), "EXEC")
    /\ dummy' = [dummy EXCEPT !.status = "EXEC"]
    /\ busy' = busy \cup {c}
    /\ running' = [running EXCEPT ![c] = [kind |-> "dummy", id |-> dummy.id]]
    /\ pcp' = Waiting
    /\ UNCHANGED <<tasks, data, lists, counters, plp, cpus, deaf, failure, jobs,
                   dam, bursts, finalizars>>

\* A "finalizar" took the last idle CPU in between: chosenCPU is NULL.
PCPDispatchFails ==
    /\ pcp.at = "dispatch"
    /\ IdleCPUs = {}
    /\ failure' = "DISPATCH"
    /\ UNCHANGED <<tasks, data, lists, counters, dummies, threads, holder,
                   outside>>

\* PCP_TASK_LOAD_DUMMY.
PCPLoadsDummy ==
    /\ PCPTakes("LOAD_DUMMY")
    /\ dummy' = [dummy EXCEPT !.status = "READY"]
    /\ dummyIn' = DummyInto(dummyIn, "READY")
    /\ PCPReplans
    /\ UNCHANGED <<PLPtasks, data, lists, counters, threads, holder, failure,
                   outside>>

\* PCP_TASK_FREE_DUMMY: out of EXEC; AddToBlocked sets the status first ...
PCPFreesDummy ==
    /\ PCPTakes("FREE_DUMMY")
    /\ dummyIn' = DummyOut(dummyIn, "EXEC")
    /\ dummy' = [id |-> 0, status |-> "BLOCKED"]
    /\ PCPtasks' = Tail(PCPtasks)
    /\ pcp' = [pcp EXCEPT !.at = "freeDummy"]
    /\ UNCHANGED <<PLPtasks, data, lists, counters, plp, holder, failure,
                   outside>>

PLPForgotten == UNCHANGED PLPtasks  \* MUTANT of PLPNeeded
PLPNeeded ==
    IF NEWqueue # <<>> THEN AddPLPTask("NORMAL") ELSE UNCHANGED PLPtasks

\* ... then adds the node to BLOCKED, and both planners are told.
PCPFreedDummy ==
    /\ pcp.at = "freeDummy"
    /\ dummyIn' = DummyInto(dummyIn, "BLOCKED")
    /\ AddPCPTask("NORMAL")
    /\ PLPNeeded
    /\ pcp' = Waiting
    /\ UNCHANGED <<data, lists, counters, dummy, plp, holder, failure, outside>>

\* PCP_TASK_BLOCK_DTB: the first of EXEC with that id, be it the dummy.
PCPBlocks ==
    /\ PCPTakes("BLOCK")
    /\ LET id == FirstOf(toBeBlocked) IN
       \/ /\ DummyHasId("EXEC", id)
          /\ dummyIn' = DummyInto(DummyOut(dummyIn, "EXEC"), "BLOCKED")
          /\ dummy' = [dummy EXCEPT !.status = "BLOCKED"]
          /\ UNCHANGED <<EXEC, BLOCKED>>
       \/ /\ ~DummyHasId("EXEC", id)
          /\ id \in EXEC
          /\ EXEC' = EXEC \ {id}
          /\ BLOCKED' = BLOCKED \cup {id}
          /\ UNCHANGED dummies
    /\ toBeBlocked' = Popped(toBeBlocked)
    /\ PCPReplans
    /\ UNCHANGED <<PLPtasks, scripts, dummiedQueue, toBeUnlocked, toBeEnded,
                   NEWqueue, beingDummied, READY, EXIT, counters, threads,
                   holder, failure, outside>>

\* No DTB of EXEC has that id: target is NULL.
PCPBlockFails ==
    /\ PCPTakes("BLOCK")
    /\ ~DummyHasId("EXEC", FirstOf(toBeBlocked))
    /\ FirstOf(toBeBlocked) \notin EXEC
    /\ failure' = "BLOCK"
    /\ UNCHANGED <<tasks, data, lists, counters, dummies, threads, holder,
                   outside>>

BlockedOnly == BLOCKED  \* MUTANT of Unlockable: the ends of quantum are missed
Unlockable == EXEC \cup BLOCKED

\* PCP_TASK_UNLOCK_DTB: search EXEC (end of quantum), then BLOCKED.
PCPUnlocks ==
    /\ PCPTakes("UNLOCK")
    /\ LET id == FirstOf(toBeUnlocked) IN
       /\ id \in Unlockable
       /\ EXEC' = EXEC \ {id}
       /\ BLOCKED' = IF id \in EXEC THEN BLOCKED ELSE BLOCKED \ {id}
       /\ READY' = READY \cup {id}
    /\ toBeUnlocked' = Popped(toBeUnlocked)
    /\ PCPReplans
    /\ UNCHANGED <<PLPtasks, scripts, dummiedQueue, toBeBlocked, toBeEnded,
                   NEWqueue, beingDummied, EXIT, counters, dummies, threads,
                   holder, failure, outside>>

\* "ERROR CRITICO": the DTB is in neither queue, exit(-1).
PCPUnlockFails ==
    /\ PCPTakes("UNLOCK")
    /\ FirstOf(toBeUnlocked) \notin Unlockable
    /\ failure' = "UNLOCK"
    /\ UNCHANGED <<tasks, data, lists, counters, dummies, threads, holder,
                   outside>>

\* Where PCP_TASK_END_DTB looks for a DTB, in this order.
Holds(l, id) ==
    CASE l = "BLOCKED" -> id \in BLOCKED
      [] l = "READY"   -> id \in READY
      [] l = "EXEC"    -> id \in EXEC
SearchOrder == <<"BLOCKED", "READY", "EXEC">>
FoundAt(id) ==
    {i \in 1..3 : DummyHasId(SearchOrder[i], id) \/ Holds(SearchOrder[i], id)}
FirstFound(id, i) == i \in FoundAt(id) /\ \A k \in FoundAt(id) : i <= k

\* The dummy is mistaken for the DTB it loads.
EndsDummy(id) ==
    \E i \in 1..3 :
       LET l == SearchOrder[i] IN
       /\ FirstFound(id, i)
       /\ DummyHasId(l, id)
       /\ dummyIn' = DummyInto(DummyOut(dummyIn, l), "EXIT")
       /\ dummy' = [dummy EXCEPT !.status = "EXIT"]
       /\ UNCHANGED <<beingDummied, READY, EXEC, BLOCKED, EXIT>>

EndsQueued(id) ==
    \E i \in 1..3 :
       LET l == SearchOrder[i] IN
       /\ FirstFound(id, i)
       /\ ~DummyHasId(l, id)
       /\ BLOCKED' = IF l = "BLOCKED" THEN BLOCKED \ {id} ELSE BLOCKED
       /\ READY' = IF l = "READY" THEN READY \ {id} ELSE READY
       /\ EXEC' = IF l = "EXEC" THEN EXEC \ {id} ELSE EXEC
       /\ EXIT' = EXIT \cup {id}
       /\ UNCHANGED <<beingDummied, dummies>>

EndsLoading(id) ==
    /\ FoundAt(id) = {}
    /\ id \in beingDummied
    /\ beingDummied' = beingDummied \ {id}
    /\ EXIT' = EXIT \cup {id}
    /\ UNCHANGED <<READY, EXEC, BLOCKED, dummies>>

\* PCP_TASK_END_DTB and AddToExit, up to the load of inMemoryAmount ...
PCPEnds ==
    /\ PCPTakes("END")
    /\ LET id == FirstOf(toBeEnded) IN
       EndsDummy(id) \/ EndsQueued(id) \/ EndsLoading(id)
    /\ toBeEnded' = Popped(toBeEnded)
    /\ PCPtasks' = Tail(PCPtasks)
    /\ pcp' = [at |-> "exit", dtb |-> 0, reg |-> inMemoryAmount]
    /\ UNCHANGED <<PLPtasks, scripts, dummiedQueue, toBeBlocked, toBeUnlocked,
                   NEWqueue, counters, plp, holder, failure, outside>>

\* MUTANT of PCPEnded: inMemoryAmount is not decremented.
PCPEndedUncounted ==
    /\ pcp.at = "exit"
    /\ PLPNeeded
    /\ AddPCPTask("NORMAL")
    /\ pcp' = Waiting
    /\ UNCHANGED <<data, lists, counters, dummies, plp, holder, failure, outside>>

\* ... and the rest of AddToExit: store it, wake the PLP, plan again.
PCPEnded ==
    /\ pcp.at = "exit"
    /\ inMemoryAmount' = pcp.reg - 1
    /\ PLPNeeded
    /\ AddPCPTask("NORMAL")
    /\ pcp' = Waiting
    /\ UNCHANGED <<data, lists, nextID, dummies, plp, holder, failure, outside>>

\* The DTB is NEW, already in EXIT, in the hands of the PLP or unknown: NULL.
PCPEndFails ==
    /\ PCPTakes("END")
    /\ FoundAt(FirstOf(toBeEnded)) = {}
    /\ FirstOf(toBeEnded) \notin beingDummied
    /\ failure' = "END"
    /\ UNCHANGED <<tasks, data, lists, counters, dummies, threads, holder,
                   outside>>

PCPDispatches ==
    \E c \in IdleCPUs :
        PCPDispatchesDummy(c) \/ \E d \in READY : PCPDispatchesDTB(c, d)

PCP == \/ PCPCannotSchedule \/ PCPCanSchedule \/ PCPDispatches
       \/ PCPDispatchFails \/ PCPLoadsDummy \/ PCPFreesDummy \/ PCPFreedDummy
       \/ PCPBlocks \/ PCPBlockFails \/ PCPUnlocks \/ PCPUnlockFails
       \/ PCPEnds \/ PCPEnded \/ PCPEndFails

-----------------------------------------------------------------------------
(* The pool jobs of Communication.c: each frees the CPU that spoke and     *)
(* pushes its datum ("start"), then posts the task ("post").               *)

Message(m, d, c, n) == [msg |-> m, id |-> d, cpu |-> c, n |-> n, at |-> "start"]
Pushed(j) == jobs' = (jobs \ {j}) \cup {[j EXCEPT !.at = "post"]}
Finished(j) == jobs' = jobs \ {j}

Comms_DAM_DummyFinished(j) ==
    /\ j.msg = "DUMMY"
    /\ \/ /\ j.at = "start"
          /\ dummiedQueue' = Append(dummiedQueue, j.id)
          /\ Pushed(j)
          /\ UNCHANGED PLPtasks
       \/ /\ j.at = "post"
          /\ AddPLPTask("INITIALIZE")
          /\ Finished(j)
          /\ UNCHANGED dummiedQueue
    /\ UNCHANGED <<PCPtasks, toBeUnlocked, toBeBlocked, toBeEnded, busy>>

\* Comms_DAM_AbrirFinished and Comms_DAM_CrearBorrarFlushFinished.
Comms_DAM_OperationFinished(j) ==
    /\ j.msg = "IODONE"
    /\ \/ /\ j.at = "start"
          /\ toBeUnlocked' = Append(toBeUnlocked, j.id)
          /\ Pushed(j)
          /\ UNCHANGED PCPtasks
       \/ /\ j.at = "post"
          /\ AddPCPTask("UNLOCK")
          /\ Finished(j)
          /\ UNCHANGED toBeUnlocked
    /\ UNCHANGED <<PLPtasks, dummiedQueue, toBeBlocked, toBeEnded, busy>>

\* MUTANT of Comms_DAM_IOError: the task is posted before its datum is pushed.
Comms_DAM_IOErrorPostsFirst(j) ==
    /\ j.msg = "IOERROR"
    /\ \/ /\ j.at = "start"
          /\ AddPCPTask("END")
          /\ Pushed(j)
          /\ UNCHANGED toBeEnded
       \/ /\ j.at = "post"
          /\ toBeEnded' = Append(toBeEnded, j.id)
          /\ Finished(j)
          /\ UNCHANGED PCPtasks
    /\ UNCHANGED <<PLPtasks, dummiedQueue, toBeBlocked, toBeUnlocked, busy>>

Comms_DAM_IOError(j) ==
    /\ j.msg = "IOERROR"
    /\ \/ /\ j.at = "start"
          /\ toBeEnded' = Append(toBeEnded, j.id)
          /\ Pushed(j)
          /\ UNCHANGED PCPtasks
       \/ /\ j.at = "post"
          /\ AddPCPTask("END")
          /\ Finished(j)
          /\ UNCHANGED toBeEnded
    /\ UNCHANGED <<PLPtasks, dummiedQueue, toBeBlocked, toBeUnlocked, busy>>

Comms_CPU_ErrorOrEOF(j) ==
    /\ j.msg = "EOFORABORT"
    /\ \/ /\ j.at = "start"
          /\ FreeCPU(j.cpu)
          /\ toBeEnded' = Append(toBeEnded, j.id)
          /\ Pushed(j)
          /\ UNCHANGED PCPtasks
       \/ /\ j.at = "post"
          /\ AddPCPTask("END")
          /\ Finished(j)
          /\ UNCHANGED <<busy, toBeEnded>>
    /\ UNCHANGED <<PLPtasks, dummiedQueue, toBeBlocked, toBeUnlocked>>

Comms_CPU_DummyAtDAM(j) ==
    /\ j.msg = "BLOCKDUMMY"
    /\ \/ /\ j.at = "start"
          /\ FreeCPU(j.cpu)
          /\ Pushed(j)
          /\ UNCHANGED PCPtasks
       \/ /\ j.at = "post"
          /\ AddPCPTask("FREE_DUMMY")
          /\ Finished(j)
          /\ UNCHANGED busy
    /\ UNCHANGED <<PLPtasks, dummiedQueue, toBeBlocked, toBeUnlocked, toBeEnded>>

Comms_CPU_DTBAtDAM(j) ==
    /\ j.msg = "BLOCKDTB"
    /\ \/ /\ j.at = "start"
          /\ FreeCPU(j.cpu)
          /\ toBeBlocked' = Append(toBeBlocked, j.id)
          /\ Pushed(j)
          /\ UNCHANGED PCPtasks
       \/ /\ j.at = "post"
          /\ AddPCPTask("BLOCK")
          /\ Finished(j)
          /\ UNCHANGED <<busy, toBeBlocked>>
    /\ UNCHANGED <<PLPtasks, dummiedQueue, toBeUnlocked, toBeEnded>>

Comms_CPU_OutOfQuantum(j) ==
    /\ j.msg = "EOQUANTUM"
    /\ \/ /\ j.at = "start"
          /\ FreeCPU(j.cpu)
          /\ toBeUnlocked' = Append(toBeUnlocked, j.id)
          /\ Pushed(j)
          /\ UNCHANGED PCPtasks
       \/ /\ j.at = "post"
          /\ AddPCPTask("UNLOCK")
          /\ Finished(j)
          /\ UNCHANGED <<busy, toBeUnlocked>>
    /\ UNCHANGED <<PLPtasks, dummiedQueue, toBeBlocked, toBeEnded>>

Handler(j) ==
    /\ \/ Comms_DAM_DummyFinished(j) \/ Comms_DAM_OperationFinished(j)
       \/ Comms_DAM_IOError(j)       \/ Comms_CPU_ErrorOrEOF(j)
       \/ Comms_CPU_DummyAtDAM(j)    \/ Comms_CPU_DTBAtDAM(j)
       \/ Comms_CPU_OutOfQuantum(j)
    /\ UNCHANGED <<scripts, lists, counters, dummies, threads, cpus, deaf,
                   failure, running, dam, bursts, finalizars>>

-----------------------------------------------------------------------------
(* The console: each command line is a job of the same pool.               *)

\* "ejecutar": push the path; job id is the number of the script.
CommandEjecutar ==
    /\ LET script == nextID + scripts IN
       /\ script <= MaxDTB
       /\ jobs' = jobs \cup {[msg |-> "EJECUTAR", id |-> script, cpu |-> NoCPU,
                              n |-> 0, at |-> "post"]}
    /\ scripts' = scripts + 1
    /\ UNCHANGED <<tasks, dummiedQueue, toBeBlocked, toBeUnlocked, toBeEnded,
                   lists, counters, dummies, threads, holder, failure, running,
                   dam, bursts, finalizars>>

CommandEjecutarPosts(j) ==
    /\ j.msg = "EJECUTAR"
    /\ AddPLPTask("CREATE")
    /\ Finished(j)
    /\ UNCHANGED <<PCPtasks, data, lists, counters, dummies, threads, holder,
                   failure, running, dam, bursts, finalizars>>

\* "finalizar id": push the id ...
CommandFinalizar(id) ==
    /\ finalizars > 0
    /\ finalizars' = finalizars - 1
    /\ toBeEnded' = Append(toBeEnded, id)
    /\ jobs' = jobs \cup {[msg |-> "FINALIZAR", id |-> id, cpu |-> NoCPU,
                           n |-> finalizars, at |-> "start"]}
    /\ UNCHANGED <<tasks, scripts, dummiedQueue, toBeBlocked, toBeUnlocked,
                   lists, counters, dummies, threads, holder, failure, running,
                   dam, bursts>>

\* MUTANT of CommandFinalizarTakesCPU: the chosen CPU is not marked as busy.
CommandFinalizarSharesCPU(j) ==
    /\ j.msg = "FINALIZAR" /\ j.at = "start"
    /\ \E c \in IdleCPUs :
          jobs' = (jobs \ {j}) \cup {[j EXCEPT !.at = "post", !.cpu = c]}
    /\ UNCHANGED <<tasks, data, lists, counters, dummies, threads, holder,
                   failure, running, dam, bursts, finalizars>>

\* ... take an idle CPU and have it free the memory of the GDT ...
CommandFinalizarTakesCPU(j) ==
    /\ j.msg = "FINALIZAR" /\ j.at = "start"
    /\ \E c \in IdleCPUs :
          /\ busy' = busy \cup {c}
          /\ jobs' = (jobs \ {j}) \cup {[j EXCEPT !.at = "post", !.cpu = c]}
    /\ UNCHANGED <<tasks, data, lists, counters, dummies, threads, cpus, deaf,
                   failure, running, dam, bursts, finalizars>>

\* ... (chosenCPU is NULL if none is idle) ...
CommandFinalizarFails(j) ==
    /\ j.msg = "FINALIZAR" /\ j.at = "start"
    /\ IdleCPUs = {}
    /\ failure' = "FINALIZAR"
    /\ UNCHANGED <<tasks, data, lists, counters, dummies, threads, holder,
                   outside>>

\* ... and, when it has answered, free it and post the task.  If the answer came
\* before SocketServer_WakeMeUpWhenDataIsAvailableOn, that function has set
\* isWaitingForData anew and the CPU's next message will be taken for an answer.
CommandFinalizarPosts(j) ==
    /\ j.msg = "FINALIZAR" /\ j.at = "post"
    /\ FreeCPU(j.cpu)
    /\ deaf' \in {deaf \ {j.cpu}, deaf \cup {j.cpu}}
    /\ AddPCPTask("END")
    /\ Finished(j)
    /\ UNCHANGED <<PLPtasks, data, lists, counters, dummies, threads, cpus,
                   failure, running, dam, bursts, finalizars>>

Console ==
    \/ CommandEjecutar
    \/ \E id \in 0..MaxDTB : CommandFinalizar(id)

ConsoleJob(j) == \/ CommandEjecutarPosts(j) \/ CommandFinalizarTakesCPU(j)
                 \/ CommandFinalizarFails(j) \/ CommandFinalizarPosts(j)

-----------------------------------------------------------------------------
(* The CPU processes and the DAM, seen from SAFA.                          *)

CPUConnects(c) ==
    /\ c \notin cpus \cup InitialCPUs
    /\ cpus' = cpus \cup {c}
    /\ UNCHANGED <<tasks, data, lists, counters, dummies, threads, busy, deaf,
                   failure, outside>>

CPUDisconnects(c) ==
    /\ c \in cpus \cap FaultyCPUs
    /\ \A j \in jobs : ~(j.msg = "FINALIZAR" /\ j.cpu = c)
    /\ cpus' = cpus \ {c}
    /\ busy' = busy \ {c} /\ deaf' = deaf \ {c}
    /\ running' = [running EXCEPT ![c] = NotRunning]
    /\ UNCHANGED <<tasks, data, lists, counters, dummies, threads, failure, jobs,
                   dam, bursts, finalizars>>

\* The CPU ends the execution it was given with one message to SAFA.
CPUSends(c, m, n) ==
    /\ jobs' = IF c \in deaf THEN jobs
                              ELSE jobs \cup {Message(m, running[c].id, c, n)}
    /\ deaf' = deaf \ {c}
    /\ running' = [running EXCEPT ![c] = NotRunning]
    /\ UNCHANGED <<tasks, data, lists, counters, dummies, threads, cpus, busy,
                   failure, finalizars>>

CPURunsDummy(c) ==
    /\ running[c].kind = "dummy"
    /\ dam' = dam \cup {[op |-> "load", id |-> running[c].id, n |-> 0]}
    /\ CPUSends(c, "BLOCKDUMMY", 0)
    /\ UNCHANGED bursts

\* Abrir, Crear, Borrar or Flush: the DTB is left in the hands of the DAM.
CPURequestsIO(c) ==
    LET d == running[c].id IN
    /\ running[c].kind = "dtb"
    /\ bursts[d] > 0
    /\ bursts' = [bursts EXCEPT ![d] = @ - 1]
    /\ dam' = dam \cup {[op |-> "io", id |-> d, n |-> bursts[d]]}
    /\ CPUSends(c, "BLOCKDTB", bursts[d])

CPUEndsQuantum(c) ==
    LET d == running[c].id IN
    /\ running[c].kind = "dtb"
    /\ bursts[d] > 0
    /\ bursts' = [bursts EXCEPT ![d] = @ - 1]
    /\ CPUSends(c, "EOQUANTUM", bursts[d])
    /\ UNCHANGED dam

CPUEndsDTB(c) ==
    /\ running[c].kind = "dtb"
    /\ CPUSends(c, "EOFORABORT", bursts[running[c].id])
    /\ UNCHANGED <<bursts, dam>>

\* Has the PCP already handled the CPU's message about this operation?
Settled(r) == IF r.op = "load" THEN dummy.id # r.id ELSE r.id \notin EXEC

DAMAnswers(r) ==
    /\ Overtaking \/ Settled(r)
    /\ dam' = dam \ {r}
    /\ \E m \in {IF r.op = "load" THEN "DUMMY" ELSE "IODONE", "IOERROR"} :
          jobs' = jobs \cup {Message(m, r.id, NoCPU, r.n)}
    /\ UNCHANGED <<tasks, data, lists, counters, dummies, threads, holder,
                   failure, running, bursts, finalizars>>

CPUSpeaks(c) == \/ CPURunsDummy(c) \/ CPURequestsIO(c)
                \/ CPUEndsQuantum(c) \/ CPUEndsDTB(c)

-----------------------------------------------------------------------------
Next ==
    /\ failure = "none"
    /\ \/ PLP \/ PCP \/ Console
       \/ \E j \in jobs : Handler(j) \/ ConsoleJob(j)
       \/ \E c \in CPUs : CPUSpeaks(c) \/ CPUConnects(c) \/ CPUDisconnects(c)
       \/ \E r \in dam : DAMAnswers(r)

Spec == Init /\ [][Next]_vars

\* Threads of SAFA and of the pool keep running, CPUs and DAM answer; nothing
\* obliges the console to type a command or a CPU to connect or disconnect.
Fairness ==
    /\ WF_vars(failure = "none" /\ PLP)
    /\ WF_vars(failure = "none" /\ PCP)
    /\ WF_vars(failure = "none" /\ \E j \in jobs : Handler(j) \/ ConsoleJob(j))
    /\ \A c \in CPUs : WF_vars(failure = "none" /\ CPUSpeaks(c))
    /\ WF_vars(failure = "none" /\ \E r \in dam : DAMAnswers(r))

FairSpec == Spec /\ Fairness

-----------------------------------------------------------------------------
(* Properties. *)

Messages == {"DUMMY", "IODONE", "IOERROR", "EOFORABORT", "BLOCKDUMMY",
             "BLOCKDTB", "EOQUANTUM", "EJECUTAR", "FINALIZAR"}
Ids == 0..MaxDTB  \* 0: the idle dummy
Jobs == [msg : Messages, id : Ids, cpu : CPUs \cup {NoCPU}, n : Nat,
         at : {"start", "post"}]
Thread(places) == [at : {"wait"} \cup places, dtb : Ids, reg : Int]

TasksType ==
    /\ PLPtasks \in Seq({"NORMAL", "CREATE", "INITIALIZE"})
    /\ PCPtasks \in Seq({"NORMAL", "LOAD_DUMMY", "FREE_DUMMY", "BLOCK",
                         "UNLOCK", "END"})

DataType ==
    /\ scripts \in Nat
    /\ dummiedQueue \in Seq(Ids) /\ toBeBlocked \in Seq(Ids)
    /\ toBeUnlocked \in Seq(Ids) /\ toBeEnded \in Seq(Ids)

ListsType ==
    /\ NEWqueue \in Seq(DTBs)
    /\ beingDummied \subseteq DTBs /\ READY \subseteq DTBs
    /\ EXEC \subseteq DTBs /\ BLOCKED \subseteq DTBs /\ EXIT \subseteq DTBs

CountersType ==
    /\ nextID \in Nat \ {0} /\ inMemoryAmount \in Int
    /\ nextID + scripts <= MaxDTB + 1

DummyType ==
    /\ dummy \in [id : Ids, status : {"BLOCKED", "READY", "EXEC", "EXIT"}]
    /\ dummyIn \in [DummyLists -> Nat]

ThreadsType ==
    /\ plp \in Thread({"admit"}) /\ (plp.at = "admit" => plp.dtb \in DTBs)
    /\ pcp \in Thread({"dispatch", "freeDummy", "exit"})

HolderType ==
    cpus \subseteq CPUs /\ busy \subseteq CPUs /\ deaf \subseteq CPUs \cup {NoCPU}

OutsideType ==
    /\ running \in [CPUs -> [kind : {"idle", "dtb", "dummy"}, id : Ids]]
    /\ \A c \in CPUs : running[c].kind = "dtb" => running[c].id \in DTBs
    /\ jobs \subseteq Jobs
    /\ dam \subseteq [op : {"load", "io"}, id : Ids, n : Nat]
    /\ bursts \in [DTBs -> 0..MaxBursts]
    /\ finalizars \in 0..MaxFinalizar

Failures == {"none", "INITIALIZE", "DISPATCH", "BLOCK", "UNLOCK", "END",
             "FINALIZAR"}

\* The type of every variable of the scheduler.
TypeOK ==
    /\ TasksType /\ DataType /\ ListsType /\ CountersType /\ DummyType
    /\ ThreadsType /\ HolderType /\ OutsideType
    /\ failure \in Failures

Pending(q, t) == Cardinality({i \in DOMAIN q : q[i] = t})
Posting(ms) == Cardinality({j \in jobs : j.msg \in ms /\ j.at = "post"})

\* No planner ever pops an empty queue of data: for every task taken or to be
\* posted there is a datum, whatever the order of the handlers.
EveryTaskHasItsDatum ==
    /\ Len(toBeBlocked) = Pending(PCPtasks, "BLOCK") + Posting({"BLOCKDTB"})
    /\ Len(toBeUnlocked) = Pending(PCPtasks, "UNLOCK")
                            + Posting({"IODONE", "EOQUANTUM"})
    /\ Len(toBeEnded) = Pending(PCPtasks, "END")
                         + Posting({"IOERROR", "EOFORABORT"})
                         + Cardinality({j \in jobs : j.msg = "FINALIZAR"})
    /\ Len(dummiedQueue) <= Pending(PLPtasks, "INITIALIZE") + Posting({"DUMMY"})
    /\ scripts <= Pending(PLPtasks, "CREATE") + Posting({"EJECUTAR"})

InNEW == {NEWqueue[i] : i \in DOMAIN NEWqueue}
InHand == IF plp.at = "admit" THEN {plp.dtb} ELSE {}

\* NEW holds the youngest DTBs in the order of their ids; the older ones, which
\* the PLP has taken from it, are in one of the other lists or in its hand.
FirstNEW == nextID - Len(NEWqueue)
NEWInOrder == \A i \in 1..Len(NEWqueue) : NEWqueue[i] = FirstNEW + i - 1

\* No DTB is ever lost or duplicated: a created DTB is in one place only.
OnePlace ==
    /\ FirstNEW >= 1
    /\ NEWInOrder
    /\ InHand \cup beingDummied \cup READY \cup EXEC \cup BLOCKED \cup EXIT
         = 1..(FirstNEW - 1)
    /\ InHand \cap (beingDummied \cup READY \cup EXEC \cup BLOCKED \cup EXIT) = {}
    /\ beingDummied \cap (READY \cup EXEC \cup BLOCKED \cup EXIT) = {}
    /\ READY \cap (EXEC \cup BLOCKED \cup EXIT) = {}
    /\ EXEC \cap (BLOCKED \cup EXIT) = {}
    /\ BLOCKED \cap EXIT = {}

\* The loads of the dummy under way, from the PLP's hand to its release.
DummyLoads ==
    Cardinality(InHand) + Pending(PCPtasks, "LOAD_DUMMY") + dummyIn["READY"]
    + Cardinality({c \in CPUs : running[c].kind = "dummy"})
    + Cardinality({j \in jobs : j.msg = "BLOCKDUMMY"})
    + Pending(PCPtasks, "FREE_DUMMY")

\* The dummy loads one DTB at a time and is BLOCKED only when it loads none.
DummyLoadsOne ==
    /\ DummyLoads <= 1
    /\ dummy.status = "BLOCKED" => DummyLoads = 0

\* No admission is forgotten: if a DTB of NEW could be loaded now, some task
\* that will make the PLP look again is pending or about to be posted.
NoLostAdmission ==
    CanAdmit => PLPtasks # <<>> \/ pcp.at \in {"freeDummy", "exit"}

MinNat(a, b) == IF a < b THEN a ELSE b

\* No dispatch is forgotten: every pair of a READY DTB and an idle CPU has a
\* task that plans, or will post one that does.
NoLostDispatch ==
    MinNat(Cardinality(READY) + dummyIn["READY"], Cardinality(IdleCPUs))
      <= Len(PCPtasks) + Pending(PLPtasks, "INITIALIZE")
         + (IF pcp.at = "wait" THEN 0 ELSE 1)
         + Cardinality({j \in jobs : j.at = "post" /\ j.msg # "EJECUTAR"})

\* A CPU that executes is never taken for idle.
NoDoubleBooking ==
    \A c \in cpus : running[c] # NotRunning => c \in busy

\* Without a "finalizar", and if SAFA handles the CPU's message before the DAM's
\* answer to it, every task of the planners finds the DTB it is about where it
\* looks for it, and a CPU: SAFA never dereferences NULL nor exits.
TargetsAreFound == failure = "none"

\* Every script the console accepts is loaded, executed and ends in EXIT: again
\* and again, there is none that was accepted and has not ended.
EveryScriptEnds == []<>({d \in DTBs : d < nextID + scripts} \subseteq EXIT)

\* DTBs that hold a place in memory.
InMemory == beingDummied \cup READY \cup EXEC \cup BLOCKED

\* The unlocked ++ and -- of inMemoryAmount may lose one another, but never so
\* that an empty memory counts as full (the planner would never admit again).
EmptyIsNotFull ==
    InMemory = {} /\ plp.at = "wait" /\ pcp.at = "wait" => MemoryAvailable

\* The state of a DTB as the lists tell it: a DTB the PLP has taken from NEW and
\* not yet put in beingDummied is already DUMMYING.
StatusOf(d) ==
    CASE d \in READY        -> "READY"
      [] d \in EXEC         -> "EXEC"
      [] d \in BLOCKED      -> "BLOCKED"
      [] d \in EXIT         -> "EXIT"
      [] d \in beingDummied \cup InHand -> "DUMMYING"
      [] d \in InNEW        -> "NEW"
      [] OTHER              -> "unborn"

Lifecycle == INSTANCE DTBLifecycle WITH status <- [d \in DTBs |-> StatusOf(d)]

\* The two planners, the handlers and the console implement the lifecycle of a
\* DTB, whatever the order of the messages and of the "finalizar" commands.
ImplementsLifecycle == Lifecycle!Spec

-----------------------------------------------------------------------------
(* What the comments of the code say and its executions contradict.        *)

\* Scheduling.h: inMemoryAmount counts the processes in memory "para el grado
\* de multiprogr.", so that no more than Degree of them are.
DegreeRespected == Cardinality(InMemory) <= Degree

\* ConsoleHandler.h: "finalizar" moves the DTB to EXIT, one of NEW included.
NewDTBCanBeEnded == failure = "END" => FirstOf(toBeEnded) \notin InNEW

\* Scheduling.h: PCP_TASK_BLOCK_DTB moves the DTB of the CPU from EXEC to BLOCKED.
BlockMovesTheDTB ==
    [][PCPBlocks => FirstOf(toBeBlocked) \in BLOCKED']_vars
=============================================================================
