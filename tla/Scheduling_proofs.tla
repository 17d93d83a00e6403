------------------------- MODULE Scheduling_proofs -------------------------
(***************************************************************************)
(* The type of the scheduler's variables, one lemma per group of actions;  *)
(* with it, that no CPU which executes is taken for idle, that no DTB is   *)
(* lost or duplicated and the scheduler implements DTBLifecycle; that the  *)
(* counter of DTBs in memory leaves room; and that the dummy carries one   *)
(* load at most and no admission is lost.                                  *)
(*                                                                         *)
(* The second part is about the tasks of the planners: every one finds its *)
(* datum, and the planner is called as often as there is something to      *)
(* dispatch; and every DTB it is told to move is where it looks for it.    *)
(***************************************************************************)
EXTENDS Scheduling, FiniteSetTheorems, SequenceTheorems, TLAPS

\* A group of variables a step leaves alone keeps its type.
LEMMA TypeFrame ==
    /\ TasksType /\ UNCHANGED tasks => TasksType'
    /\ DataType /\ UNCHANGED data => DataType'
    /\ ListsType /\ UNCHANGED lists => ListsType'
    /\ CountersType /\ UNCHANGED <<counters, scripts>> => CountersType'
    /\ data' = data => scripts' = scripts
    /\ DummyType /\ UNCHANGED dummies => DummyType'
    /\ ThreadsType /\ UNCHANGED threads => ThreadsType'
    /\ HolderType /\ UNCHANGED holder => HolderType'
    /\ OutsideType /\ UNCHANGED outside => OutsideType'
  BY DEF TasksType, DataType, ListsType, CountersType, DummyType, ThreadsType,
         HolderType, OutsideType, tasks, data, lists, counters, dummies,
         threads, holder, outside

\* The ids of DTBs are ids of messages, and 0 is one of those.
LEMMA IdRange == 0 \in Ids /\ DTBs \subseteq Ids /\ Ids \subseteq Nat
  BY SchedulingAssumption DEF Ids, DTBs, SchedulingAssumption

\* The ends of a sequence.
LEMMA SeqEnds ==
    ASSUME NEW S, NEW q \in Seq(S)
    PROVE  /\ \A x \in S : Append(q, x) \in Seq(S)
           /\ q # <<>> => Tail(q) \in Seq(S) /\ Head(q) \in S
           /\ Popped(q) \in Seq(S)
  BY DEF Popped

\* Moving a node of the dummy in or out of a list.
LEMMA DummyMoves ==
    ASSUME NEW d \in [DummyLists -> Nat], NEW l \in DummyLists
    PROVE  DummyOut(d, l) \in [DummyLists -> Nat]
           /\ DummyInto(d, l) \in [DummyLists -> Nat]
  BY DEF DummyOut, DummyInto

\* PCP_TASK_END_DTB searches lists where the dummy may be.
LEMMA SearchOrderLists == \A i \in 1..3 : SearchOrder[i] \in DummyLists
  BY DEF SearchOrder, DummyLists

\* A queue of ids after a push and after a pop.
LEMMA QueueOfIds ==
    \A q \in Seq(Ids) : /\ Popped(q) \in Seq(Ids)
                        /\ \A x \in Ids : Append(q, x) \in Seq(Ids)
  BY SeqEnds

\* The long-term planner keeps the types.
LEMMA TypePLP == ASSUME TypeOK, PLP PROVE TypeOK'
<1>1. CASE PLPCannotSchedule
  BY <1>1, TypeFrame, SeqEnds
  DEF TypeOK, PLPCannotSchedule, PLPTakes, TasksType
<1>2. CASE PLPTakesDummy
  <2>1. TasksType' /\ ListsType' /\ ThreadsType'
    BY IdRange, <1>2, SMTT(30) DEF TypeOK, PLPTakesDummy, PLPTakes, CanAdmit, TasksType, ListsType,
                CountersType, ThreadsType, Thread
  <2>2. DummyType'
    BY <1>2 DEF TypeOK, PLPTakesDummy, DummyType, DummyOut, DummyLists
  <2>3. QED
    BY <1>2, <2>1, <2>2, TypeFrame DEF TypeOK, PLPTakesDummy
<1>3. CASE PLPAdmits
  <2>1. plp.dtb \in DTBs /\ plp.dtb \in Ids /\ plp.reg \in Int
    BY <1>3, IdRange DEF TypeOK, PLPAdmits, ThreadsType, Thread
  <2>2. TasksType'
    BY <1>3 DEF TypeOK, PLPAdmits, AddPCPTask, TasksType
  <2>3. ListsType' /\ DummyType'
    BY <1>3, <2>1 DEF TypeOK, PLPAdmits, ListsType, dummies, DummyType
  <2>4. CountersType' /\ ThreadsType'
    BY <1>3, <2>1, IdRange
    DEF TypeOK, PLPAdmits, data, CountersType, ThreadsType, Thread, Waiting
  <2>5. QED
    BY <1>3, <2>2, <2>3, <2>4, TypeFrame DEF TypeOK, PLPAdmits
<1>4. CASE PLPCreates
  <2> DEFINE new == [i \in 1..scripts |-> nextID + i - 1]
  <2>1. TasksType'
    BY <1>4 DEF TypeOK, PLPCreates, PLPTakes, TasksType
  <2>2. DataType' /\ CountersType'
    BY <1>4 DEF TypeOK, PLPCreates, DataType, CountersType
  <2>3. \A i \in 1..scripts : nextID + i - 1 \in DTBs
    BY SchedulingAssumption
    DEF TypeOK, DataType, CountersType, DTBs, SchedulingAssumption
  <2>4. new \in Seq(DTBs)
    BY <2>3 DEF TypeOK, DataType
  <2>5. NEWqueue \o new \in Seq(DTBs)
    BY <2>4 DEF TypeOK, ListsType
  <2>6. ListsType'
    BY <1>4, <2>5 DEF TypeOK, PLPCreates, ListsType
  <2>7. QED
    BY <1>4, <2>1, <2>2, <2>6, TypeFrame DEF TypeOK, PLPCreates
<1>5. CASE PLPInitializes
  <2>1. TasksType'
    BY <1>5 DEF TypeOK, PLPInitializes, PLPTakes, AddPCPTask, TasksType
  <2>2. DataType' /\ ListsType'
    BY <1>5 DEF TypeOK, PLPInitializes, DataType, ListsType
  <2>3. QED
    BY <1>5, <2>1, <2>2, TypeFrame DEF TypeOK, PLPInitializes
<1>6. CASE PLPInitializeFails
  BY <1>6, TypeFrame DEF TypeOK, PLPInitializeFails, Failures
<1>7. QED
  BY <1>1, <1>2, <1>3, <1>4, <1>5, <1>6 DEF PLP

\* The short-term planner keeps the types.
LEMMA TypePCP == ASSUME TypeOK, PCP PROVE TypeOK'
<1>1. CASE PCPCannotSchedule
  BY <1>1, TypeFrame, SeqEnds
  DEF TypeOK, PCPCannotSchedule, PCPTakes, TasksType
<1>2. CASE PCPCanSchedule
  <2>1. TasksType' /\ ThreadsType'
    BY <1>2 DEF TypeOK, PCPCanSchedule, PCPTakes, TasksType, ThreadsType, Thread
  <2>2. QED
    BY <1>2, <2>1, TypeFrame DEF TypeOK, PCPCanSchedule
<1>3. CASE PCPDispatches
  <2>1. PICK c \in IdleCPUs :
           PCPDispatchesDummy(c) \/ \E d \in READY : PCPDispatchesDTB(c, d)
    BY <1>3 DEF PCPDispatches
  <2>2. c \in CPUs
    BY <2>1 DEF IdleCPUs, TypeOK, HolderType
  <2>3. CASE PCPDispatchesDummy(c)
    <3>1. DummyType' /\ ThreadsType' /\ HolderType'
      BY IdRange, <2>2, <2>3 DEF TypeOK, PCPDispatchesDummy, DummyType, DummyInto, DummyOut,
                 DummyLists, ThreadsType, Thread, Waiting, HolderType
    <3>2. OutsideType'
      BY <2>2, <2>3 DEF TypeOK, PCPDispatchesDummy, DummyType, OutsideType
    <3>3. QED
      BY <2>3, <3>1, <3>2, TypeFrame DEF TypeOK, PCPDispatchesDummy
  <2>4. ASSUME NEW d \in READY, PCPDispatchesDTB(c, d) PROVE TypeOK'
    <3>1. ListsType' /\ ThreadsType' /\ HolderType'
      BY IdRange, <2>2, <2>4 DEF TypeOK, PCPDispatchesDTB, ListsType, ThreadsType, Thread,
                 Waiting, HolderType
    <3>2. OutsideType'
      BY IdRange, <2>2, <2>4 DEF TypeOK, PCPDispatchesDTB, ListsType, OutsideType
    <3>3. QED
      BY <2>4, <3>1, <3>2, TypeFrame DEF TypeOK, PCPDispatchesDTB
  <2>5. QED
    BY <2>1, <2>3, <2>4
<1>4. CASE PCPDispatchFails
  BY <1>4, TypeFrame DEF TypeOK, PCPDispatchFails, Failures
<1>5. CASE PCPLoadsDummy
  <2>1. TasksType'
    BY <1>5 DEF TypeOK, PCPLoadsDummy, PCPTakes, PCPReplans, TasksType
  <2>2. DummyType'
    BY <1>5, DummyMoves DEF TypeOK, PCPLoadsDummy, DummyType, DummyLists
  <2>3. QED
    BY <1>5, <2>1, <2>2, TypeFrame DEF TypeOK, PCPLoadsDummy
<1>6. CASE PCPFreesDummy
  <2>1. TasksType' /\ ThreadsType'
    BY <1>6, SeqEnds DEF TypeOK, PCPFreesDummy, PCPTakes, TasksType,
                         ThreadsType, Thread
  <2>2. DummyType'
    BY IdRange, <1>6, DummyMoves DEF TypeOK, PCPFreesDummy, DummyType, DummyLists
  <2>3. QED
    BY <1>6, <2>1, <2>2, TypeFrame DEF TypeOK, PCPFreesDummy
<1>7. CASE PCPFreedDummy
  <2>1. TasksType'
    BY <1>7, SMTT(30) DEF TypeOK, PCPFreedDummy, AddPCPTask, AddPLPTask, PLPNeeded, TasksType
  <2>2. DummyType' /\ ThreadsType'
    BY IdRange, <1>7, DummyMoves DEF TypeOK, PCPFreedDummy, DummyType, DummyLists,
                            ThreadsType, Thread, Waiting
  <2>3. QED
    BY <1>7, <2>1, <2>2, TypeFrame DEF TypeOK, PCPFreedDummy
<1>8. CASE PCPBlocks
  <2>1. TasksType'
    BY <1>8 DEF TypeOK, PCPBlocks, PCPTakes, PCPReplans, TasksType
  <2>3. DataType'
    BY <1>8, QueueOfIds DEF TypeOK, PCPBlocks, DataType
  <2>2. ListsType' /\ DummyType'
    BY <1>8, SMTT(30) DEF TypeOK, PCPBlocks, ListsType, dummies, DummyType, DummyInto,
                DummyOut, DummyLists
  <2>4. QED
    BY <1>8, <2>1, <2>2, <2>3, TypeFrame DEF TypeOK, PCPBlocks
<1>9. CASE PCPBlockFails
  BY <1>9, TypeFrame DEF TypeOK, PCPBlockFails, Failures
<1>10. CASE PCPUnlocks
  <2>1. TasksType'
    BY <1>10 DEF TypeOK, PCPUnlocks, PCPTakes, PCPReplans, TasksType
  <2>3. DataType'
    BY <1>10, QueueOfIds DEF TypeOK, PCPUnlocks, DataType
  <2>2. ListsType'
    BY <1>10 DEF TypeOK, PCPUnlocks, Unlockable, ListsType
  <2>4. QED
    BY <1>10, <2>1, <2>2, <2>3, TypeFrame DEF TypeOK, PCPUnlocks
<1>11. CASE PCPUnlockFails
  BY <1>11, TypeFrame DEF TypeOK, PCPUnlockFails, Failures
<1>12. CASE PCPEnds
  <2>1. TasksType' /\ ThreadsType'
    BY IdRange, <1>12 DEF TypeOK, PCPEnds, PCPTakes, TasksType, CountersType, ThreadsType,
                 Thread
  <2>3. DataType'
    BY <1>12, QueueOfIds DEF TypeOK, PCPEnds, DataType
  <2>2. ListsType' /\ DummyType'
    <3> DEFINE id == FirstOf(toBeEnded)
    <3>1. NEWqueue' = NEWqueue
      BY <1>12 DEF PCPEnds
    <3>2. CASE EndsDummy(id)
      <4>1. PICK i \in 1..3 :
               /\ dummyIn' = DummyInto(DummyOut(dummyIn, SearchOrder[i]), "EXIT")
               /\ dummy' = [dummy EXCEPT !.status = "EXIT"]
               /\ UNCHANGED <<beingDummied, READY, EXEC, BLOCKED, EXIT>>
        BY <3>2 DEF EndsDummy
      <4>2. QED
        BY <3>1, <4>1, DummyMoves, SearchOrderLists
        DEF TypeOK, ListsType, DummyType, DummyLists
    <3>3. CASE EndsQueued(id)
      <4>1. PICK i \in 1..3 :
               /\ FirstFound(id, i) /\ ~DummyHasId(SearchOrder[i], id)
               /\ BLOCKED' = IF SearchOrder[i] = "BLOCKED" THEN BLOCKED \ {id} ELSE BLOCKED
               /\ READY' = IF SearchOrder[i] = "READY" THEN READY \ {id} ELSE READY
               /\ EXEC' = IF SearchOrder[i] = "EXEC" THEN EXEC \ {id} ELSE EXEC
               /\ EXIT' = EXIT \cup {id}
               /\ UNCHANGED <<beingDummied, dummies>>
        BY <3>3 DEF EndsQueued
      <4>2. Holds(SearchOrder[i], id)
        BY <4>1 DEF FirstFound, FoundAt
      <4>3. id \in BLOCKED \cup READY \cup EXEC
        <5>1. i = 1 \/ i = 2 \/ i = 3
          OBVIOUS
        <5>2. CASE i = 1
          BY <4>2, <5>2 DEF Holds, SearchOrder
        <5>3. CASE i = 2
          BY <4>2, <5>3 DEF Holds, SearchOrder
        <5>4. CASE i = 3
          BY <4>2, <5>4 DEF Holds, SearchOrder
        <5>5. QED
          BY <5>1, <5>2, <5>3, <5>4
      <4>4. QED
        BY <3>1, <4>1, <4>3, TypeFrame DEF TypeOK, ListsType
    <3>4. CASE EndsLoading(id)
      BY <3>1, <3>4 DEF EndsLoading, dummies, TypeOK, ListsType, DummyType
    <3>5. QED
      BY <1>12, <3>2, <3>3, <3>4 DEF PCPEnds
  <2>4. QED
    BY <1>12, <2>1, <2>2, <2>3, TypeFrame DEF TypeOK, PCPEnds
<1>13. CASE PCPEnded
  <2>1. TasksType'
    BY <1>13 DEF TypeOK, PCPEnded, AddPCPTask, AddPLPTask, PLPNeeded, TasksType
  <2>2. CountersType' /\ ThreadsType'
    BY IdRange, <1>13
    DEF TypeOK, PCPEnded, data, CountersType, ThreadsType, Thread, Waiting
  <2>3. QED
    BY <1>13, <2>1, <2>2, TypeFrame DEF TypeOK, PCPEnded
<1>14. CASE PCPEndFails
  BY <1>14, TypeFrame DEF TypeOK, PCPEndFails, Failures
<1>15. QED
  BY <1>1, <1>2, <1>3, <1>4, <1>5, <1>6, <1>7, <1>8, <1>9, <1>10, <1>11,
     <1>12, <1>13, <1>14 DEF PCP

\* A job that pushes its datum or ends leaves well-typed jobs.
LEMMA JobMoves ==
    ASSUME OutsideType, NEW j \in jobs
    PROVE  /\ j.id \in Ids /\ j.cpu \in CPUs \cup {NoCPU}
           /\ Pushed(j) => jobs' \subseteq Jobs
           /\ Finished(j) => jobs' \subseteq Jobs
<1>1. j \in Jobs
  BY DEF OutsideType
<1>2. j.id \in Ids /\ j.cpu \in CPUs \cup {NoCPU} /\ [j EXCEPT !.at = "post"] \in Jobs
  BY <1>1 DEF Jobs
<1>3. QED
  BY <1>2 DEF OutsideType, Pushed, Finished

\* The handlers of the messages keep the types.
LEMMA TypeHandlers == ASSUME TypeOK, NEW j \in jobs, Handler(j) PROVE TypeOK'
<1>1. /\ UNCHANGED <<scripts, lists, counters, dummies, threads, cpus, deaf,
                     failure, running, dam, bursts, finalizars>>
      /\ \/ Comms_DAM_DummyFinished(j) \/ Comms_DAM_OperationFinished(j)
         \/ Comms_DAM_IOError(j)       \/ Comms_CPU_ErrorOrEOF(j)
         \/ Comms_CPU_DummyAtDAM(j)    \/ Comms_CPU_DTBAtDAM(j)
         \/ Comms_CPU_OutOfQuantum(j)
  BY DEF Handler
<1>2. SUFFICES ASSUME Pushed(j) \/ Finished(j) => jobs' \subseteq Jobs
               PROVE  /\ TasksType' /\ DataType' /\ busy' \subseteq busy
                      /\ Pushed(j) \/ Finished(j)
  BY <1>1, JobMoves, TypeFrame DEF TypeOK, OutsideType, HolderType
<1>3. j.id \in Ids
  BY JobMoves DEF TypeOK
<1>4. CASE Comms_DAM_DummyFinished(j)
  <2>1. TasksType'
    BY <1>4 DEF Comms_DAM_DummyFinished, AddPLPTask, TypeOK, TasksType
  <2>2. DataType'
    BY <1>1, <1>3, <1>4, QueueOfIds DEF Comms_DAM_DummyFinished, TypeOK, DataType
  <2>3. QED
    BY <2>1, <2>2, <1>4 DEF Comms_DAM_DummyFinished, FreeCPU
<1>5. CASE Comms_DAM_OperationFinished(j)
  <2>1. TasksType'
    BY <1>5 DEF Comms_DAM_OperationFinished, AddPCPTask, TypeOK, TasksType
  <2>2. DataType'
    BY <1>1, <1>3, <1>5, QueueOfIds DEF Comms_DAM_OperationFinished, TypeOK, DataType
  <2>3. QED
    BY <2>1, <2>2, <1>5 DEF Comms_DAM_OperationFinished, FreeCPU
<1>6. CASE Comms_DAM_IOError(j)
  <2>1. TasksType'
    BY <1>6 DEF Comms_DAM_IOError, AddPCPTask, TypeOK, TasksType
  <2>2. DataType'
    BY <1>1, <1>3, <1>6, QueueOfIds DEF Comms_DAM_IOError, TypeOK, DataType
  <2>3. QED
    BY <2>1, <2>2, <1>6 DEF Comms_DAM_IOError, FreeCPU
<1>7. CASE Comms_CPU_ErrorOrEOF(j)
  <2>1. TasksType'
    BY <1>7 DEF Comms_CPU_ErrorOrEOF, AddPCPTask, TypeOK, TasksType
  <2>2. DataType'
    BY <1>1, <1>3, <1>7, QueueOfIds DEF Comms_CPU_ErrorOrEOF, TypeOK, DataType
  <2>3. QED
    BY <2>1, <2>2, <1>7 DEF Comms_CPU_ErrorOrEOF, FreeCPU
<1>8. CASE Comms_CPU_DummyAtDAM(j)
  <2>1. TasksType'
    BY <1>8 DEF Comms_CPU_DummyAtDAM, AddPCPTask, TypeOK, TasksType
  <2>2. DataType'
    BY <1>1, <1>3, <1>8, QueueOfIds DEF Comms_CPU_DummyAtDAM, TypeOK, DataType
  <2>3. QED
    BY <2>1, <2>2, <1>8 DEF Comms_CPU_DummyAtDAM, FreeCPU
<1>9. CASE Comms_CPU_DTBAtDAM(j)
  <2>1. TasksType'
    BY <1>9 DEF Comms_CPU_DTBAtDAM, AddPCPTask, TypeOK, TasksType
  <2>2. DataType'
    BY <1>1, <1>3, <1>9, QueueOfIds DEF Comms_CPU_DTBAtDAM, TypeOK, DataType
  <2>3. QED
    BY <2>1, <2>2, <1>9 DEF Comms_CPU_DTBAtDAM, FreeCPU
<1>10. CASE Comms_CPU_OutOfQuantum(j)
  <2>1. TasksType'
    BY <1>10 DEF Comms_CPU_OutOfQuantum, AddPCPTask, TypeOK, TasksType
  <2>2. DataType'
    BY <1>1, <1>3, <1>10, QueueOfIds DEF Comms_CPU_OutOfQuantum, TypeOK, DataType
  <2>3. QED
    BY <2>1, <2>2, <1>10 DEF Comms_CPU_OutOfQuantum, FreeCPU
<1>11. QED
  BY <1>1, <1>4, <1>5, <1>6, <1>7, <1>8, <1>9, <1>10

\* The jobs of the console keep the types.
LEMMA TypeConsole ==
    ASSUME TypeOK, Console \/ \E j \in jobs : ConsoleJob(j)
    PROVE  TypeOK'
<1>1. CASE CommandEjecutar
  <2>1. DataType' /\ CountersType'
    BY <1>1, SchedulingAssumption
    DEF CommandEjecutar, TypeOK, DataType, CountersType, counters,
        SchedulingAssumption
  <2>2. nextID + scripts \in Ids
    BY <1>1, SchedulingAssumption
    DEF CommandEjecutar, TypeOK, DataType, CountersType, Ids, SchedulingAssumption
  <2>3. [msg |-> "EJECUTAR", id |-> nextID + scripts, cpu |-> NoCPU, n |-> 0,
         at |-> "post"] \in Jobs
    BY <2>2 DEF Jobs, Messages
  <2>4. OutsideType'
    BY <1>1, <2>3 DEF CommandEjecutar, TypeOK, OutsideType
  <2>5. QED
    BY <1>1, <2>1, <2>4, TypeFrame DEF CommandEjecutar, TypeOK
<1>2. ASSUME NEW id \in 0..MaxDTB, CommandFinalizar(id) PROVE TypeOK'
  <2>1. DataType'
    BY <1>2, QueueOfIds DEF CommandFinalizar, TypeOK, DataType, Ids
  <2>2. OutsideType'
    <3>1. finalizars \in Nat
      BY SchedulingAssumption DEF TypeOK, OutsideType, SchedulingAssumption
    <3>2. [msg |-> "FINALIZAR", id |-> id, cpu |-> NoCPU, n |-> finalizars,
           at |-> "start"] \in Jobs
      BY <3>1 DEF Jobs, Messages, Ids
    <3>3. finalizars' \in 0..MaxFinalizar
      BY <1>2, <3>1, SchedulingAssumption
      DEF CommandFinalizar, TypeOK, OutsideType, SchedulingAssumption
    <3>4. QED
      BY <1>2, <3>2, <3>3 DEF CommandFinalizar, TypeOK, OutsideType
  <2>3. QED
    BY <1>2, <2>1, <2>2, TypeFrame DEF CommandFinalizar, TypeOK
<1>3. ASSUME NEW j \in jobs, CommandEjecutarPosts(j) PROVE TypeOK'
  <2>1. TasksType'
    BY <1>3 DEF CommandEjecutarPosts, AddPLPTask, TypeOK, TasksType
  <2>2. OutsideType'
    BY <1>3, JobMoves DEF CommandEjecutarPosts, TypeOK, OutsideType
  <2>3. QED
    BY <1>3, <2>1, <2>2, TypeFrame DEF CommandEjecutarPosts, TypeOK
<1>4. ASSUME NEW j \in jobs, CommandFinalizarTakesCPU(j) PROVE TypeOK'
  <2>1. PICK c \in IdleCPUs :
           /\ busy' = busy \cup {c}
           /\ jobs' = (jobs \ {j}) \cup {[j EXCEPT !.at = "post", !.cpu = c]}
    BY <1>4 DEF CommandFinalizarTakesCPU
  <2>2. c \in CPUs
    BY DEF IdleCPUs, TypeOK, HolderType
  <2>3. [j EXCEPT !.at = "post", !.cpu = c] \in Jobs
    BY <2>2 DEF TypeOK, OutsideType, Jobs
  <2>4. OutsideType' /\ HolderType'
    BY <1>4, <2>1, <2>2, <2>3
    DEF CommandFinalizarTakesCPU, TypeOK, OutsideType, HolderType
  <2>5. QED
    BY <1>4, <2>4, TypeFrame DEF CommandFinalizarTakesCPU, TypeOK
<1>5. ASSUME NEW j \in jobs, CommandFinalizarFails(j) PROVE TypeOK'
  BY <1>5, TypeFrame DEF CommandFinalizarFails, TypeOK, Failures
<1>6. ASSUME NEW j \in jobs, CommandFinalizarPosts(j) PROVE TypeOK'
  <2>1. TasksType'
    BY <1>6 DEF CommandFinalizarPosts, AddPCPTask, TypeOK, TasksType
  <2>2. OutsideType' /\ HolderType'
    BY <1>6, JobMoves
    DEF CommandFinalizarPosts, FreeCPU, TypeOK, OutsideType, HolderType, Jobs
  <2>3. QED
    BY <1>6, <2>1, <2>2, TypeFrame DEF CommandFinalizarPosts, TypeOK
<1>7. QED
  BY <1>1, <1>2, <1>3, <1>4, <1>5, <1>6 DEF Console, ConsoleJob

\* The commands, the CPUs and the DAM keep the types.
LEMMA TypeOutside ==
    ASSUME TypeOK,
           \/ \E c \in CPUs : CPUSpeaks(c) \/ CPUConnects(c) \/ CPUDisconnects(c)
           \/ \E r \in dam : DAMAnswers(r)
    PROVE  TypeOK'
<1>1. ASSUME NEW c \in CPUs, NEW m \in Messages, NEW n \in Nat, CPUSends(c, m, n),
             bursts' \in [DTBs -> 0..MaxBursts],
             dam' \subseteq [op : {"load", "io"}, id : Ids, n : Nat]
      PROVE  TypeOK'
  <2>1. Message(m, running[c].id, c, n) \in Jobs
    BY <1>1 DEF TypeOK, OutsideType, Message, Jobs
  <2>2. jobs' \subseteq Jobs
    BY <1>1, <2>1 DEF TypeOK, OutsideType, CPUSends
  <2>3. /\ running' \in [CPUs -> [kind : {"idle", "dtb", "dummy"}, id : Ids]]
        /\ \A e \in CPUs : running'[e].kind = "dtb" => running'[e].id \in DTBs
    BY <1>1, IdRange DEF TypeOK, OutsideType, CPUSends, NotRunning
  <2>4. OutsideType'
    BY <1>1, <2>2, <2>3 DEF TypeOK, OutsideType, CPUSends
  <2>5. HolderType'
    BY <1>1 DEF TypeOK, HolderType, CPUSends
  <2>6. QED
    BY <1>1, <2>4, <2>5, TypeFrame DEF TypeOK, CPUSends
<1>2. ASSUME NEW c \in CPUs, CPUSpeaks(c) PROVE TypeOK'
  <2> DEFINE d == running[c].id
  <2>1. d \in Ids /\ (running[c].kind = "dtb" => d \in DTBs)
    BY DEF TypeOK, OutsideType
  <2>2. d \in DTBs => bursts[d] \in Nat /\ bursts[d] <= MaxBursts
    BY SchedulingAssumption DEF TypeOK, OutsideType, SchedulingAssumption
  <2>3. d \in DTBs /\ bursts[d] > 0 =>
           [bursts EXCEPT ![d] = @ - 1] \in [DTBs -> 0..MaxBursts]
    BY <2>2, SchedulingAssumption DEF TypeOK, OutsideType, SchedulingAssumption
  <2>4. /\ bursts \in [DTBs -> 0..MaxBursts]
        /\ dam \subseteq [op : {"load", "io"}, id : Ids, n : Nat]
    BY DEF TypeOK, OutsideType
  <2>5. CASE CPURunsDummy(c)
    <3>1. dam' \subseteq [op : {"load", "io"}, id : Ids, n : Nat]
      BY <2>1, <2>4, <2>5 DEF CPURunsDummy
    <3>2. QED
      BY <1>1, <2>4, <2>5, <3>1 DEF CPURunsDummy, Messages
  <2>6. CASE CPURequestsIO(c)
    <3>1. dam' \subseteq [op : {"load", "io"}, id : Ids, n : Nat]
      BY <2>1, <2>2, <2>4, <2>6 DEF CPURequestsIO
    <3>2. QED
      BY <1>1, <2>1, <2>2, <2>3, <2>6, <3>1 DEF CPURequestsIO, Messages
  <2>7. CASE CPUEndsQuantum(c)
    BY <1>1, <2>1, <2>2, <2>3, <2>4, <2>7 DEF CPUEndsQuantum, Messages
  <2>8. CASE CPUEndsDTB(c)
    BY <1>1, <2>1, <2>2, <2>4, <2>8 DEF CPUEndsDTB, Messages
  <2>9. QED
    BY <1>2, <2>5, <2>6, <2>7, <2>8 DEF CPUSpeaks
<1>3. ASSUME NEW c \in CPUs, CPUConnects(c) PROVE TypeOK'
  BY <1>3, TypeFrame DEF CPUConnects, TypeOK, HolderType
<1>4. ASSUME NEW c \in CPUs, CPUDisconnects(c) PROVE TypeOK'
  <2>1. HolderType'
    BY <1>4 DEF CPUDisconnects, TypeOK, HolderType
  <2>2. OutsideType'
    BY IdRange, <1>4 DEF CPUDisconnects, TypeOK, OutsideType, NotRunning
  <2>3. QED
    BY <1>4, <2>1, <2>2, TypeFrame DEF CPUDisconnects, TypeOK
<1>5. ASSUME NEW r \in dam, DAMAnswers(r) PROVE TypeOK'
  <2>1. PICK m \in {IF r.op = "load" THEN "DUMMY" ELSE "IODONE", "IOERROR"} :
           jobs' = jobs \cup {Message(m, r.id, NoCPU, r.n)}
    BY <1>5 DEF DAMAnswers
  <2>2. Message(m, r.id, NoCPU, r.n) \in Jobs
    BY DEF TypeOK, OutsideType, Message, Jobs, Messages
  <2>3. OutsideType'
    BY <1>5, <2>1, <2>2 DEF DAMAnswers, TypeOK, OutsideType
  <2>4. QED
    BY <1>5, <2>3, TypeFrame DEF DAMAnswers, TypeOK
<1>6. QED
  BY <1>2, <1>3, <1>4, <1>5

\* The types hold at the start.
LEMMA TypeInit == Init => TypeOK
  BY IdRange, SchedulingAssumption
  DEF Init, TypeOK, TasksType, DataType, ListsType, CountersType, DummyType,
      ThreadsType, HolderType, OutsideType, Failures, Thread, Waiting, NotRunning,
      DummyLists, SchedulingAssumption

\* Every step keeps the types.
LEMMA TypeNext == TypeOK /\ [Next]_vars => TypeOK'
<1>1. ASSUME TypeOK, UNCHANGED vars PROVE TypeOK'
  BY <1>1, TypeFrame DEF vars, TypeOK
<1>2. ASSUME TypeOK, Next PROVE TypeOK'
  BY <1>2, TypePLP, TypePCP, TypeHandlers, TypeConsole, TypeOutside DEF Next
<1>3. QED
  BY <1>1, <1>2

\* Whatever the number of CPUs and DTBs, the order of the messages and the
\* commands typed, every variable of the scheduler keeps its type.
THEOREM TypeInvariant == Spec => []TypeOK
  BY TypeInit, TypeNext, PTL DEF Spec
-----------------------------------------------------------------------------
(***************************************************************************)
(* That the planner and "finalizar" never take for idle a CPU that is      *)
(* executing.  The flag busy of a CPU says less than one must know: that a *)
(* CPU has at most one of an execution, a message of which SAFA has not    *)
(* yet freed it, and a "finalizar" that holds it.                          *)
(***************************************************************************)

\* The jobs that will free c: its own messages not yet started, and the
\* "finalizar" commands that have taken it.
Owes(c) == {j \in jobs : j.cpu = c /\ (j.msg = "FINALIZAR" \/ j.at = "start")}

Engaged(c) == running[c] # NotRunning \/ Owes(c) # {}

BookedCPU(c) ==
    /\ c \in cpus /\ Engaged(c) => c \in busy
    /\ running[c] # NotRunning => Owes(c) = {}
    /\ \A i, j \in Owes(c) : i = j
    /\ c \notin cpus \cup InitialCPUs => ~Engaged(c)

Booked == \A c \in CPUs : BookedCPU(c)

\* A CPU of which no more is expected than before stays as it was.
LEMMA BookedFrame ==
    ASSUME NEW c, BookedCPU(c), UNCHANGED <<cpus, running[c]>>,
           Owes(c)' \subseteq Owes(c), c \in busy => c \in busy'
    PROVE  BookedCPU(c)'
  BY DEF BookedCPU, Engaged

\* A CPU of which nothing is expected any more.
LEMMA BookedFree ==
    ASSUME NEW c, running'[c] = NotRunning, Owes(c)' = {}
    PROVE  BookedCPU(c)'
  BY DEF BookedCPU, Engaged

\* The PCP moves CPUs from idle to busy and sends them to execute.
LEMMA BookedPCP == ASSUME TypeOK, Booked, PCP PROVE Booked'
<1> SUFFICES ASSUME NEW c \in CPUs PROVE BookedCPU(c)'
  BY DEF Booked
<1>1. BookedCPU(c)
  BY DEF Booked
<1>2. CASE UNCHANGED <<cpus, busy, running, jobs>>
  BY <1>1, <1>2, BookedFrame DEF Owes
<1>3. ASSUME NEW k \in IdleCPUs, NEW r,
             running' = [running EXCEPT ![k] = r], busy' = busy \cup {k},
             UNCHANGED <<cpus, jobs>>
      PROVE  BookedCPU(c)'
  <2>1. Owes(c)' = Owes(c)
    BY <1>3 DEF Owes
  <2>2. CASE c = k
    <3>1. k \in cpus /\ ~Engaged(k)
      BY <1>1, <1>3, <2>2 DEF IdleCPUs, BookedCPU
    <3>2. QED
      BY <1>3, <2>1, <2>2, <3>1 DEF BookedCPU, Engaged
  <2>3. CASE c # k
    BY <1>1, <1>3, <2>1, <2>3, BookedFrame DEF TypeOK, OutsideType
  <2>4. QED
    BY <2>2, <2>3
<1>4. CASE PCPDispatches
  BY <1>3, <1>4 DEF PCPDispatches, PCPDispatchesDTB, PCPDispatchesDummy
<1>5. CASE ~PCPDispatches
  BY <1>2, <1>5
  DEF PCP, PCPCannotSchedule, PCPCanSchedule, PCPDispatchFails, PCPLoadsDummy,
      PCPFreesDummy, PCPFreedDummy, PCPBlocks, PCPBlockFails, PCPUnlocks,
      PCPUnlockFails, PCPEnds, PCPEnded, PCPEndFails, holder, outside
<1>6. QED
  BY <1>4, <1>5

\* A job frees its CPU and is then no longer expected to.
LEMMA BookedHandlers ==
    ASSUME TypeOK, Booked, NEW j \in jobs, Handler(j) \/ ConsoleJob(j)
    PROVE  Booked'
<1> SUFFICES ASSUME NEW c \in CPUs PROVE BookedCPU(c)'
  BY DEF Booked
<1>1. BookedCPU(c) /\ UNCHANGED <<cpus, running>>
  BY DEF Booked, Handler, ConsoleJob, CommandEjecutarPosts, CommandFinalizarPosts,
         CommandFinalizarTakesCPU, CommandFinalizarFails, holder, outside
<1>2. CASE UNCHANGED busy /\ Owes(c)' \subseteq Owes(c)
  BY <1>1, <1>2, BookedFrame
<1>3. ASSUME FreeCPU(j.cpu), j \in Owes(j.cpu), Owes(c)' \subseteq Owes(c) \ {j}
      PROVE  BookedCPU(c)'
  <2>1. CASE c = j.cpu
    BY <1>1, <1>3, <2>1, BookedFree DEF BookedCPU
  <2>2. CASE c # j.cpu
    BY <1>1, <1>3, <2>2, BookedFrame DEF FreeCPU
  <2>3. QED
    BY <2>1, <2>2
<1>4. CASE Handler(j)
  <2>1. CASE j.at = "start"
    <3>1. Pushed(j) /\ j.msg # "FINALIZAR"
      BY <1>4, <2>1 DEF Handler, Comms_DAM_DummyFinished,
        Comms_DAM_OperationFinished, Comms_DAM_IOError, Comms_CPU_ErrorOrEOF,
        Comms_CPU_DummyAtDAM, Comms_CPU_DTBAtDAM, Comms_CPU_OutOfQuantum
    <3>2. [j EXCEPT !.at = "post"].at = "post" /\ [j EXCEPT !.at = "post"].msg = j.msg
      BY DEF TypeOK, OutsideType, Jobs
    <3>3. Owes(c)' \subseteq Owes(c) \ {j}
      BY <3>1, <3>2 DEF Pushed, Owes
    <3>4. j \in Owes(j.cpu)
      BY <2>1 DEF Owes
    <3>5. UNCHANGED busy \/ FreeCPU(j.cpu)
      BY <1>4 DEF Handler, Comms_DAM_DummyFinished,
        Comms_DAM_OperationFinished, Comms_DAM_IOError, Comms_CPU_ErrorOrEOF,
        Comms_CPU_DummyAtDAM, Comms_CPU_DTBAtDAM, Comms_CPU_OutOfQuantum
    <3>6. QED
      BY <1>2, <1>3, <3>3, <3>4, <3>5
  <2>2. CASE j.at # "start"
    <3>1. Finished(j) /\ UNCHANGED busy
      BY <1>4, <2>2 DEF Handler, Comms_DAM_DummyFinished,
        Comms_DAM_OperationFinished, Comms_DAM_IOError, Comms_CPU_ErrorOrEOF,
        Comms_CPU_DummyAtDAM, Comms_CPU_DTBAtDAM, Comms_CPU_OutOfQuantum
    <3>2. QED
      BY <1>2, <3>1 DEF Finished, Owes
  <2>3. QED
    BY <2>1, <2>2
<1>5. CASE CommandEjecutarPosts(j)
  BY <1>2, <1>5 DEF CommandEjecutarPosts, Finished, Owes, holder
<1>6. CASE CommandFinalizarFails(j)
  BY <1>2, <1>6 DEF CommandFinalizarFails, Owes, holder, outside
<1>7. CASE CommandFinalizarPosts(j)
  BY <1>3, <1>7 DEF CommandFinalizarPosts, Finished, Owes
<1>8. CASE CommandFinalizarTakesCPU(j)
  <2>1. PICK k \in IdleCPUs :
           /\ busy' = busy \cup {k}
           /\ jobs' = (jobs \ {j}) \cup {[j EXCEPT !.at = "post", !.cpu = k]}
    BY <1>8 DEF CommandFinalizarTakesCPU
  <2>2. [j EXCEPT !.at = "post", !.cpu = k].cpu = k
    BY DEF TypeOK, OutsideType, Jobs
  <2>3. CASE c = k
    <3>1. k \in cpus /\ running[k] = NotRunning /\ Owes(k) = {}
      BY <1>1, <2>1, <2>3 DEF IdleCPUs, BookedCPU, Engaged
    <3>2. Owes(k)' \subseteq {[j EXCEPT !.at = "post", !.cpu = k]}
      BY <2>1, <3>1 DEF Owes
    <3>3. QED
      BY <1>1, <2>1, <2>3, <3>1, <3>2 DEF BookedCPU, Engaged
  <2>4. CASE c # k
    <3>1. Owes(c)' \subseteq Owes(c)
      BY <2>1, <2>2, <2>4 DEF Owes
    <3>2. QED
      BY <1>1, <2>1, <3>1, BookedFrame
  <2>5. QED
    BY <2>3, <2>4
<1>9. QED
  BY <1>4, <1>5, <1>6, <1>7, <1>8 DEF ConsoleJob

\* What the console and the DAM add holds no CPU.
LEMMA BookedArrivals ==
    ASSUME TypeOK, Booked, Console \/ \E r \in dam : DAMAnswers(r)
    PROVE  Booked'
<1> SUFFICES ASSUME NEW c \in CPUs PROVE BookedCPU(c)'
  BY DEF Booked
<1>1. UNCHANGED <<cpus, busy, running>>
  BY DEF Console, CommandEjecutar, CommandFinalizar, DAMAnswers, holder
<1>2. \E j : j.cpu = NoCPU /\ jobs' = jobs \cup {j}
  BY DEF Console, CommandEjecutar, CommandFinalizar, DAMAnswers, Message
<1>3. Owes(c)' \subseteq Owes(c)
  BY <1>2, SchedulingAssumption DEF Owes, SchedulingAssumption
<1>4. QED
  BY <1>1, <1>3, BookedFrame DEF Booked

\* A CPU stops executing when it speaks, and then owes one message.
LEMMA BookedCPUs ==
    ASSUME TypeOK, Booked, NEW k \in CPUs,
           CPUSpeaks(k) \/ CPUConnects(k) \/ CPUDisconnects(k)
    PROVE  Booked'
<1> SUFFICES ASSUME NEW c \in CPUs PROVE BookedCPU(c)'
  BY DEF Booked
<1>1. BookedCPU(c) /\ BookedCPU(k) /\ running \in [CPUs -> [kind : {"idle", "dtb", "dummy"}, id : Ids]]
  BY DEF Booked, TypeOK, OutsideType
<1>2. CASE CPUSpeaks(k)
  <2>1. PICK m : /\ m.cpu = k
                 /\ jobs' \subseteq jobs \cup {m}
                 /\ running' = [running EXCEPT ![k] = NotRunning]
                 /\ UNCHANGED <<cpus, busy>>
    <3>1. PICK msg, n : CPUSends(k, msg, n)
      BY <1>2 DEF CPUSpeaks, CPURunsDummy, CPURequestsIO, CPUEndsQuantum, CPUEndsDTB
    <3>2. Message(msg, running[k].id, k, n).cpu = k
      BY DEF Message
    <3>3. QED
      BY <3>1, <3>2 DEF CPUSends
  <2>2. running[k] # NotRunning
    BY <1>2 DEF CPUSpeaks, CPURunsDummy, CPURequestsIO, CPUEndsQuantum,
                CPUEndsDTB, NotRunning
  <2>3. CASE c = k
    <3>1. Owes(k) = {} /\ (k \in cpus => k \in busy) /\ k \in cpus \cup InitialCPUs
      BY <1>1, <2>2 DEF BookedCPU, Engaged
    <3>2. Owes(k)' \subseteq {m}
      BY <2>1, <3>1 DEF Owes
    <3>3. running'[k] = NotRunning
      BY <1>1, <2>1
    <3>4. QED
      BY <2>1, <2>3, <3>1, <3>2, <3>3 DEF BookedCPU
  <2>4. CASE c # k
    <3>1. Owes(c)' \subseteq Owes(c)
      BY <2>1, <2>4 DEF Owes
    <3>2. QED
      BY <1>1, <2>1, <2>4, <3>1, BookedFrame
  <2>5. QED
    BY <2>3, <2>4
<1>3. CASE CPUConnects(k)
  <2>1. UNCHANGED <<busy, running, jobs>> /\ cpus' = cpus \cup {k}
        /\ k \notin cpus \cup InitialCPUs
    BY <1>3 DEF CPUConnects, outside
  <2>2. Owes(c)' = Owes(c) /\ (Engaged(c)' <=> Engaged(c))
    BY <2>1 DEF Owes, Engaged
  <2>3. QED
    BY <1>1, <2>1, <2>2 DEF BookedCPU
<1>4. CASE CPUDisconnects(k)
  <2>1. /\ cpus' = cpus \ {k} /\ busy' = busy \ {k} /\ UNCHANGED jobs
        /\ running' = [running EXCEPT ![k] = NotRunning] /\ k \in InitialCPUs
    BY <1>4, SchedulingAssumption DEF CPUDisconnects, SchedulingAssumption
  <2>2. Owes(c)' = Owes(c)
    BY <2>1 DEF Owes
  <2>3. QED
    BY <1>1, <2>1, <2>2 DEF BookedCPU, Engaged
<1>5. QED
  BY <1>2, <1>3, <1>4

\* The invariant holds at the start and every step preserves it.
LEMMA BookedInit == Init => Booked
  BY SchedulingAssumption
  DEF SchedulingAssumption, Init, Booked, BookedCPU, Engaged, Owes

\* Every step preserves the invariant.
LEMMA BookedNext == TypeOK /\ Booked /\ [Next]_vars => Booked'
<1> SUFFICES ASSUME TypeOK, Booked, [Next]_vars PROVE Booked'
  OBVIOUS
<1>1. CASE UNCHANGED <<holder, running, jobs>>
  BY <1>1 DEF holder, Booked, BookedCPU, Engaged, Owes
<1>2. CASE PLP
  BY <1>1, <1>2 DEF PLP, PLPCannotSchedule, PLPTakesDummy, PLPAdmits, PLPCreates,
                    PLPInitializes, PLPInitializeFails, outside
<1>3. CASE UNCHANGED vars
  BY <1>1, <1>3 DEF vars, outside
<1>4. QED
  BY <1>2, <1>3, BookedPCP, BookedHandlers, BookedArrivals, BookedCPUs DEF Next

\* A CPU that executes a DTB or the dummy is never idle to the planner or to
\* "finalizar", whatever the order of its messages: SAFA never gives a CPU two
\* things to execute.
THEOREM BookingInvariant == Spec => []NoDoubleBooking
<1>1. TypeOK /\ Booked => NoDoubleBooking
  BY DEF Booked, BookedCPU, Engaged, NoDoubleBooking, TypeOK, HolderType
<1>2. QED
  BY <1>1, TypeInit, TypeNext, BookedInit, BookedNext, PTL DEF Spec

-----------------------------------------------------------------------------
\* The lifecycle.

\* A step that moves no DTB keeps every DTB in its place.
LEMMA PlaceFrame ==
    ASSUME OnePlace, UNCHANGED <<lists, nextID, InHand>>
    PROVE  OnePlace'
  BY DEF OnePlace, FirstNEW, NEWInOrder, lists

\* The first DTB of NEW is now in the hand of the PLP.
LEMMA PlaceTakesDummy == ASSUME TypeOK, OnePlace, PLPTakesDummy PROVE OnePlace'
<1>1. /\ NEWqueue \in Seq(DTBs) /\ NEWqueue # <<>> /\ nextID \in Int
      /\ NEWqueue' = Tail(NEWqueue) /\ nextID' = nextID
      /\ InHand = {} /\ InHand' = {Head(NEWqueue)}
      /\ UNCHANGED <<beingDummied, READY, EXEC, BLOCKED, EXIT>>
  BY DEF TypeOK, ListsType, CountersType, PLPTakesDummy, PLPTakes, CanAdmit,
         InHand, counters
<1>2. /\ Len(NEWqueue) \in Nat /\ Len(NEWqueue) >= 1
      /\ Len(Tail(NEWqueue)) = Len(NEWqueue) - 1
      /\ \A i \in 1..(Len(NEWqueue) - 1) : Tail(NEWqueue)[i] = NEWqueue[i + 1]
      /\ Head(NEWqueue) = NEWqueue[1]
  BY <1>1
<1>3. FirstNEW \in Int /\ FirstNEW' = FirstNEW + 1 /\ Head(NEWqueue) = FirstNEW
  BY <1>1, <1>2 DEF FirstNEW, OnePlace, NEWInOrder
<1>4. NEWInOrder'
  BY <1>1, <1>2, <1>3 DEF OnePlace, NEWInOrder
<1>5. 1..(FirstNEW' - 1) = (1..(FirstNEW - 1)) \cup {FirstNEW}
  BY <1>3 DEF OnePlace
<1>6. FirstNEW \notin 1..(FirstNEW - 1)
  BY <1>3
<1>7. QED
  BY <1>1, <1>3, <1>4, <1>5, <1>6 DEF OnePlace

\* The DTB in the hand of the PLP is now in beingDummied.
LEMMA PlaceAdmits == ASSUME TypeOK, OnePlace, PLPAdmits PROVE OnePlace'
<1>1. /\ InHand = {plp.dtb} /\ InHand' = {}
      /\ beingDummied' = beingDummied \cup {plp.dtb}
      /\ UNCHANGED <<NEWqueue, READY, EXEC, BLOCKED, EXIT, nextID>>
  BY DEF PLPAdmits, InHand, Waiting
<1>2. FirstNEW' = FirstNEW /\ NEWInOrder' = NEWInOrder
  BY <1>1 DEF FirstNEW, NEWInOrder
<1>3. QED
  BY <1>1, <1>2 DEF OnePlace

\* The new DTBs follow the others at the end of NEW.
LEMMA PlaceCreates == ASSUME TypeOK, OnePlace, PLPCreates PROVE OnePlace'
<1> DEFINE new == [i \in 1..scripts |-> nextID + i - 1]
<1>1. /\ NEWqueue \in Seq(DTBs) /\ nextID \in Nat /\ scripts \in Nat
      /\ NEWqueue' = NEWqueue \o new /\ nextID' = nextID + scripts
      /\ UNCHANGED <<beingDummied, READY, EXEC, BLOCKED, EXIT, InHand>>
  BY DEF TypeOK, ListsType, DataType, CountersType, PLPCreates, InHand, threads
<1>2. new \in Seq(Int) /\ Len(new) = scripts
  BY <1>1
<1>3. /\ Len(NEWqueue) \in Nat
      /\ Len(NEWqueue') = Len(NEWqueue) + scripts
      /\ \A i \in 1..Len(NEWqueue') :
            NEWqueue'[i] = IF i <= Len(NEWqueue) THEN NEWqueue[i]
                                                 ELSE new[i - Len(NEWqueue)]
  BY <1>1, <1>2
<1>4. FirstNEW' = FirstNEW /\ FirstNEW \in Int
  BY <1>1, <1>3 DEF FirstNEW
<1>5. ASSUME NEW i \in 1..Len(NEWqueue') PROVE NEWqueue'[i] = FirstNEW + i - 1
  <2>1. CASE i <= Len(NEWqueue)
    BY <1>1, <1>3, <2>1 DEF OnePlace, NEWInOrder
  <2>2. CASE i > Len(NEWqueue)
    <3>1. i - Len(NEWqueue) \in 1..scripts
      BY <1>1, <1>3, <2>2
    <3>2. new[i - Len(NEWqueue)] = nextID + (i - Len(NEWqueue)) - 1
      BY <3>1
    <3>3. QED
      BY <1>1, <1>3, <2>2, <3>2 DEF FirstNEW
  <2>3. QED
    BY <1>3, <2>1, <2>2
<1>6. NEWInOrder'
  BY <1>4, <1>5 DEF NEWInOrder
<1>7. QED
  BY <1>1, <1>4, <1>6 DEF OnePlace

\* The loaded DTBs leave beingDummied for READY.
LEMMA PlaceInitializes == ASSUME OnePlace, PLPInitializes PROVE OnePlace'
<1>1. /\ Loaded \subseteq beingDummied
      /\ beingDummied' = beingDummied \ Loaded /\ READY' = READY \cup Loaded
      /\ UNCHANGED <<NEWqueue, nextID, EXEC, BLOCKED, EXIT, InHand>>
  BY DEF PLPInitializes, counters, threads, InHand
<1>2. FirstNEW' = FirstNEW /\ NEWInOrder' = NEWInOrder
  BY <1>1 DEF FirstNEW, NEWInOrder
<1>3. QED
  BY <1>1, <1>2 DEF OnePlace

\* The searches of PCP_TASK_END_DTB: what a step that finds a DTB has done.
LEMMA EndsMoves ==
    ASSUME PCPEnds
    PROVE  \/ UNCHANGED lists
           \/ \E id \in beingDummied \cup READY \cup EXEC \cup BLOCKED :
                 /\ \/ /\ id \in beingDummied
                       /\ beingDummied' = beingDummied \ {id}
                       /\ UNCHANGED <<NEWqueue, READY, EXEC, BLOCKED>>
                    \/ /\ id \in READY
                       /\ READY' = READY \ {id}
                       /\ UNCHANGED <<NEWqueue, beingDummied, EXEC, BLOCKED>>
                    \/ /\ id \in EXEC
                       /\ EXEC' = EXEC \ {id}
                       /\ UNCHANGED <<NEWqueue, beingDummied, READY, BLOCKED>>
                    \/ /\ id \in BLOCKED
                       /\ BLOCKED' = BLOCKED \ {id}
                       /\ UNCHANGED <<NEWqueue, beingDummied, READY, EXEC>>
                 /\ EXIT' = EXIT \cup {id}
<1> DEFINE id == FirstOf(toBeEnded)
<1>1. NEWqueue' = NEWqueue /\ (EndsDummy(id) \/ EndsQueued(id) \/ EndsLoading(id))
  BY DEF PCPEnds
<1>2. CASE EndsDummy(id)
  BY <1>1, <1>2 DEF EndsDummy, lists
<1>3. CASE EndsQueued(id)
  <2>1. PICK i \in 1..3 :
           /\ FirstFound(id, i) /\ ~DummyHasId(SearchOrder[i], id)
           /\ BLOCKED' = IF SearchOrder[i] = "BLOCKED" THEN BLOCKED \ {id} ELSE BLOCKED
           /\ READY' = IF SearchOrder[i] = "READY" THEN READY \ {id} ELSE READY
           /\ EXEC' = IF SearchOrder[i] = "EXEC" THEN EXEC \ {id} ELSE EXEC
           /\ EXIT' = EXIT \cup {id}
           /\ UNCHANGED <<beingDummied, dummies>>
    BY <1>3 DEF EndsQueued
  <2>2. Holds(SearchOrder[i], id)
    BY <2>1 DEF FirstFound, FoundAt
  <2>3. i = 1 \/ i = 2 \/ i = 3
    OBVIOUS
  <2>4. CASE i = 1
    BY <1>1, <2>1, <2>2, <2>4 DEF Holds, SearchOrder
  <2>5. CASE i = 2
    BY <1>1, <2>1, <2>2, <2>5 DEF Holds, SearchOrder
  <2>6. CASE i = 3
    BY <1>1, <2>1, <2>2, <2>6 DEF Holds, SearchOrder
  <2>7. QED
    BY <2>3, <2>4, <2>5, <2>6
<1>4. CASE EndsLoading(id)
  BY <1>1, <1>4 DEF EndsLoading
<1>5. QED
  BY <1>1, <1>2, <1>3, <1>4

\* Every move of the short-term planner is from one list to another.
LEMMA PlacePCP == ASSUME TypeOK, OnePlace, PCP PROVE OnePlace'
<1>1. nextID' = nextID /\ InHand' = InHand
  BY DEF PCP, PCPCannotSchedule, PCPCanSchedule, PCPDispatches, PCPDispatchesDTB,
         PCPDispatchesDummy, PCPDispatchFails, PCPLoadsDummy, PCPFreesDummy,
         PCPFreedDummy, PCPBlocks, PCPBlockFails, PCPUnlocks, PCPUnlockFails,
         PCPEnds, PCPEnded, PCPEndFails, counters, threads, InHand
<1>2. ASSUME UNCHANGED NEWqueue
      PROVE  FirstNEW' = FirstNEW /\ NEWInOrder' = NEWInOrder
  BY <1>1, <1>2 DEF FirstNEW, NEWInOrder
<1>3. CASE UNCHANGED lists
  BY <1>1, <1>3, PlaceFrame
<1>4. ASSUME NEW c, NEW d \in READY, PCPDispatchesDTB(c, d) PROVE OnePlace'
  <2>1. UNCHANGED <<NEWqueue, beingDummied, BLOCKED, EXIT>>
    BY <1>4 DEF PCPDispatchesDTB
  <2>2. READY' = READY \ {d} /\ EXEC' = EXEC \cup {d}
    BY <1>4 DEF PCPDispatchesDTB
  <2>3. QED
    BY <1>1, <1>2, <2>1, <2>2 DEF OnePlace
<1>5. CASE PCPBlocks
  <2>1. \/ UNCHANGED lists
        \/ \E id \in EXEC : /\ EXEC' = EXEC \ {id} /\ BLOCKED' = BLOCKED \cup {id}
                            /\ UNCHANGED <<NEWqueue, beingDummied, READY, EXIT>>
    BY <1>5 DEF PCPBlocks, lists
  <2>2. ASSUME NEW id \in EXEC, EXEC' = EXEC \ {id}, BLOCKED' = BLOCKED \cup {id},
               UNCHANGED <<NEWqueue, beingDummied, READY, EXIT>>
        PROVE  OnePlace'
    BY <1>1, <1>2, <2>2 DEF OnePlace
  <2>3. QED
    BY <1>3, <2>1, <2>2
<1>6. CASE PCPUnlocks
  <2>1. \E id \in EXEC \cup BLOCKED :
           /\ EXEC' = EXEC \ {id}
           /\ BLOCKED' = IF id \in EXEC THEN BLOCKED ELSE BLOCKED \ {id}
           /\ READY' = READY \cup {id}
           /\ UNCHANGED <<NEWqueue, beingDummied, EXIT>>
    BY <1>6 DEF PCPUnlocks, Unlockable
  <2>2. QED
    BY <1>1, <1>2, <2>1 DEF OnePlace
<1>7. CASE PCPEnds
  <2>1. CASE UNCHANGED lists
    BY <1>3, <2>1
  <2>2. ASSUME ~UNCHANGED lists PROVE OnePlace'
    <3>1. UNCHANGED NEWqueue
      BY <1>7 DEF PCPEnds
    <3>2. QED
      BY <1>1, <1>2, <1>7, <2>2, <3>1, EndsMoves DEF OnePlace
  <2>3. QED
    BY <2>1, <2>2
<1>8. CASE PCPDispatches
  <2>1. CASE \E c \in IdleCPUs : PCPDispatchesDummy(c)
    BY <1>3, <2>1 DEF PCPDispatchesDummy
  <2>2. QED
    BY <1>4, <1>8, <2>1 DEF PCPDispatches
<1>9. CASE \/ PCPCannotSchedule \/ PCPCanSchedule \/ PCPDispatchFails
           \/ PCPLoadsDummy \/ PCPFreesDummy \/ PCPFreedDummy \/ PCPBlockFails
           \/ PCPUnlockFails \/ PCPEnded \/ PCPEndFails
  BY <1>3, <1>9
  DEF PCPCannotSchedule, PCPCanSchedule, PCPDispatchFails, PCPLoadsDummy,
      PCPFreesDummy, PCPFreedDummy, PCPBlockFails, PCPUnlockFails, PCPEnded,
      PCPEndFails
<1>10. QED
  BY <1>5, <1>6, <1>7, <1>8, <1>9 DEF PCP

\* The handlers, the console, the CPUs and the DAM move no DTB.
LEMMA OutsideMovesNone ==
    ASSUME \/ Console
           \/ \E j \in jobs : Handler(j) \/ ConsoleJob(j)
           \/ \E c \in CPUs : CPUSpeaks(c) \/ CPUConnects(c) \/ CPUDisconnects(c)
           \/ \E r \in dam : DAMAnswers(r)
    PROVE  UNCHANGED <<lists, counters, threads>>
<1>1. CASE Console
  BY <1>1 DEF Console, CommandEjecutar, CommandFinalizar
<1>2. CASE \E j \in jobs : Handler(j) \/ ConsoleJob(j)
  BY <1>2 DEF Handler, ConsoleJob, CommandEjecutarPosts,
              CommandFinalizarTakesCPU, CommandFinalizarFails, CommandFinalizarPosts
<1>3. CASE \E c \in CPUs : CPUSpeaks(c) \/ CPUConnects(c) \/ CPUDisconnects(c)
  BY <1>3 DEF CPUSpeaks, CPURunsDummy, CPURequestsIO, CPUEndsQuantum, CPUEndsDTB,
              CPUSends, CPUConnects, CPUDisconnects
<1>4. CASE \E r \in dam : DAMAnswers(r)
  BY <1>4 DEF DAMAnswers
<1>5. QED
  BY <1>1, <1>2, <1>3, <1>4

\* There are no DTBs at the start.
LEMMA PlaceInit == Init => OnePlace
  BY DEF Init, OnePlace, FirstNEW, NEWInOrder, InHand, Waiting

\* Every step of the scheduler keeps every DTB in one place.
LEMMA PlaceNext == TypeOK /\ OnePlace /\ [Next]_vars => OnePlace'
<1> SUFFICES ASSUME TypeOK, OnePlace, [Next]_vars PROVE OnePlace'
  OBVIOUS
<1>1. CASE UNCHANGED vars
  BY <1>1, PlaceFrame DEF vars, counters, threads, InHand
<1>2. CASE PLP
  <2>1. CASE PLPCannotSchedule \/ PLPInitializeFails
    BY <2>1, PlaceFrame
    DEF PLPCannotSchedule, PLPInitializeFails, counters, threads, InHand
  <2>2. QED
    BY <1>2, <2>1, PlaceTakesDummy, PlaceAdmits, PlaceCreates, PlaceInitializes
    DEF PLP
<1>3. CASE PCP
  BY <1>3, PlacePCP
<1>4. CASE UNCHANGED <<lists, counters, threads>>
  BY <1>4, PlaceFrame DEF counters, threads, InHand
<1>5. QED
  BY <1>1, <1>2, <1>3, <1>4, OutsideMovesNone DEF Next

\* No execution of the scheduler loses or duplicates a DTB, and the long-term
\* planner admits them in the order of their ids.
THEOREM PlaceInvariant == Spec => []OnePlace
  BY TypeInit, TypeNext, PlaceInit, PlaceNext, PTL DEF Spec

-----------------------------------------------------------------------------
(* The refinement. *)

\* The DTBs of NEW are the youngest ones.
LEMMA NEWIs == ASSUME TypeOK, OnePlace PROVE InNEW = FirstNEW..(nextID - 1)
<1>1. Len(NEWqueue) \in Nat /\ DOMAIN NEWqueue = 1..Len(NEWqueue) /\ nextID \in Int
  BY DEF TypeOK, ListsType, CountersType
<1>2. ASSUME NEW d \in FirstNEW..(nextID - 1) PROVE d \in InNEW
  <2>1. d - FirstNEW + 1 \in 1..Len(NEWqueue)
    BY <1>1 DEF FirstNEW
  <2>2. NEWqueue[d - FirstNEW + 1] = FirstNEW + (d - FirstNEW + 1) - 1
    BY <2>1 DEF OnePlace, NEWInOrder
  <2>3. NEWqueue[d - FirstNEW + 1] = d
    BY <1>1, <2>2 DEF FirstNEW
  <2>4. QED
    BY <1>1, <2>1, <2>3 DEF InNEW
<1>3. ASSUME NEW i \in 1..Len(NEWqueue) PROVE NEWqueue[i] \in FirstNEW..(nextID - 1)
  <2>1. NEWqueue[i] = FirstNEW + i - 1
    BY DEF OnePlace, NEWInOrder
  <2>2. QED
    BY <1>1, <2>1 DEF FirstNEW
<1>4. QED
  BY <1>1, <1>2, <1>3 DEF InNEW

\* What the lists say of a DTB, one list at a time.
Placed(d) ==
    /\ StatusOf(d) \in {"unborn", "NEW", "DUMMYING", "READY", "EXEC", "BLOCKED",
                        "EXIT"}
    /\ StatusOf(d) = "READY" <=> d \in READY
    /\ StatusOf(d) = "EXEC" <=> d \in EXEC
    /\ StatusOf(d) = "BLOCKED" <=> d \in BLOCKED
    /\ StatusOf(d) = "EXIT" <=> d \in EXIT
    /\ StatusOf(d) = "DUMMYING" <=> d \in beingDummied \cup InHand
    /\ StatusOf(d) = "NEW" <=> d \in FirstNEW..(nextID - 1)
    /\ StatusOf(d) = "unborn" <=> d >= nextID

AllPlaced == \A d \in DTBs : Placed(d)

\* The lists tell the state of a DTB without ambiguity.
LEMMA StatusTable == TypeOK /\ OnePlace => AllPlaced
<1> SUFFICES ASSUME TypeOK, OnePlace, NEW d \in DTBs PROVE Placed(d)
  BY DEF AllPlaced
<1>1. InNEW = FirstNEW..(nextID - 1)
  BY NEWIs
<1>2. /\ nextID \in Int /\ d \in Int /\ d >= 1
      /\ FirstNEW \in Int /\ FirstNEW <= nextID
  BY DEF TypeOK, CountersType, ListsType, DTBs, FirstNEW
<1> DEFINE A == InHand \cup beingDummied \cup READY \cup EXEC \cup BLOCKED \cup EXIT
<1>3. A = 1..(FirstNEW - 1)
  BY DEF OnePlace
<1>4. (d \in A <=> d < FirstNEW) /\ (d \in InNEW <=> FirstNEW <= d /\ d < nextID)
  BY <1>1, <1>2, <1>3
<1>5. CASE d \in A
  BY <1>2, <1>4, <1>5 DEF OnePlace, StatusOf, Placed
<1>6. CASE d \notin A
  BY <1>2, <1>4, <1>6 DEF StatusOf, Placed
<1>7. QED
  BY <1>5, <1>6

\* The same of the state after a step.
LEMMA StatusTableNext == TypeOK' /\ OnePlace' => AllPlaced'
  BY StatusTable, PTL

\* The facts of the two states of a step that the lemmas below share.
Step == /\ TypeOK /\ OnePlace /\ AllPlaced
        /\ TypeOK' /\ OnePlace' /\ AllPlaced'

\* The abstract step in which the DTBs of D change to state s.
LEMMA Moves ==
    ASSUME NEW D, NEW s,
           \A d \in DTBs : StatusOf(d)' = IF d \in D THEN s ELSE StatusOf(d)
    PROVE  Lifecycle!Become(D, s)
  BY DEF Lifecycle!Become, Lifecycle!Ids, DTBs

\* The DTBs in an abstract state.
LEMMA InIs ==
    \A s, d : d \in Lifecycle!In(s) <=> d \in DTBs /\ StatusOf(d) = s
  BY DEF Lifecycle!In, Lifecycle!Ids, DTBs

\* A step that leaves the lists alone is no step of the lifecycle.
LEMMA StutterFrame ==
    ASSUME UNCHANGED <<lists, nextID, InHand>>
    PROVE  UNCHANGED [d \in DTBs |-> StatusOf(d)]
  BY DEF StatusOf, InNEW, lists

\* The long-term planner admits the oldest DTB of NEW.
LEMMA TakesDummyAdmits == ASSUME Step, PLPTakesDummy PROVE Lifecycle!Admit
<1> DEFINE h == FirstNEW
<1>1. /\ NEWqueue \in Seq(DTBs) /\ NEWqueue # <<>> /\ nextID \in Int
      /\ NEWqueue' = Tail(NEWqueue) /\ nextID' = nextID
      /\ InHand = {} /\ InHand' = {Head(NEWqueue)}
      /\ UNCHANGED <<beingDummied, READY, EXEC, BLOCKED, EXIT>>
  BY DEF Step, TypeOK, ListsType, CountersType, PLPTakesDummy, PLPTakes, CanAdmit,
         InHand, counters
<1>2. /\ Len(NEWqueue) \in Nat /\ Len(NEWqueue) >= 1
      /\ Len(Tail(NEWqueue)) = Len(NEWqueue) - 1
      /\ Head(NEWqueue) = NEWqueue[1] /\ Head(NEWqueue) \in DTBs
  BY <1>1
<1>3. /\ h \in DTBs /\ FirstNEW' = h + 1 /\ Head(NEWqueue) = h /\ h < nextID
      /\ h \in Int
  BY <1>1, <1>2 DEF FirstNEW, Step, OnePlace, NEWInOrder, DTBs
<1>4. ASSUME NEW d \in DTBs
      PROVE  StatusOf(d)' = IF d \in {h} THEN "DUMMYING" ELSE StatusOf(d)
  <2>1. Placed(d) /\ Placed(d)' /\ d \in Int
    BY DEF Step, AllPlaced, DTBs
  <2>2. h \notin beingDummied \cup READY \cup EXEC \cup BLOCKED \cup EXIT
    BY <1>3 DEF Step, OnePlace
  <2>3. QED
    BY <1>1, <1>3, <2>1, <2>2 DEF Placed
<1>5. Lifecycle!Become({h}, "DUMMYING")
  BY <1>4, Moves
<1>6. h \in Lifecycle!In("NEW")
  BY <1>1, <1>3, InIs DEF Step, AllPlaced, Placed
<1>7. \A e \in Lifecycle!In("NEW") : h <= e
  BY <1>1, <1>3, InIs DEF DTBs, Step, AllPlaced, Placed
<1>8. QED
  BY <1>5, <1>6, <1>7 DEF Lifecycle!Admit

\* A batch of scripts gives DTBs with consecutive ids, or none is pending.
LEMMA CreatesCreates ==
    ASSUME Step, PLPCreates
    PROVE  Lifecycle!Create \/ UNCHANGED [d \in DTBs |-> StatusOf(d)]
<1> DEFINE new == nextID..(nextID' - 1)
<1>1. /\ nextID \in Nat /\ scripts \in Nat /\ nextID' = nextID + scripts
      /\ nextID + scripts <= MaxDTB + 1 /\ nextID >= 1
      /\ UNCHANGED <<beingDummied, READY, EXEC, BLOCKED, EXIT, InHand>>
  BY DEF Step, TypeOK, ListsType, DataType, CountersType, PLPCreates, InHand, threads
<1>2. FirstNEW' = FirstNEW /\ FirstNEW \in Int /\ FirstNEW <= nextID
  <2>1. Len(NEWqueue) \in Nat /\ Len(NEWqueue') = Len(NEWqueue) + scripts
    BY <1>1 DEF Step, TypeOK, ListsType, PLPCreates
  <2>2. QED
    BY <1>1, <2>1 DEF FirstNEW
<1>3. ASSUME NEW d \in DTBs
      PROVE  StatusOf(d)' = IF d \in new THEN "NEW" ELSE StatusOf(d)
  <2>1. Placed(d) /\ Placed(d)' /\ d \in Int
    BY DEF Step, AllPlaced, DTBs
  <2>2. QED
    BY <1>1, <1>2, <2>1 DEF Placed
<1>4. Lifecycle!Become(new, "NEW")
  BY <1>3, Moves
<1>5. CASE scripts = 0
  <2>1. UNCHANGED NEWqueue
    BY <1>5 DEF PLPCreates, Step, TypeOK, ListsType
  <2>2. QED
    BY <1>1, <1>5, <2>1, StutterFrame DEF lists
<1>6. CASE scripts > 0
  <2> DEFINE last == nextID + scripts - 1
  <2>1. last \in DTBs /\ MaxDTB \in Nat
    BY <1>1, <1>6, SchedulingAssumption DEF SchedulingAssumption, DTBs
  <2>2. \A d \in DTBs : d \in Lifecycle!In("unborn") <=> d >= nextID
    BY InIs DEF Step, AllPlaced, Placed
  <2>3. {d \in Lifecycle!In("unborn") : d <= last} = new
    BY <1>1, <2>1, <2>2, InIs DEF DTBs
  <2>4. last \in Lifecycle!In("unborn")
    BY <1>1, <1>6, <2>1, <2>2
  <2>5. QED
    BY <1>4, <2>3, <2>4 DEF Lifecycle!Create
<1>7. QED
  BY <1>1, <1>5, <1>6

\* The loaded DTBs go from beingDummied to READY.
LEMMA LoadsLoad == ASSUME Step, PLPInitializes PROVE Lifecycle!Load
<1>1. /\ Loaded \subseteq beingDummied
      /\ beingDummied' = beingDummied \ Loaded /\ READY' = READY \cup Loaded
      /\ UNCHANGED <<NEWqueue, nextID, EXEC, BLOCKED, EXIT, InHand, FirstNEW>>
  BY DEF PLPInitializes, counters, threads, InHand, FirstNEW
<1>2. ASSUME NEW d \in DTBs
      PROVE  StatusOf(d)' = IF d \in Loaded THEN "READY" ELSE StatusOf(d)
  <2>1. Placed(d) /\ Placed(d)'
    BY DEF Step, AllPlaced
  <2>2. QED
    BY <1>1, <2>1 DEF Placed, Step, OnePlace
<1>3. Lifecycle!Become(Loaded, "READY")
  BY <1>2, Moves
<1>4. Loaded \in SUBSET Lifecycle!In("DUMMYING")
  BY <1>1, InIs DEF Step, AllPlaced, Placed, TypeOK, ListsType
<1>5. QED
  BY <1>3, <1>4 DEF Lifecycle!Load

\* The DTB that the policy picks goes from READY to EXEC.
LEMMA DispatchesDispatch ==
    ASSUME Step, NEW c, NEW d \in READY, PCPDispatchesDTB(c, d)
    PROVE  Lifecycle!Dispatch
<1>1. /\ READY' = READY \ {d} /\ EXEC' = EXEC \cup {d}
      /\ UNCHANGED <<NEWqueue, nextID, beingDummied, BLOCKED, EXIT, InHand, FirstNEW>>
  BY DEF PCPDispatchesDTB, counters, InHand, FirstNEW
<1>2. d \in Lifecycle!In("READY")
  BY InIs DEF Step, AllPlaced, Placed, TypeOK, ListsType
<1>3. ASSUME NEW e \in DTBs
      PROVE  StatusOf(e)' = IF e \in {d} THEN "EXEC" ELSE StatusOf(e)
  <2>1. Placed(e) /\ Placed(e)'
    BY DEF Step, AllPlaced
  <2>2. QED
    BY <1>1, <2>1 DEF Placed, Step, OnePlace
<1>4. Lifecycle!Become({d}, "EXEC")
  BY <1>3, Moves
<1>5. QED
  BY <1>2, <1>4 DEF Lifecycle!Dispatch

\* A DTB of EXEC is blocked, or the dummy is in its stead.
LEMMA BlocksBlock ==
    ASSUME Step, PCPBlocks
    PROVE  Lifecycle!Block \/ UNCHANGED [d \in DTBs |-> StatusOf(d)]
<1>1. UNCHANGED <<NEWqueue, nextID, beingDummied, READY, EXIT, InHand, FirstNEW>>
  BY DEF PCPBlocks, counters, threads, InHand, FirstNEW
<1>2. \/ UNCHANGED <<EXEC, BLOCKED>>
      \/ \E d \in EXEC : EXEC' = EXEC \ {d} /\ BLOCKED' = BLOCKED \cup {d}
  BY DEF PCPBlocks
<1>3. CASE UNCHANGED <<EXEC, BLOCKED>>
  BY <1>1, <1>3, StutterFrame DEF lists
<1>4. ASSUME NEW d \in EXEC, EXEC' = EXEC \ {d}, BLOCKED' = BLOCKED \cup {d}
      PROVE  Lifecycle!Block
  <2>1. d \in Lifecycle!In("EXEC")
    BY InIs DEF Step, AllPlaced, Placed, TypeOK, ListsType
  <2>2. ASSUME NEW e \in DTBs
        PROVE  StatusOf(e)' = IF e \in {d} THEN "BLOCKED" ELSE StatusOf(e)
    <3>1. Placed(e) /\ Placed(e)'
      BY DEF Step, AllPlaced
    <3>2. QED
      BY <1>1, <1>4, <3>1 DEF Placed, Step, OnePlace
  <2>3. Lifecycle!Become({d}, "BLOCKED")
    BY <2>2, Moves
  <2>4. QED
    BY <2>1, <2>3 DEF Lifecycle!Block
<1>5. QED
  BY <1>2, <1>3, <1>4

\* A DTB goes back to READY, at the end of its quantum or of its operation.
LEMMA UnlocksUnlock == ASSUME Step, PCPUnlocks PROVE Lifecycle!Unlock
<1>1. PICK d \in EXEC \cup BLOCKED :
         /\ EXEC' = EXEC \ {d}
         /\ BLOCKED' = IF d \in EXEC THEN BLOCKED ELSE BLOCKED \ {d}
         /\ READY' = READY \cup {d}
  BY DEF PCPUnlocks, Unlockable
<1>2. UNCHANGED <<NEWqueue, nextID, beingDummied, EXIT, InHand, FirstNEW>>
  BY DEF PCPUnlocks, counters, threads, InHand, FirstNEW
<1>3. d \in Lifecycle!In("EXEC") \cup Lifecycle!In("BLOCKED")
  BY InIs DEF Step, AllPlaced, Placed, TypeOK, ListsType
<1>4. ASSUME NEW e \in DTBs
      PROVE  StatusOf(e)' = IF e \in {d} THEN "READY" ELSE StatusOf(e)
  <2>1. Placed(e) /\ Placed(e)'
    BY DEF Step, AllPlaced
  <2>2. QED
    BY <1>1, <1>2, <2>1 DEF Placed, Step, OnePlace
<1>5. Lifecycle!Become({d}, "READY")
  BY <1>4, Moves
<1>6. QED
  BY <1>3, <1>5 DEF Lifecycle!Unlock

\* A DTB is ended wherever it is found, or the dummy is in its stead.
LEMMA EndsEnd ==
    ASSUME Step, PCPEnds
    PROVE  Lifecycle!End \/ UNCHANGED [d \in DTBs |-> StatusOf(d)]
<1>1. UNCHANGED <<NEWqueue, nextID, InHand, FirstNEW>>
  BY DEF PCPEnds, counters, InHand, FirstNEW
<1>2. CASE UNCHANGED lists
  BY <1>1, <1>2, StutterFrame
<1>3. ASSUME ~UNCHANGED lists PROVE Lifecycle!End
  <2>1. PICK d \in beingDummied \cup READY \cup EXEC \cup BLOCKED :
           /\ beingDummied' = beingDummied \ {d} /\ READY' = READY \ {d}
           /\ EXEC' = EXEC \ {d} /\ BLOCKED' = BLOCKED \ {d}
           /\ EXIT' = EXIT \cup {d}
    BY <1>3, EndsMoves DEF Step, OnePlace
  <2>2. d \in DTBs /\ StatusOf(d) \in Lifecycle!InSystem
    BY DEF Lifecycle!InSystem, Step, AllPlaced, Placed, TypeOK, ListsType
  <2>3. ASSUME NEW e \in DTBs
        PROVE  StatusOf(e)' = IF e \in {d} THEN "EXIT" ELSE StatusOf(e)
    <3>1. Placed(e) /\ Placed(e)'
      BY DEF Step, AllPlaced
    <3>2. QED
      BY <1>1, <2>1, <3>1 DEF Placed, Step, OnePlace
  <2>4. Lifecycle!Become({d}, "EXIT")
    BY <2>3, Moves
  <2>5. QED
    BY <2>2, <2>4 DEF Lifecycle!End, Lifecycle!Ids, DTBs
<1>4. QED
  BY <1>2, <1>3

\* From the hand of the PLP to beingDummied: DUMMYING both.
LEMMA AdmitsStutter ==
    ASSUME Step, PLPAdmits PROVE UNCHANGED [d \in DTBs |-> StatusOf(d)]
<1>1. UNCHANGED <<NEWqueue, READY, EXEC, BLOCKED, EXIT>>
  BY DEF PLPAdmits
<1>2. beingDummied' \cup InHand' = beingDummied \cup InHand
  BY DEF PLPAdmits, InHand, Waiting
<1>3. QED
  BY <1>1, <1>2 DEF StatusOf, InNEW

\* The abstract specification takes a step or stutters.
Simulates == [Lifecycle!Next]_[d \in DTBs |-> StatusOf(d)]

\* Every step of the short-term planner is one of the lifecycle or none.
LEMMA PCPSimulates == ASSUME Step, PCP PROVE Simulates
<1>1. CASE PCPBlocks
  BY <1>1, BlocksBlock DEF Simulates, Lifecycle!Next
<1>2. CASE PCPUnlocks
  BY <1>2, UnlocksUnlock DEF Simulates, Lifecycle!Next
<1>3. CASE PCPEnds
  BY <1>3, EndsEnd DEF Simulates, Lifecycle!Next
<1>4. CASE PCPDispatches
  <2>1. ASSUME NEW c, PCPDispatchesDummy(c) PROVE Simulates
    BY <2>1, StutterFrame DEF PCPDispatchesDummy, counters, InHand, Simulates
  <2>2. ASSUME NEW c, NEW d \in READY, PCPDispatchesDTB(c, d) PROVE Simulates
    BY <2>2, DispatchesDispatch DEF Simulates, Lifecycle!Next
  <2>3. QED
    BY <1>4, <2>1, <2>2 DEF PCPDispatches
<1>5. CASE \/ PCPCannotSchedule \/ PCPCanSchedule \/ PCPDispatchFails
           \/ PCPLoadsDummy \/ PCPFreesDummy \/ PCPFreedDummy \/ PCPBlockFails
           \/ PCPUnlockFails \/ PCPEnded \/ PCPEndFails
  <2>1. UNCHANGED <<lists, nextID, InHand>>
    BY <1>5
    DEF PCPCannotSchedule, PCPCanSchedule, PCPDispatchFails, PCPLoadsDummy,
        PCPFreesDummy, PCPFreedDummy, PCPBlockFails, PCPUnlockFails, PCPEnded,
        PCPEndFails, counters, threads, InHand
  <2>2. QED
    BY <2>1, StutterFrame DEF Simulates
<1>6. QED
  BY <1>1, <1>2, <1>3, <1>4, <1>5 DEF PCP

\* So is every step of the long-term planner.
LEMMA PLPSimulates == ASSUME Step, PLP PROVE Simulates
<1>1. CASE PLPCannotSchedule \/ PLPInitializeFails
  BY <1>1, StutterFrame
  DEF PLPCannotSchedule, PLPInitializeFails, counters, threads, InHand, Simulates
<1>2. QED
  BY <1>1, TakesDummyAdmits, AdmitsStutter, CreatesCreates, LoadsLoad
  DEF PLP, Simulates, Lifecycle!Next

\* No DTB is born at the start.
LEMMA InitSimulates == Init => Lifecycle!Init
  BY DEF Init, Lifecycle!Init, Lifecycle!Ids, DTBs, StatusOf, InNEW, InHand, Waiting

\* Every step of the scheduler is one of the lifecycle or none.
LEMMA NextSimulates == Step /\ [Next]_vars => Simulates
<1> SUFFICES ASSUME Step, [Next]_vars PROVE Simulates
  OBVIOUS
<1>1. CASE UNCHANGED vars
  BY <1>1, StutterFrame DEF vars, counters, threads, InHand, Simulates
<1>2. CASE UNCHANGED <<lists, counters, threads>>
  BY <1>2, StutterFrame DEF counters, threads, InHand, Simulates
<1>3. QED
  BY <1>1, <1>2, PLPSimulates, PCPSimulates, OutsideMovesNone DEF Next

\* The scheduler implements the lifecycle of a DTB: whatever the order of the
\* messages and of the "finalizar" commands, every step is one of the diagram's
\* transitions or moves no DTB.
THEOREM Refinement == Spec => ImplementsLifecycle
<1>1. TypeOK /\ OnePlace /\ TypeOK' /\ OnePlace' /\ [Next]_vars
        => [Lifecycle!Next]_[d \in DTBs |-> StatusOf(d)]
  BY StatusTable, StatusTableNext, NextSimulates DEF Step, Simulates
<1>2. QED
  BY <1>1, InitSimulates, TypeInvariant, PlaceInvariant, PTL
  DEF Spec, ImplementsLifecycle, Lifecycle!Spec

-----------------------------------------------------------------------------
\* The counter of DTBs in memory.

\* How many DTBs hold a place in memory.
Held == Cardinality(InMemory)

\* The PLP admits only while there was room when it looked; the counter exceeds
\* the DTBs in memory by less than Degree, but for the one that the PCP ends.
Room ==
    /\ plp.at = "admit" => plp.reg < Degree
    /\ pcp.at # "exit" => inMemoryAmount - Held < Degree
    /\ pcp.at = "exit" => inMemoryAmount - Held =< Degree /\ pcp.reg - Held =< Degree

\* The memory holds a number of DTBs, one more when one is loaded, at most one less
\* when one ends.
LEMMA HeldIs == ASSUME TypeOK PROVE IsFiniteSet(InMemory) /\ Held \in Nat
<1>1. IsFiniteSet(DTBs)
  BY SchedulingAssumption, FS_Interval DEF DTBs, SchedulingAssumption
<1>2. InMemory \subseteq DTBs
  BY DEF InMemory, TypeOK, ListsType
<1>3. QED  BY <1>1, <1>2, FS_Subset, FS_CardinalityType DEF Held

\* A set that may have lost a member has at most one less than it had.
LEMMA HeldLess ==
  ASSUME NEW S, IsFiniteSet(S), NEW T, NEW d, T = S \/ T = S \ {d}
  PROVE  Cardinality(T) \in Nat /\ Cardinality(S) \in Nat /\ Cardinality(S) =< Cardinality(T) + 1
<1>1. Cardinality(S) \in Nat
  BY FS_CardinalityType
<1>2. CASE T = S
  BY <1>1, <1>2
<1>3. CASE T = S \ {d}
  <2>1. /\ IsFiniteSet(S \ {d})
        /\ Cardinality(S \ {d}) = IF d \in S THEN Cardinality(S) - 1 ELSE Cardinality(S)
    BY FS_RemoveElement
  <2>2. Cardinality(S \ {d}) \in Nat
    BY <2>1, FS_CardinalityType
  <2>3. QED  BY <1>1, <1>3, <2>1, <2>2
<1>4. QED  BY <1>2, <1>3

\* The PLP writes the value it loaded, plus one, when it admits.
LEMMA RoomAdmits == ASSUME TypeOK, OnePlace, Room, PLPAdmits PROVE Room'
<1>1. /\ plp.at = "admit" /\ plp.reg < Degree /\ plp.reg \in Int /\ Degree \in Nat
      /\ inMemoryAmount' = plp.reg + 1 /\ plp'.at = "wait" /\ pcp' = pcp
      /\ InMemory' = InMemory \cup {plp.dtb}
      /\ pcp.reg \in Int
  BY SchedulingAssumption DEF PLPAdmits, Room, TypeOK, ThreadsType, Thread, Waiting, InMemory,
                             SchedulingAssumption
<1>2. plp.dtb \notin InMemory
  BY <1>1 DEF OnePlace, InHand, InMemory
<1>3. PICK h \in Nat : h = Held
  BY HeldIs
<1>4. Held' = h + 1
  <2>1. Cardinality(InMemory \cup {plp.dtb}) = Cardinality(InMemory) + 1
    BY <1>2, HeldIs, FS_AddElement
  <2>2. QED  BY <1>1, <1>3, <2>1 DEF Held
<1>5. QED  BY <1>1, <1>3, <1>4 DEF Room

\* The PCP loads the counter when it starts to end a DTB.
LEMMA RoomEnds == ASSUME TypeOK, Room, PCPEnds PROVE Room'
<1>1. /\ pcp.at = "wait" /\ pcp'.at = "exit" /\ pcp'.reg = inMemoryAmount
      /\ inMemoryAmount' = inMemoryAmount /\ plp' = plp
      /\ inMemoryAmount \in Int /\ Degree \in Nat
  BY SchedulingAssumption DEF PCPEnds, PCPTakes, TypeOK, CountersType, SchedulingAssumption, counters
<1>2. \E d : InMemory' = InMemory \/ InMemory' = InMemory \ {d}
  <2>1. PICK id : EndsDummy(id) \/ EndsQueued(id) \/ EndsLoading(id)
    BY DEF PCPEnds
  <2>2. CASE EndsDummy(id)
    BY <2>2 DEF EndsDummy, InMemory
  <2>3. CASE EndsQueued(id)
    <3>1. /\ BLOCKED' \in {BLOCKED, BLOCKED \ {id}} /\ READY' \in {READY, READY \ {id}}
          /\ EXEC' \in {EXEC, EXEC \ {id}} /\ beingDummied' = beingDummied
      BY <2>3 DEF EndsQueued
    <3>2. \A e : e # id => (e \in InMemory' <=> e \in InMemory)
      BY <3>1 DEF InMemory
    <3>3. \A e : e \in InMemory' => e \in InMemory
      BY <3>1 DEF InMemory
    <3>4. CASE id \in InMemory'
      <4>1. InMemory' = InMemory
        BY <3>2, <3>3, <3>4
      <4>2. QED  BY <4>1
    <3>5. CASE id \notin InMemory'
      <4>1. InMemory' = InMemory \ {id}
        BY <3>2, <3>3, <3>5
      <4>2. QED  BY <4>1
    <3>6. QED  BY <3>4, <3>5
  <2>4. CASE EndsLoading(id)
    BY <2>4 DEF EndsLoading, InMemory
  <2>5. QED  BY <2>1, <2>2, <2>3, <2>4
<1>3. Held' \in Nat /\ Held \in Nat /\ Held =< Held' + 1
  <2>1. PICK d : InMemory' = InMemory \/ InMemory' = InMemory \ {d}
    BY <1>2
  <2>2. IsFiniteSet(InMemory)
    BY HeldIs
  <2>3. /\ Cardinality(InMemory') \in Nat /\ Cardinality(InMemory) \in Nat
        /\ Cardinality(InMemory) =< Cardinality(InMemory') + 1
    BY <2>1, <2>2, HeldLess, Zenon
  <2>4. QED  BY <2>3 DEF Held
<1>4. PICK h : h = Held
  OBVIOUS
<1>5. PICK k : k = Held'
  OBVIOUS
<1>6. h \in Nat /\ k \in Nat /\ h =< k + 1
  BY <1>3, <1>4, <1>5
<1>7. inMemoryAmount - h < Degree
  BY <1>1, <1>4 DEF Room
<1>8. inMemoryAmount - k =< Degree
  BY <1>1, <1>6, <1>7
<1>9. inMemoryAmount' - Held' =< Degree /\ pcp'.reg - Held' =< Degree
  BY <1>1, <1>5, <1>8
<1>10. plp'.at = "admit" => plp'.reg < Degree
  BY <1>1 DEF Room
<1>11. QED  BY <1>1, <1>9, <1>10 DEF Room

\* All other steps leave as many DTBs in memory.
LEMMA MemoryStays ==
  ASSUME TypeOK, OnePlace, [Next]_vars, ~PLPAdmits, ~PCPEnds
  PROVE  InMemory' = InMemory
<1>1. CASE UNCHANGED vars
  BY <1>1 DEF vars, lists, InMemory
<1>2. CASE PLP
  <2>1. CASE PLPInitializes
    BY <2>1 DEF PLPInitializes, InMemory
  <2>2. QED
    BY <1>2, <2>1 DEF PLP, PLPCannotSchedule, PLPTakesDummy, PLPCreates, PLPInitializeFails,
                      lists, InMemory
<1>3. CASE PCP
  <2>1. CASE PCPDispatches
    BY <2>1 DEF PCPDispatches, PCPDispatchesDTB, PCPDispatchesDummy, InMemory, lists
  <2>2. CASE PCPBlocks
    BY <2>2 DEF PCPBlocks, InMemory
  <2>3. CASE PCPUnlocks
    BY <2>3 DEF PCPUnlocks, Unlockable, InMemory
  <2>4. QED
    BY <1>3, <2>1, <2>2, <2>3
    DEF PCP, PCPCannotSchedule, PCPCanSchedule, PCPDispatchFails, PCPLoadsDummy, PCPFreesDummy,
        PCPFreedDummy, PCPBlockFails, PCPUnlockFails, PCPEnded, PCPEndFails, lists, InMemory
<1>4. CASE ~PLP /\ ~PCP /\ Next
  BY <1>4, OutsideMovesNone DEF Next, lists, InMemory
<1>5. QED  BY <1>1, <1>2, <1>3, <1>4

\* No other step makes the counter grow, or the memory shrink, by itself.
LEMMA RoomStays ==
  ASSUME TypeOK, OnePlace, Room, [Next]_vars, ~PLPAdmits, ~PCPEnds
  PROVE  Room'
<1>1. Held' = Held
  BY MemoryStays DEF Held
<1>2. PICK h \in Nat : h = Held
  BY HeldIs
<1>3. /\ Degree \in Nat /\ inMemoryAmount \in Int /\ pcp.reg \in Int
      /\ pcp = [at |-> pcp.at, dtb |-> pcp.dtb, reg |-> pcp.reg]
  BY SchedulingAssumption DEF TypeOK, CountersType, ThreadsType, Thread, SchedulingAssumption
<1>4. CASE PCPEnded
  BY <1>1, <1>2, <1>3, <1>4 DEF PCPEnded, Room, Waiting
<1>5. CASE PLPTakesDummy
  <2>1. /\ inMemoryAmount < Degree /\ plp'.reg = inMemoryAmount
        /\ pcp' = pcp /\ inMemoryAmount' = inMemoryAmount
    BY <1>5 DEF PLPTakesDummy, CanAdmit, MemoryAvailable, counters
  <2>2. QED  BY <1>1, <1>2, <1>3, <2>1 DEF Room
<1>6. ASSUME ~PCPEnded, ~PLPTakesDummy
      PROVE  /\ inMemoryAmount' = inMemoryAmount /\ plp' = plp
             /\ pcp' = pcp \/ (pcp.at # "exit" /\ pcp'.at # "exit")
  <2>1. CASE UNCHANGED vars
    BY <2>1 DEF vars, counters, threads
  <2>2. CASE PLP
    BY <1>6, <2>2 DEF PLP, PLPCannotSchedule, PLPCreates, PLPInitializes, PLPInitializeFails,
                      counters, threads
  <2>3. CASE PCPDispatches
    BY <2>3 DEF PCPDispatches, PCPDispatchesDTB, PCPDispatchesDummy, counters, Waiting
  <2>4. CASE PCPCanSchedule \/ PCPFreesDummy
    BY <1>3, <2>4 DEF PCPCanSchedule, PCPFreesDummy, PCPTakes, counters
  <2>5. CASE PCPFreedDummy
    BY <2>5 DEF PCPFreedDummy, counters, Waiting
  <2>6. CASE PCP /\ ~PCPDispatches /\ ~PCPCanSchedule /\ ~PCPFreesDummy /\ ~PCPFreedDummy
    BY <1>6, <2>6
    DEF PCP, PCPCannotSchedule, PCPDispatchFails, PCPLoadsDummy, PCPBlocks, PCPBlockFails,
        PCPUnlocks, PCPUnlockFails, PCPEndFails, counters, threads
  <2>7. CASE ~PLP /\ ~PCP /\ Next
    BY <2>7, OutsideMovesNone DEF Next, counters, threads
  <2>8. QED  BY <2>1, <2>2, <2>3, <2>4, <2>5, <2>6, <2>7
<1>7. CASE ~PCPEnded /\ ~PLPTakesDummy
  BY <1>1, <1>6, <1>7 DEF Room
<1>8. QED  BY <1>4, <1>5, <1>7

\* Nothing is in memory, and the counter is 0, at the start.
LEMMA RoomInit == ASSUME Degree > 0, Init PROVE Room
<1>1. InMemory = {} /\ Degree \in Nat
  BY SchedulingAssumption DEF Init, InMemory, SchedulingAssumption
<1>2. Held = 0
  BY <1>1, FS_EmptySet DEF Held
<1>3. QED  BY <1>1, <1>2 DEF Init, Room, Waiting

\* An empty memory is never taken for a full one when the bound of the counter holds.
LEMMA RoomIsRoom == TypeOK /\ Room => EmptyIsNotFull
<1> SUFFICES ASSUME TypeOK, Room, InMemory = {}, pcp.at = "wait"
             PROVE  inMemoryAmount < Degree
  BY DEF EmptyIsNotFull, MemoryAvailable
<1>1. Held = 0
  BY FS_EmptySet DEF Held
<1>2. inMemoryAmount - 0 < Degree
  BY <1>1 DEF Room
<1>3. QED  BY <1>2, SchedulingAssumption DEF TypeOK, CountersType, SchedulingAssumption

\* The two planners update the counter of DTBs in memory without a lock, so that
\* updates are lost; and yet it never says that an empty memory is full: it
\* exceeds the DTBs in memory by less than Degree at every moment the PLP may look.
\* (Scheduling.c, schedule and PCP_task's EndDTB, with a degree of multiprogramming.)
THEOREM RoomInvariant == ASSUME Degree > 0 PROVE Spec => []EmptyIsNotFull
<1>1. Init => TypeOK /\ OnePlace /\ Room
  BY TypeInit, PlaceInit, RoomInit
<1>2. TypeOK /\ OnePlace /\ Room /\ [Next]_vars => (TypeOK /\ OnePlace /\ Room)'
  BY TypeNext, PlaceNext, RoomAdmits, RoomEnds, RoomStays
<1>3. TypeOK /\ Room => EmptyIsNotFull
  BY RoomIsRoom
<1>4. QED  BY <1>1, <1>2, <1>3, PTL DEF Spec

-----------------------------------------------------------------------------
\* The loads of the dummy.

\* How many tasks of a kind wait, when one is posted.
LEMMA PendingAppend ==
  ASSUME NEW T, NEW q \in Seq(T), NEW t \in T, NEW u
  PROVE  /\ Pending(q, u) \in Nat
         /\ Pending(Append(q, t), u) = Pending(q, u) + (IF t = u THEN 1 ELSE 0)
<1> DEFINE O == {i \in DOMAIN q : q[i] = u}
           a == Append(q, t)
           A == {i \in DOMAIN a : a[i] = u}
<1>1. IsFiniteSet(O) /\ Cardinality(O) \in Nat
  <2>1. Len(q) \in Nat /\ DOMAIN q = 1 .. Len(q)
    BY LenProperties
  <2>2. IsFiniteSet(1 .. Len(q)) /\ O \in SUBSET (1 .. Len(q))
    BY <2>1, FS_Interval
  <2>3. QED  BY <2>2, FS_Subset, FS_CardinalityType
<1>2. /\ Len(q) \in Nat /\ DOMAIN a = 1 .. Len(q) + 1 /\ a[Len(q) + 1] = t
      /\ DOMAIN q = 1 .. Len(q) /\ \A i \in 1 .. Len(q) : a[i] = q[i]
  BY AppendProperties, LenProperties
<1>3. A = IF t = u THEN O \cup {Len(q) + 1} ELSE O
  <2> HIDE DEF a
  <2>1. DOMAIN a = DOMAIN q \cup {Len(q) + 1}
    BY <1>2
  <2>2. QED  BY <1>2, <2>1
<1>4. Len(q) + 1 \notin O
  BY <1>2
<1>5. Cardinality(A) = Cardinality(O) + (IF t = u THEN 1 ELSE 0)
  <2> HIDE DEF A, O
  <2>1. CASE t = u
    <3>1. Cardinality(O \cup {Len(q) + 1}) = Cardinality(O) + 1
      BY <1>1, <1>4, FS_AddElement
    <3>2. QED  BY <1>3, <2>1, <3>1
  <2>2. CASE t # u
    <3>1. Cardinality(A) = Cardinality(O)
      BY <1>3, <2>2
    <3>2. QED  BY <1>1, <2>2, <3>1
  <2>3. QED  BY <2>1, <2>2
<1>6. QED  BY <1>1, <1>5 DEF Pending

\* How many tasks of a kind wait, when the first is taken.
LEMMA PendingTail ==
  ASSUME NEW T, NEW q \in Seq(T), q # <<>>, NEW u
  PROVE  /\ Pending(q, u) \in Nat /\ Pending(Tail(q), u) \in Nat
         /\ Pending(q, u) = Pending(Tail(q), u) + (IF Head(q) = u THEN 1 ELSE 0)
<1> DEFINE O == {i \in DOMAIN q : q[i] = u}
           a == Tail(q)
           A == {i \in DOMAIN a : a[i] = u}
           B == {i \in 2 .. Len(q) : q[i] = u}
           f == [i \in A |-> i + 1]
<1>1. /\ Len(q) \in Nat \ {0} /\ a \in Seq(T) /\ Len(a) = Len(q) - 1 /\ q[1] = Head(q)
      /\ DOMAIN q = 1 .. Len(q) /\ DOMAIN a = 1 .. Len(a)
      /\ \A i \in 1 .. Len(a) : a[i] = q[i + 1]
  BY HeadTailProperties, LenProperties, EmptySeq
<1>2. IsFiniteSet(O) /\ Cardinality(O) \in Nat /\ IsFiniteSet(A) /\ Cardinality(A) \in Nat
  <2>1. /\ IsFiniteSet(1 .. Len(q)) /\ O \in SUBSET (1 .. Len(q))
        /\ IsFiniteSet(1 .. Len(a)) /\ A \in SUBSET (1 .. Len(a))
    BY <1>1, FS_Interval
  <2>2. QED  BY <2>1, FS_Subset, FS_CardinalityType
<1>3. ExistsBijection(A, B)
  <2> HIDE DEF a
  <2>1. f \in [A -> B]
    BY <1>1
  <2>2. \A i, k \in A : f[i] = f[k] => i = k
    BY <1>1
  <2>3. \A b \in B : \E i \in A : f[i] = b
    <3> TAKE b \in B
    <3>1. b - 1 \in A /\ f[b - 1] = b
      BY <1>1
    <3>2. QED  BY <3>1
  <2>4. f \in Bijection(A, B)
    BY <2>1, <2>2, <2>3 DEF Bijection, Injection, Surjection, IsInjective
  <2>5. QED  BY <2>4 DEF ExistsBijection
<1>4. IsFiniteSet(B) /\ Cardinality(B) = Cardinality(A)
  BY <1>2, <1>3, FS_Bijection
<1>5. O = IF Head(q) = u THEN B \cup {1} ELSE B
  <2>1. DOMAIN q = (2 .. Len(q)) \cup {1}
    BY <1>1
  <2>2. QED  BY <1>1, <2>1
<1>6. 1 \notin B
  OBVIOUS
<1>7. Cardinality(O) = Cardinality(A) + (IF Head(q) = u THEN 1 ELSE 0)
  <2> HIDE DEF A, O, B
  <2>1. QED  BY <1>2, <1>4, <1>5, <1>6, FS_AddElement
<1>8. QED  BY <1>2, <1>7 DEF Pending

\* Both at once: the planner takes a task and posts another.
LEMMA PendingReplans ==
  ASSUME NEW T, NEW q \in Seq(T), q # <<>>, NEW t \in T, NEW u
  PROVE  /\ Pending(Append(Tail(q), t), u) \in Nat /\ Pending(q, u) \in Nat
         /\ Pending(Append(Tail(q), t), u)
              = Pending(q, u) - (IF Head(q) = u THEN 1 ELSE 0) + (IF t = u THEN 1 ELSE 0)
<1>1. Tail(q) \in Seq(T)
  BY SeqEnds
<1>2. PICK p \in Seq(T) : p = Tail(q)
  BY <1>1
<1>3. Append(p, t) \in Seq(T)
  BY SeqEnds
<1>4. /\ Pending(p, u) \in Nat /\ Pending(q, u) \in Nat
      /\ Pending(q, u) = Pending(p, u) + (IF Head(q) = u THEN 1 ELSE 0)
  BY <1>2, PendingTail
<1>5. Pending(Append(p, t), u) = Pending(p, u) + (IF t = u THEN 1 ELSE 0)
  BY PendingAppend
<1>6. QED  BY <1>2, <1>4, <1>5

\* An empty queue has no tasks, and a task that is counted keeps it from being empty.
LEMMA PendingNone == \A u : Pending(<<>>, u) = 0
<1>1. \A u : {i \in DOMAIN <<>> : <<>>[i] = u} = {}
  OBVIOUS
<1>2. QED  BY <1>1, FS_EmptySet DEF Pending

\* The messages of some kinds whose task is about to be posted.
PostingOf(ms) == {j \in jobs : j.msg \in ms /\ j.at = "post"}

\* A set of messages that counts them one more, the same, or one less.
LEMMA PostingIs ==
  ASSUME IsFiniteSet(jobs), NEW ms
  PROVE  IsFiniteSet(PostingOf(ms)) /\ Posting(ms) = Cardinality(PostingOf(ms)) /\ Posting(ms) \in Nat
<1>1. PostingOf(ms) \in SUBSET jobs
  BY DEF PostingOf
<1>2. QED  BY <1>1, FS_Subset, FS_CardinalityType DEF PostingOf, Posting

\* A handler that has pushed its datum is about to post its task.
LEMMA PostingPushed ==
  ASSUME OutsideType, IsFiniteSet(jobs), NEW j \in jobs, j.at = "start", Pushed(j),
         [j EXCEPT !.at = "post"] \notin jobs, NEW ms
  PROVE  /\ IsFiniteSet(jobs') /\ Posting(ms) \in Nat
         /\ Posting(ms)' = Posting(ms) + (IF j.msg \in ms THEN 1 ELSE 0)
<1>1. PICK k : k = [j EXCEPT !.at = "post"]
  OBVIOUS
<1>2. j \in Jobs
  BY DEF OutsideType
<1>3. k.msg = j.msg /\ k.at = "post" /\ k \notin jobs
  BY <1>1, <1>2 DEF Jobs
<1>4. jobs' = (jobs \ {j}) \cup {k}
  BY <1>1 DEF Pushed
<1>5. IsFiniteSet(jobs')
  BY <1>4, FS_RemoveElement, FS_AddElement
<1>6. PICK P : P = PostingOf(ms)
  OBVIOUS
<1>7. k \notin P /\ IsFiniteSet(P) /\ Posting(ms) = Cardinality(P) /\ Posting(ms) \in Nat
  BY <1>3, <1>6, PostingIs DEF PostingOf
<1>8. Posting(ms)' = Cardinality(PostingOf(ms)')
  BY DEF Posting, PostingOf
<1>9. CASE j.msg \in ms
  <2>1. PostingOf(ms)' = P \cup {k}
    BY <1>3, <1>4, <1>6, <1>9 DEF PostingOf
  <2>2. Cardinality(P \cup {k}) = Cardinality(P) + 1
    BY <1>7, FS_AddElement
  <2>3. QED  BY <1>5, <1>7, <1>8, <1>9, <2>1, <2>2
<1>10. CASE j.msg \notin ms
  <2>1. PostingOf(ms)' = P
    BY <1>3, <1>4, <1>6, <1>10 DEF PostingOf
  <2>2. QED  BY <1>5, <1>7, <1>8, <1>10, <2>1
<1>11. QED  BY <1>9, <1>10

\* A handler that has posted its task is done.
LEMMA PostingFinished ==
  ASSUME IsFiniteSet(jobs), NEW j \in jobs, j.at = "post", Finished(j), NEW ms
  PROVE  /\ IsFiniteSet(jobs') /\ Posting(ms) \in Nat
         /\ Posting(ms)' = Posting(ms) - (IF j.msg \in ms THEN 1 ELSE 0)
<1>1. jobs' = jobs \ {j} /\ IsFiniteSet(jobs')
  BY FS_RemoveElement DEF Finished
<1>2. PICK P : P = PostingOf(ms)
  OBVIOUS
<1>3. IsFiniteSet(P) /\ Posting(ms) = Cardinality(P) /\ Posting(ms) \in Nat
  BY <1>2, PostingIs
<1>4. Posting(ms)' = Cardinality(PostingOf(ms)')
  BY DEF Posting, PostingOf
<1>5. CASE j.msg \in ms
  <2>1. PostingOf(ms)' = P \ {j} /\ j \in P
    BY <1>1, <1>2, <1>5 DEF PostingOf
  <2>2. Cardinality(P \ {j}) = Cardinality(P) - 1
    BY <1>3, <2>1, FS_RemoveElement
  <2>3. QED  BY <1>1, <1>3, <1>4, <1>5, <2>1, <2>2
<1>6. CASE j.msg \notin ms
  <2>1. PostingOf(ms)' = P
    BY <1>1, <1>2, <1>6 DEF PostingOf
  <2>2. QED  BY <1>1, <1>3, <1>4, <1>6, <2>1
<1>7. QED  BY <1>5, <1>6

\* A message that arrives is not yet about to post anything.
LEMMA PostingArrives ==
  ASSUME IsFiniteSet(jobs), NEW k, jobs' = jobs \cup {k}, k.at = "start", NEW ms
  PROVE  IsFiniteSet(jobs') /\ Posting(ms) \in Nat /\ Posting(ms)' = Posting(ms)
<1>1. IsFiniteSet(jobs')
  BY FS_AddElement
<1>2. PostingOf(ms)' = PostingOf(ms)
  BY DEF PostingOf
<1>3. Posting(ms)' = Posting(ms)
  BY <1>2 DEF Posting, PostingOf
<1>4. QED  BY <1>1, <1>3, PostingIs

-----------------------------------------------------------------------------
(* The loads of the dummy. *)

\* The DTBs that have left NEW; those that have been READY, but for the one whose
\* load is under way; and those whose load has been answered.
Past == beingDummied \cup READY \cup EXEC \cup BLOCKED \cup EXIT
Begun == (READY \cup EXEC \cup BLOCKED \cup EXIT) \ {dummy.id}
Told == {0} \cup (Past \ {dummy.id})

Executed == {"BLOCKDTB", "EOQUANTUM", "IODONE", "EOFORABORT"}
Loads(j) == j.msg = "DUMMY" \/ (j.msg = "IOERROR" /\ j.n = 0)

\* Nothing but its own load is told of the DTB that the dummy loads: in the lists,
\* by the CPUs and the DAM, by the messages, and by the data of the tasks.
FreshLists ==
    /\ dummy.id \in Past \cup {0}
    /\ READY \cup EXEC \cup BLOCKED \subseteq Begun
FreshCPUs ==
    \A c \in CPUs : /\ running[c].kind = "dtb" => running[c].id \in Begun
                    /\ running[c].kind = "dummy" => running[c].id \in Past \cup {0}
FreshDAM ==
    \A r \in dam : /\ r.op = "io" => r.id \in Begun /\ r.n > 0
                   /\ r.op = "load" => r.id \in Past \cup {0}
FreshJobs ==
    \A j \in jobs : /\ j.msg \in Executed => j.id \in Begun
                    /\ Loads(j) => j.id \in Told
FreshData ==
    /\ \A i \in DOMAIN toBeBlocked : toBeBlocked[i] \in Begun
    /\ \A i \in DOMAIN toBeUnlocked : toBeUnlocked[i] \in Begun
    /\ \A i \in DOMAIN dummiedQueue : dummiedQueue[i] \in Told
Fresh == FreshLists /\ FreshCPUs /\ FreshDAM /\ FreshJobs /\ FreshData

\* No DTB goes back to NEW or to beingDummied.
Onward ==
    /\ Past \subseteq Past'
    /\ Begun \subseteq Begun'
    /\ Told \subseteq Told'

\* Every step takes the DTBs onward.
LEMMA OnwardNext == ASSUME TypeOK, OnePlace, [Next]_vars PROVE Onward
<1>1. CASE UNCHANGED <<beingDummied, READY, EXEC, BLOCKED, EXIT>> /\ dummy'.id \in {dummy.id, 0}
  <2>1. 0 \notin DTBs
    BY DEF DTBs
  <2>2. QED  BY <1>1, <2>1 DEF Onward, Past, Begun, Told, TypeOK, ListsType
<1>2. CASE PLPAdmits
  <2>1. /\ dummy'.id = plp.dtb /\ plp.dtb \in InHand
        /\ beingDummied' = beingDummied \cup {plp.dtb}
        /\ UNCHANGED <<READY, EXEC, BLOCKED, EXIT>>
    BY <1>2 DEF PLPAdmits, InHand, TypeOK, DummyType
  <2>2. plp.dtb \notin Past
    BY <2>1 DEF OnePlace, Past
  <2>3. QED  BY <2>1, <2>2 DEF Onward, Past, Begun, Told
<1>3. CASE PLPInitializes
  BY <1>3 DEF PLPInitializes, dummies, Onward, Past, Begun, Told
<1>4. CASE PCPDispatches
  <2>1. PICK c \in IdleCPUs : PCPDispatchesDummy(c) \/ \E d \in READY : PCPDispatchesDTB(c, d)
    BY <1>4 DEF PCPDispatches
  <2>2. CASE PCPDispatchesDummy(c)
    BY <1>1, <2>2 DEF PCPDispatchesDummy, lists, TypeOK, DummyType
  <2>3. CASE \E d \in READY : PCPDispatchesDTB(c, d)
    BY <2>3 DEF PCPDispatchesDTB, dummies, Onward, Past, Begun, Told
  <2>4. QED  BY <2>1, <2>2, <2>3
<1>5. CASE PCPBlocks
  <2>1. dummy'.id = dummy.id /\ UNCHANGED <<beingDummied, READY, EXIT>>
    BY <1>5 DEF PCPBlocks, dummies, TypeOK, DummyType
  <2>2. EXEC \cup BLOCKED \subseteq EXEC' \cup BLOCKED'
    BY <1>5 DEF PCPBlocks
  <2>3. QED  BY <2>1, <2>2 DEF Onward, Past, Begun, Told
<1>6. CASE PCPUnlocks
  BY <1>6 DEF PCPUnlocks, dummies, Onward, Past, Begun, Told
<1>7. CASE PCPEnds
  <2>1. dummy'.id = dummy.id
    BY <1>7 DEF PCPEnds, EndsDummy, EndsQueued, EndsLoading, dummies, TypeOK, DummyType
  <2>2. READY \cup EXEC \cup BLOCKED \cup EXIT \subseteq READY' \cup EXEC' \cup BLOCKED' \cup EXIT'
    BY <1>7, EndsMoves DEF lists
  <2>3. beingDummied \subseteq beingDummied' \cup EXIT'
    BY <1>7, EndsMoves DEF lists
  <2>4. QED  BY <2>1, <2>2, <2>3 DEF Onward, Past, Begun, Told
<1>8. CASE UNCHANGED vars
  BY <1>1, <1>8 DEF vars, lists, dummies
<1>9. CASE PLP
  <2>1. CASE PLPTakesDummy
    BY <1>1, <2>1 DEF PLPTakesDummy, TypeOK, DummyType
  <2>2. QED
    BY <1>1, <1>2, <1>3, <1>9, <2>1
    DEF PLP, PLPCannotSchedule, PLPCreates, PLPInitializeFails, lists, dummies
<1>10. CASE PCP
  <2>1. CASE PCPLoadsDummy
    BY <1>1, <2>1 DEF PCPLoadsDummy, lists, TypeOK, DummyType
  <2>2. CASE PCPFreesDummy
    BY <1>1, <2>2 DEF PCPFreesDummy, lists
  <2>3. CASE PCPFreedDummy
    BY <1>1, <2>3 DEF PCPFreedDummy, lists
  <2>4. QED
    BY <1>1, <1>4, <1>5, <1>6, <1>7, <1>10, <2>1, <2>2, <2>3
    DEF PCP, PCPCannotSchedule, PCPCanSchedule, PCPDispatchFails, PCPBlockFails,
        PCPUnlockFails, PCPEnded, PCPEndFails, lists, dummies
<1>11. CASE Next /\ ~PLP /\ ~PCP
  <2>1. UNCHANGED lists
    BY <1>11, OutsideMovesNone DEF Next
  <2>2. CASE Console
    BY <1>1, <2>1, <2>2 DEF Console, CommandEjecutar, CommandFinalizar, lists, dummies
  <2>3. CASE \E j \in jobs : Handler(j) \/ ConsoleJob(j)
    BY <1>1, <2>1, <2>3
    DEF Handler, ConsoleJob, CommandEjecutarPosts, CommandFinalizarTakesCPU,
        CommandFinalizarFails, CommandFinalizarPosts, lists, dummies
  <2>4. CASE \E c \in CPUs : CPUSpeaks(c) \/ CPUConnects(c) \/ CPUDisconnects(c)
    BY <1>1, <2>1, <2>4
    DEF CPUSpeaks, CPURunsDummy, CPURequestsIO, CPUEndsQuantum, CPUEndsDTB, CPUSends,
        CPUConnects, CPUDisconnects, lists, dummies
  <2>5. CASE \E r \in dam : DAMAnswers(r)
    BY <1>1, <2>1, <2>5 DEF DAMAnswers, lists, dummies
  <2>6. QED  BY <1>11, <2>2, <2>3, <2>4, <2>5 DEF Next
<1>12. QED  BY <1>8, <1>9, <1>10, <1>11

\* What a step leaves alone stays fresh.
LEMMA FreshFrame ==
  ASSUME Onward
  PROVE  /\ FreshLists /\ UNCHANGED <<dummy.id, lists>> => FreshLists'
         /\ FreshCPUs /\ UNCHANGED running => FreshCPUs'
         /\ FreshDAM /\ UNCHANGED dam => FreshDAM'
         /\ FreshJobs /\ UNCHANGED jobs => FreshJobs'
         /\ FreshData /\ UNCHANGED data => FreshData'
<1>1. \A x : (x \in Past => x \in Past') /\ (x \in Begun => x \in Begun') /\ (x \in Told => x \in Told')
  BY DEF Onward
<1>2. FreshLists /\ UNCHANGED <<dummy.id, lists>> => FreshLists'
  BY DEF FreshLists, lists, Past, Begun
<1>3. FreshCPUs /\ UNCHANGED running => FreshCPUs'
  BY <1>1 DEF FreshCPUs
<1>4. FreshDAM /\ UNCHANGED dam => FreshDAM'
  BY <1>1 DEF FreshDAM
<1>5. FreshJobs /\ UNCHANGED jobs => FreshJobs'
  BY <1>1 DEF FreshJobs, Loads
<1>6. FreshData /\ UNCHANGED data => FreshData'
  BY <1>1 DEF FreshData, data
<1>7. QED  BY <1>2, <1>3, <1>4, <1>5, <1>6

\* The long-term planner.
LEMMA FreshPLP == ASSUME TypeOK, OnePlace, Fresh, PLP, Onward PROVE Fresh'
<1>1. UNCHANGED outside
  BY DEF PLP, PLPCannotSchedule, PLPTakesDummy, PLPAdmits, PLPCreates, PLPInitializes, PLPInitializeFails
<1>2. FreshCPUs' /\ FreshDAM' /\ FreshJobs'
  BY <1>1, FreshFrame DEF Fresh, outside
<1>3. CASE PLPAdmits
  <2>1. /\ dummy'.id = plp.dtb /\ plp.dtb \in InHand /\ data' = data
        /\ beingDummied' = beingDummied \cup {plp.dtb} /\ UNCHANGED <<READY, EXEC, BLOCKED, EXIT>>
    BY <1>3 DEF PLPAdmits, InHand, TypeOK, DummyType
  <2>2. plp.dtb \notin Past
    BY <2>1 DEF OnePlace, Past
  <2>3. FreshLists'
    BY <2>1, <2>2 DEF FreshLists, Past, Begun
  <2>4. QED  BY <1>2, <2>1, <2>3, FreshFrame DEF Fresh
<1>4. CASE PLPInitializes
  <2>1. /\ READY' = READY \cup Loaded /\ Loaded \subseteq beingDummied /\ dummy' = dummy
        /\ dummiedQueue' = <<>>
        /\ UNCHANGED <<EXEC, BLOCKED, EXIT, toBeBlocked, toBeUnlocked>>
        /\ beingDummied' = beingDummied \ Loaded
    BY <1>4 DEF PLPInitializes, dummies
  <2>2. \A d \in Loaded : d \in DTBs /\ d \in Told
    BY <2>1 DEF Loaded, Fresh, FreshData, TypeOK, ListsType
  <2>3. \A d \in Loaded : d # dummy.id
    BY <2>2 DEF Told, DTBs
  <2>4. FreshLists'
    BY <2>1, <2>3 DEF Fresh, FreshLists, Past, Begun
  <2>5. FreshData'
    BY <2>1 DEF Fresh, FreshData, Onward
  <2>6. QED  BY <1>2, <2>4, <2>5 DEF Fresh
<1>5. CASE PLPTakesDummy
  <2>1. dummy'.id = dummy.id /\ data' = data /\ UNCHANGED <<beingDummied, READY, EXEC, BLOCKED, EXIT>>
    BY <1>5 DEF PLPTakesDummy, TypeOK, DummyType
  <2>2. FreshLists'
    BY <2>1 DEF Fresh, FreshLists, Past, Begun
  <2>3. QED  BY <1>2, <2>1, <2>2, FreshFrame DEF Fresh
<1>6. CASE PLPCreates
  <2>1. /\ dummy' = dummy /\ UNCHANGED <<beingDummied, READY, EXEC, BLOCKED, EXIT>>
        /\ UNCHANGED <<toBeBlocked, toBeUnlocked, dummiedQueue>>
    BY <1>6 DEF PLPCreates, dummies
  <2>2. FreshLists'
    BY <2>1 DEF Fresh, FreshLists, Past, Begun
  <2>3. FreshData'
    BY <2>1 DEF Fresh, FreshData, Onward
  <2>4. QED  BY <1>2, <2>2, <2>3 DEF Fresh
<1>7. CASE PLPCannotSchedule \/ PLPInitializeFails
  <2>1. dummy' = dummy /\ UNCHANGED <<lists, data>>
    BY <1>7 DEF PLPCannotSchedule, PLPInitializeFails, dummies
  <2>2. QED  BY <1>2, <2>1, FreshFrame DEF Fresh
<1>8. QED  BY <1>3, <1>4, <1>5, <1>6, <1>7 DEF PLP

\* The short-term planner.
LEMMA FreshPCP == ASSUME TypeOK, OnePlace, Fresh, PCP, Onward PROVE Fresh'
<1>1. UNCHANGED <<dam, jobs>>
  BY DEF PCP, PCPDispatches, PCPDispatchesDTB, PCPDispatchesDummy,
         PCPCannotSchedule, PCPCanSchedule, PCPDispatchFails, PCPLoadsDummy, PCPFreesDummy,
         PCPFreedDummy, PCPBlocks, PCPBlockFails, PCPUnlocks, PCPUnlockFails, PCPEnds, PCPEnded,
         PCPEndFails, outside
<1>2. FreshDAM' /\ FreshJobs'
  BY <1>1, FreshFrame DEF Fresh
<1>3. CASE PCPDispatches
  <2>1. PICK c \in IdleCPUs : PCPDispatchesDummy(c) \/ \E d \in READY : PCPDispatchesDTB(c, d)
    BY <1>3 DEF PCPDispatches
  <2>2. data' = data /\ c \in CPUs /\ running \in [CPUs -> [kind : {"idle", "dtb", "dummy"}, id : Ids]]
    BY <2>1 DEF PCPDispatchesDummy, PCPDispatchesDTB, IdleCPUs, TypeOK, HolderType, OutsideType
  <2>3. CASE PCPDispatchesDummy(c)
    <3>1. /\ dummy'.id = dummy.id /\ lists' = lists
          /\ running' = [running EXCEPT ![c] = [kind |-> "dummy", id |-> dummy.id]]
      BY <2>3 DEF PCPDispatchesDummy, TypeOK, DummyType
    <3>2. FreshCPUs'
      BY <2>2, <3>1 DEF Fresh, FreshCPUs, FreshLists, Onward
    <3>3. QED  BY <1>2, <2>2, <3>1, <3>2, FreshFrame DEF Fresh
  <2>4. CASE \E d \in READY : PCPDispatchesDTB(c, d)
    <3>1. PICK d \in READY : PCPDispatchesDTB(c, d)
      BY <2>4
    <3>2. /\ dummy' = dummy /\ READY' = READY \ {d} /\ EXEC' = EXEC \cup {d}
          /\ UNCHANGED <<beingDummied, BLOCKED, EXIT>>
          /\ running' = [running EXCEPT ![c] = [kind |-> "dtb", id |-> d]]
      BY <3>1 DEF PCPDispatchesDTB, dummies
    <3>3. d \in Begun
      BY DEF Fresh, FreshLists
    <3>4. FreshCPUs'
      BY <2>2, <3>2, <3>3 DEF Fresh, FreshCPUs, Onward
    <3>5. FreshLists'
      BY <3>2 DEF Fresh, FreshLists, Past, Begun
    <3>6. QED  BY <1>2, <2>2, <3>4, <3>5, FreshFrame DEF Fresh
  <2>5. QED  BY <2>1, <2>3, <2>4
<1>4. CASE PCPBlocks
  <2>1. /\ dummy'.id = dummy.id /\ UNCHANGED <<beingDummied, READY, EXIT, running>>
        /\ UNCHANGED <<toBeUnlocked, dummiedQueue>> /\ toBeBlocked' = Popped(toBeBlocked)
    BY <1>4 DEF PCPBlocks, dummies, outside, TypeOK, DummyType
  <2>2. EXEC \cup BLOCKED = EXEC' \cup BLOCKED'
    BY <1>4 DEF PCPBlocks
  <2>3. FreshLists'
    BY <2>1, <2>2 DEF Fresh, FreshLists, Past, Begun
  <2>4. toBeBlocked \in Seq(Ids)
    BY DEF TypeOK, DataType
  <2>5. \A i \in DOMAIN toBeBlocked' : toBeBlocked'[i] \in Begun
    BY <2>1, <2>4 DEF Fresh, FreshData, Popped
  <2>6. FreshData'
    BY <2>1, <2>5 DEF Fresh, FreshData, Onward
  <2>7. QED  BY <1>2, <2>1, <2>3, <2>6, FreshFrame DEF Fresh
<1>5. CASE PCPUnlocks
  <2>1. /\ dummy' = dummy /\ UNCHANGED <<beingDummied, EXIT, running>>
        /\ UNCHANGED <<toBeBlocked, dummiedQueue>> /\ toBeUnlocked' = Popped(toBeUnlocked)
    BY <1>5 DEF PCPUnlocks, dummies, outside
  <2>2. READY' \cup EXEC' \cup BLOCKED' = READY \cup EXEC \cup BLOCKED
    BY <1>5 DEF PCPUnlocks, Unlockable
  <2>3. FreshLists'
    BY <2>1, <2>2 DEF Fresh, FreshLists, Past, Begun
  <2>4. toBeUnlocked \in Seq(Ids)
    BY DEF TypeOK, DataType
  <2>5. \A i \in DOMAIN toBeUnlocked' : toBeUnlocked'[i] \in Begun
    BY <2>1, <2>4 DEF Fresh, FreshData, Popped
  <2>6. FreshData'
    BY <2>1, <2>5 DEF Fresh, FreshData, Onward
  <2>7. QED  BY <1>2, <2>1, <2>3, <2>6, FreshFrame DEF Fresh
<1>6. CASE PCPEnds
  <2>1. /\ dummy'.id = dummy.id /\ running' = running
        /\ UNCHANGED <<toBeBlocked, toBeUnlocked, dummiedQueue>>
    BY <1>6 DEF PCPEnds, EndsDummy, EndsQueued, EndsLoading, dummies, outside, TypeOK, DummyType
  <2>2. READY' \cup EXEC' \cup BLOCKED' \subseteq READY \cup EXEC \cup BLOCKED
    BY <1>6, EndsMoves DEF lists
  <2>3. READY' \cup EXEC' \cup BLOCKED' \subseteq Begun'
    BY <2>2 DEF Fresh, FreshLists, Onward
  <2>4. FreshLists'
    BY <2>1, <2>3 DEF Fresh, FreshLists, Onward
  <2>5. FreshData'
    BY <2>1 DEF Fresh, FreshData, Onward
  <2>6. QED  BY <1>2, <2>1, <2>4, <2>5, FreshFrame DEF Fresh
<1>7. CASE PCPFreesDummy
  <2>1. dummy'.id = 0 /\ lists' = lists /\ data' = data /\ running' = running
    BY <1>7 DEF PCPFreesDummy, outside
  <2>2. READY' \cup EXEC' \cup BLOCKED' \subseteq Begun'
    BY <2>1 DEF Fresh, FreshLists, Onward, lists
  <2>3. FreshLists'
    BY <2>1, <2>2 DEF FreshLists
  <2>4. QED  BY <1>2, <2>1, <2>3, FreshFrame DEF Fresh
<1>8. CASE ~PCPDispatches /\ ~PCPBlocks /\ ~PCPUnlocks /\ ~PCPEnds /\ ~PCPFreesDummy
  <2>1. lists' = lists /\ data' = data /\ running' = running
    BY <1>8
    DEF PCP, PCPCannotSchedule, PCPCanSchedule, PCPDispatchFails, PCPLoadsDummy,
        PCPFreedDummy, PCPBlockFails, PCPUnlockFails, PCPEnded, PCPEndFails, outside
  <2>2. CASE PCPLoadsDummy
    <3>1. dummy'.id = dummy.id
      BY <2>2 DEF PCPLoadsDummy, TypeOK, DummyType
    <3>2. QED  BY <1>2, <2>1, <3>1, FreshFrame DEF Fresh
  <2>3. CASE ~PCPLoadsDummy
    <3>1. dummy' = dummy
      BY <1>8, <2>3
      DEF PCP, PCPCannotSchedule, PCPCanSchedule, PCPDispatchFails,
          PCPFreedDummy, PCPBlockFails, PCPUnlockFails, PCPEnded, PCPEndFails, dummies
    <3>2. QED  BY <1>2, <2>1, <3>1, FreshFrame DEF Fresh
  <2>4. QED  BY <2>2, <2>3
<1>9. QED  BY <1>3, <1>4, <1>5, <1>6, <1>7, <1>8

\* The message of a job that goes on or ends is one that was there.
LEMMA JobsAre ==
  ASSUME OutsideType, NEW j \in jobs, Pushed(j) \/ Finished(j), NEW k \in jobs'
  PROVE  \E i \in jobs : k.msg = i.msg /\ k.id = i.id /\ k.n = i.n /\ k.cpu = i.cpu
<1>1. k \in jobs \/ k = [j EXCEPT !.at = "post"]
  BY DEF Pushed, Finished
<1>2. CASE k = [j EXCEPT !.at = "post"]
  <2>1. j \in Jobs
    BY DEF OutsideType
  <2>2. k.msg = j.msg /\ k.id = j.id /\ k.n = j.n /\ k.cpu = j.cpu
    BY <1>2, <2>1 DEF Jobs
  <2>3. QED  BY <2>2
<1>3. QED  BY <1>1, <1>2

\* A handler pushes only what the message says, which has happened.
LEMMA FreshHandlers ==
  ASSUME TypeOK, OnePlace, Fresh, Onward, NEW j \in jobs, Handler(j)
  PROVE  Fresh'
<1>1. /\ UNCHANGED <<scripts, lists, counters, dummies, threads, cpus, deaf,
                     failure, running, dam, bursts, finalizars>>
      /\ \/ Comms_DAM_DummyFinished(j) \/ Comms_DAM_OperationFinished(j)
         \/ Comms_DAM_IOError(j)       \/ Comms_CPU_ErrorOrEOF(j)
         \/ Comms_CPU_DummyAtDAM(j)    \/ Comms_CPU_DTBAtDAM(j)
         \/ Comms_CPU_OutOfQuantum(j)
  BY DEF Handler
<1>2. dummy' = dummy
  BY <1>1 DEF dummies
<1>3. FreshLists' /\ FreshCPUs' /\ FreshDAM'
  BY <1>1, <1>2, FreshFrame DEF Fresh
<1>4. Pushed(j) \/ Finished(j)
  BY <1>1
  DEF Comms_DAM_DummyFinished, Comms_DAM_OperationFinished, Comms_DAM_IOError,
      Comms_CPU_ErrorOrEOF, Comms_CPU_DummyAtDAM, Comms_CPU_DTBAtDAM, Comms_CPU_OutOfQuantum
<1>5. FreshJobs'
  <2> SUFFICES ASSUME NEW k \in jobs'
               PROVE  /\ k.msg \in Executed => k.id \in Begun'
                      /\ Loads(k) => k.id \in Told'
    BY DEF FreshJobs, Loads
  <2>1. PICK i \in jobs : k.msg = i.msg /\ k.id = i.id /\ k.n = i.n /\ k.cpu = i.cpu
    BY <1>4, JobsAre DEF TypeOK
  <2>2. /\ i.msg \in Executed => i.id \in Begun
        /\ Loads(i) => i.id \in Told
    BY DEF Fresh, FreshJobs
  <2>3. QED  BY <2>1, <2>2 DEF Onward, Loads
<1>6. toBeBlocked \in Seq(Ids) /\ toBeUnlocked \in Seq(Ids) /\ dummiedQueue \in Seq(Ids) /\ j.id \in Ids
  BY JobMoves DEF TypeOK, DataType
<1>7. j.msg \in Executed => j.id \in Begun
  BY DEF Fresh, FreshJobs
<1>8. j.msg = "DUMMY" => j.id \in Told
  BY DEF Fresh, FreshJobs, Loads
<1>9. /\ toBeBlocked' = toBeBlocked \/ (toBeBlocked' = Append(toBeBlocked, j.id) /\ j.id \in Begun)
      /\ toBeUnlocked' = toBeUnlocked \/ (toBeUnlocked' = Append(toBeUnlocked, j.id) /\ j.id \in Begun)
      /\ dummiedQueue' = dummiedQueue \/ (dummiedQueue' = Append(dummiedQueue, j.id) /\ j.id \in Told)
  <2>1. CASE Comms_DAM_DummyFinished(j)
    BY <1>8, <2>1 DEF Comms_DAM_DummyFinished
  <2>2. CASE Comms_DAM_OperationFinished(j)
    BY <1>7, <2>2 DEF Comms_DAM_OperationFinished, Executed
  <2>3. CASE Comms_CPU_DTBAtDAM(j)
    BY <1>7, <2>3 DEF Comms_CPU_DTBAtDAM, Executed
  <2>4. CASE Comms_CPU_OutOfQuantum(j)
    BY <1>7, <2>4 DEF Comms_CPU_OutOfQuantum, Executed
  <2>5. CASE Comms_DAM_IOError(j) \/ Comms_CPU_ErrorOrEOF(j) \/ Comms_CPU_DummyAtDAM(j)
    BY <2>5 DEF Comms_DAM_IOError, Comms_CPU_ErrorOrEOF, Comms_CPU_DummyAtDAM
  <2>6. QED  BY <1>1, <2>1, <2>2, <2>3, <2>4, <2>5
<1>10. FreshData'
  <2>1. \A i \in DOMAIN toBeBlocked' : toBeBlocked'[i] \in Begun
    BY <1>6, <1>9, SMTT(30) DEF Fresh, FreshData
  <2>2. \A i \in DOMAIN toBeUnlocked' : toBeUnlocked'[i] \in Begun
    BY <1>6, <1>9, SMTT(30) DEF Fresh, FreshData
  <2>3. \A i \in DOMAIN dummiedQueue' : dummiedQueue'[i] \in Told
    BY <1>6, <1>9, SMTT(30) DEF Fresh, FreshData
  <2>4. QED  BY <2>1, <2>2, <2>3 DEF FreshData, Onward
<1>11. QED  BY <1>3, <1>5, <1>10 DEF Fresh

\* A command of the console names a DTB, but reports nothing of it.
LEMMA FreshConsole ==
  ASSUME TypeOK, OnePlace, Fresh, Onward, Console \/ \E j \in jobs : ConsoleJob(j)
  PROVE  Fresh'
<1>1. UNCHANGED <<lists, dummies, running, dam, toBeBlocked, toBeUnlocked, dummiedQueue>>
  BY DEF Console, CommandEjecutar, CommandFinalizar, ConsoleJob, CommandEjecutarPosts,
         CommandFinalizarTakesCPU, CommandFinalizarFails, CommandFinalizarPosts, data, outside
<1>2. dummy' = dummy
  BY <1>1 DEF dummies
<1>3. FreshLists' /\ FreshCPUs' /\ FreshDAM'
  BY <1>1, <1>2, FreshFrame DEF Fresh
<1>4. FreshData'
  BY <1>1 DEF Fresh, FreshData, Onward
<1>5. \A k \in jobs' : k \in jobs \/ k.msg \in {"EJECUTAR", "FINALIZAR"}
  <2>1. CASE CommandEjecutar
    BY <2>1 DEF CommandEjecutar
  <2>2. CASE \E id \in 0..MaxDTB : CommandFinalizar(id)
    BY <2>2 DEF CommandFinalizar
  <2>3. ASSUME NEW j \in jobs, ConsoleJob(j)
        PROVE  \A k \in jobs' : k \in jobs \/ k.msg \in {"EJECUTAR", "FINALIZAR"}
    <3>1. j \in Jobs
      BY DEF TypeOK, OutsideType
    <3>2. CASE CommandFinalizarTakesCPU(j)
      BY <3>1, <3>2 DEF CommandFinalizarTakesCPU, Jobs
    <3>3. QED
      BY <2>3, <3>2 DEF ConsoleJob, CommandEjecutarPosts, CommandFinalizarFails,
                        CommandFinalizarPosts, Finished, outside
  <2>4. QED  BY <2>1, <2>2, <2>3 DEF Console
<1>6. FreshJobs'
  BY <1>5 DEF Fresh, FreshJobs, Loads, Onward, Executed
<1>7. QED  BY <1>3, <1>4, <1>6 DEF Fresh

\* What a CPU process says it executed.
LEMMA FreshCPU ==
  ASSUME TypeOK, OnePlace, Fresh, Onward,
         NEW c \in CPUs, CPUSpeaks(c) \/ CPUConnects(c) \/ CPUDisconnects(c)
  PROVE  Fresh'
<1>1. UNCHANGED <<lists, dummies, data>>
  BY DEF CPUSpeaks, CPURunsDummy, CPURequestsIO, CPUEndsQuantum, CPUEndsDTB, CPUSends,
         CPUConnects, CPUDisconnects
<1>2. dummy' = dummy
  BY <1>1 DEF dummies
<1>3. FreshLists' /\ FreshData'
  BY <1>1, <1>2, FreshFrame DEF Fresh
<1>4. running' = running \/ running' = [running EXCEPT ![c] = NotRunning]
  BY DEF CPUSpeaks, CPURunsDummy, CPURequestsIO, CPUEndsQuantum, CPUEndsDTB, CPUSends,
         CPUConnects, CPUDisconnects, outside
<1>5. running \in [CPUs -> [kind : {"idle", "dtb", "dummy"}, id : Ids]]
      /\ bursts \in [DTBs -> 0..MaxBursts]
      /\ (running[c].kind = "dtb" => running[c].id \in DTBs)
  BY DEF TypeOK, OutsideType
<1>6. FreshCPUs'
  BY <1>4, <1>5 DEF Fresh, FreshCPUs, Onward, NotRunning
<1>7. FreshDAM'
  <2>1. CASE CPURunsDummy(c)
    <3>1. dam' = dam \cup {[op |-> "load", id |-> running[c].id, n |-> 0]} /\ running[c].id \in Past \cup {0}
      BY <2>1 DEF CPURunsDummy, Fresh, FreshCPUs
    <3>2. QED  BY <3>1 DEF Fresh, FreshDAM, Onward
  <2>2. CASE CPURequestsIO(c)
    <3>1. /\ dam' = dam \cup {[op |-> "io", id |-> running[c].id, n |-> bursts[running[c].id]]}
          /\ running[c].id \in Begun /\ bursts[running[c].id] > 0
      BY <2>2 DEF CPURequestsIO, Fresh, FreshCPUs
    <3>2. QED  BY <3>1 DEF Fresh, FreshDAM, Onward
  <2>3. CASE ~CPURunsDummy(c) /\ ~CPURequestsIO(c)
    <3>1. dam' = dam
      BY <2>3 DEF CPUSpeaks, CPUEndsQuantum, CPUEndsDTB, CPUConnects, CPUDisconnects, outside
    <3>2. QED  BY <3>1, FreshFrame DEF Fresh
  <2>4. QED  BY <2>1, <2>2, <2>3
<1>8. FreshJobs'
  <2>1. ASSUME NEW m, NEW n, CPUSends(c, m, n), m \in Executed => running[c].id \in Begun,
               m # "DUMMY", m # "IOERROR"
        PROVE  FreshJobs'
    <3>1. jobs' \subseteq jobs \cup {Message(m, running[c].id, c, n)}
      BY <2>1 DEF CPUSends
    <3>2. QED  BY <2>1, <3>1 DEF Fresh, FreshJobs, Loads, Onward, Message
  <2>2. running[c].kind = "dtb" => running[c].id \in Begun
    BY DEF Fresh, FreshCPUs
  <2>3. CASE CPURunsDummy(c)
    BY <2>1, <2>3 DEF CPURunsDummy, Executed
  <2>4. CASE CPURequestsIO(c)
    BY <2>1, <2>2, <2>4 DEF CPURequestsIO, Executed
  <2>5. CASE CPUEndsQuantum(c)
    BY <2>1, <2>2, <2>5 DEF CPUEndsQuantum, Executed
  <2>6. CASE CPUEndsDTB(c)
    BY <2>1, <2>2, <2>6 DEF CPUEndsDTB, Executed
  <2>7. CASE CPUConnects(c) \/ CPUDisconnects(c)
    <3>1. jobs' = jobs
      BY <2>7 DEF CPUConnects, CPUDisconnects, outside
    <3>2. QED  BY <3>1, FreshFrame DEF Fresh
  <2>8. QED  BY <2>3, <2>4, <2>5, <2>6, <2>7 DEF CPUSpeaks
<1>9. QED  BY <1>3, <1>6, <1>7, <1>8 DEF Fresh

\* The DAM answers a load when the dummy is free of it.
LEMMA FreshAnswers ==
  ASSUME TypeOK, OnePlace, Fresh, Onward, ~Overtaking, NEW r \in dam, DAMAnswers(r)
  PROVE  Fresh'
<1>1. UNCHANGED <<lists, dummies, data, running>> /\ dam' = dam \ {r} /\ Settled(r)
  BY DEF DAMAnswers
<1>2. dummy' = dummy
  BY <1>1 DEF dummies
<1>3. FreshLists' /\ FreshCPUs' /\ FreshData'
  BY <1>1, <1>2, FreshFrame DEF Fresh
<1>4. FreshDAM'
  BY <1>1 DEF Fresh, FreshDAM, Onward
<1>5. PICK m \in {IF r.op = "load" THEN "DUMMY" ELSE "IODONE", "IOERROR"} :
         jobs' = jobs \cup {Message(m, r.id, NoCPU, r.n)}
  BY DEF DAMAnswers
<1>6. PICK k : k = Message(m, r.id, NoCPU, r.n)
  OBVIOUS
<1>7. k.msg = m /\ k.id = r.id /\ k.n = r.n
  BY <1>6 DEF Message
<1>8. r.op \in {"load", "io"} /\ r.n \in Nat
  BY DEF TypeOK, OutsideType
<1>9. (k.msg \in Executed => k.id \in Begun) /\ (Loads(k) => k.id \in Told)
  <2>1. CASE r.op = "load"
    <3>1. r.id \in Told
      BY <1>1, <2>1 DEF Fresh, FreshDAM, Settled, Told
    <3>2. k.msg \notin Executed
      BY <1>7, <2>1 DEF Executed
    <3>3. QED  BY <1>7, <3>1, <3>2
  <2>2. CASE r.op = "io"
    <3>1. r.id \in Begun /\ r.n > 0
      BY <2>2 DEF Fresh, FreshDAM
    <3>2. ~Loads(k)
      BY <1>7, <1>8, <2>2, <3>1 DEF Loads
    <3>3. QED  BY <1>7, <3>1, <3>2
  <2>3. QED  BY <1>8, <2>1, <2>2
<1>10. FreshJobs'
  <2>1. \A i \in jobs' : (i.msg \in Executed => i.id \in Begun) /\ (Loads(i) => i.id \in Told)
    BY <1>5, <1>6, <1>9 DEF Fresh, FreshJobs
  <2>2. QED  BY <2>1 DEF FreshJobs, Loads, Onward
<1>11. QED  BY <1>3, <1>4, <1>10 DEF Fresh

\* Every step keeps what is said of a DTB true, unless a DAM is overtaken.
LEMMA FreshNext ==
  ASSUME TypeOK, OnePlace, Fresh, ~Overtaking, [Next]_vars
  PROVE  Fresh'
<1>1. Onward
  BY OnwardNext
<1>2. CASE UNCHANGED vars
  <2>1. UNCHANGED <<dummy.id, lists, running, dam, jobs, data>>
    BY <1>2 DEF vars, dummies, outside
  <2>2. QED  BY <1>1, <2>1, FreshFrame DEF Fresh
<1>3. CASE Next
  BY <1>1, <1>3, FreshPLP, FreshPCP, FreshHandlers, FreshConsole, FreshCPU, FreshAnswers DEF Next
<1>4. QED  BY <1>2, <1>3

\* Nothing is said of any DTB at the start.
LEMMA FreshInit == Init => Fresh
  BY DEF Init, Fresh, FreshLists, FreshCPUs, FreshDAM, FreshJobs, FreshData, NotRunning, Begun

PCPKinds == {"NORMAL", "LOAD_DUMMY", "FREE_DUMMY", "BLOCK", "UNLOCK", "END"}

\* A step that posts and takes only other tasks of the short-term planner.
OnlyOthers(u) ==
    \/ PCPtasks' = PCPtasks
    \/ \E t \in PCPKinds \ {u} : PCPtasks' = Append(PCPtasks, t)
    \/ /\ PCPtasks # <<>> /\ Head(PCPtasks) # u
       /\ PCPtasks' = Tail(PCPtasks) \/ (u # "NORMAL" /\ PCPReplans)

\* Other tasks leave the number of those of a kind as it is.
LEMMA OthersKeep ==
  ASSUME TasksType, NEW u, OnlyOthers(u)
  PROVE  Pending(PCPtasks, u) \in Nat /\ Pending(PCPtasks, u)' = Pending(PCPtasks, u)
<1>1. PCPtasks \in Seq(PCPKinds)
  BY DEF TasksType, PCPKinds
<1>2. Pending(PCPtasks, u)' = Pending(PCPtasks', u)
  BY DEF Pending
<1>3. Pending(PCPtasks, u) \in Nat
  <2>1. "NORMAL" \in PCPKinds
    BY DEF PCPKinds
  <2>2. QED  BY <1>1, <2>1, PendingAppend
<1>4. CASE PCPtasks' = PCPtasks
  BY <1>2, <1>3, <1>4
<1>5. CASE \E t \in PCPKinds \ {u} : PCPtasks' = Append(PCPtasks, t)
  <2>1. PICK t \in PCPKinds \ {u} : PCPtasks' = Append(PCPtasks, t)
    BY <1>5
  <2>2. Pending(Append(PCPtasks, t), u) = Pending(PCPtasks, u) + (IF t = u THEN 1 ELSE 0)
    BY <1>1, PendingAppend
  <2>3. QED  BY <1>2, <1>3, <2>1, <2>2
<1>6. CASE PCPtasks # <<>> /\ Head(PCPtasks) # u /\ PCPtasks' = Tail(PCPtasks)
  <2>1. /\ Pending(Tail(PCPtasks), u) \in Nat
        /\ Pending(PCPtasks, u) = Pending(Tail(PCPtasks), u) + (IF Head(PCPtasks) = u THEN 1 ELSE 0)
    BY <1>1, <1>6, PendingTail
  <2>2. QED  BY <1>2, <1>3, <1>6, <2>1
<1>7. CASE PCPtasks # <<>> /\ Head(PCPtasks) # u /\ u # "NORMAL" /\ PCPReplans
  <2>1. "NORMAL" \in PCPKinds
    BY DEF PCPKinds
  <2>2. Pending(Append(Tail(PCPtasks), "NORMAL"), u)
          = Pending(PCPtasks, u) - (IF Head(PCPtasks) = u THEN 1 ELSE 0) + (IF "NORMAL" = u THEN 1 ELSE 0)
    BY <1>1, <1>7, <2>1, PendingReplans
  <2>3. QED  BY <1>2, <1>3, <1>7, <2>2 DEF PCPReplans
<1>8. QED  BY <1>4, <1>5, <1>6, <1>7 DEF OnlyOthers

\* The planner takes a task of this kind and posts one to plan again, or none.
LEMMA TakesOne ==
  ASSUME TasksType, NEW u \in PCPKinds, u # "NORMAL", PCPTakes(u),
         PCPReplans \/ PCPtasks' = Tail(PCPtasks)
  PROVE  Pending(PCPtasks, u) \in Nat /\ Pending(PCPtasks, u)' = Pending(PCPtasks, u) - 1
         /\ Pending(PCPtasks, u)' \in Nat
<1>1. PCPtasks \in Seq(PCPKinds) /\ "NORMAL" \in PCPKinds /\ PCPtasks # <<>> /\ Head(PCPtasks) = u
  BY DEF TasksType, PCPKinds, PCPTakes
<1>2. Pending(PCPtasks, u)' = Pending(PCPtasks', u)
  BY DEF Pending
<1>3. /\ Pending(Tail(PCPtasks), u) \in Nat /\ Pending(PCPtasks, u) \in Nat
      /\ Pending(PCPtasks, u) = Pending(Tail(PCPtasks), u) + (IF Head(PCPtasks) = u THEN 1 ELSE 0)
  BY <1>1, PendingTail
<1>4. /\ Pending(Append(Tail(PCPtasks), "NORMAL"), u) \in Nat
      /\ Pending(Append(Tail(PCPtasks), "NORMAL"), u)
           = Pending(PCPtasks, u) - (IF Head(PCPtasks) = u THEN 1 ELSE 0) + (IF "NORMAL" = u THEN 1 ELSE 0)
  BY <1>1, PendingReplans
<1>5. CASE PCPReplans
  BY <1>1, <1>2, <1>3, <1>4, <1>5 DEF PCPReplans
<1>6. CASE PCPtasks' = Tail(PCPtasks)
  BY <1>1, <1>2, <1>3, <1>6
<1>7. QED  BY <1>5, <1>6

\* A task of this kind is posted.
LEMMA PostsOne ==
  ASSUME TasksType, NEW u \in PCPKinds, AddPCPTask(u)
  PROVE  Pending(PCPtasks, u) \in Nat /\ Pending(PCPtasks, u)' = Pending(PCPtasks, u) + 1
<1>1. PCPtasks \in Seq(PCPKinds)
  BY DEF TasksType, PCPKinds
<1>2. Pending(PCPtasks, u)' = Pending(PCPtasks', u)
  BY DEF Pending
<1>3. QED  BY <1>1, <1>2, PendingAppend DEF AddPCPTask

\* The step that posts or takes a task of a kind.
Posts(j, u) ==
    /\ j.at = "post"
    /\ Handler(j) \/ ConsoleJob(j)
    /\ \/ u = "FREE_DUMMY" /\ Comms_CPU_DummyAtDAM(j)
       \/ u = "BLOCK" /\ Comms_CPU_DTBAtDAM(j)
       \/ u = "UNLOCK" /\ (Comms_DAM_OperationFinished(j) \/ Comms_CPU_OutOfQuantum(j))
       \/ u = "END" /\ (Comms_DAM_IOError(j) \/ Comms_CPU_ErrorOrEOF(j) \/ CommandFinalizarPosts(j))
Takes(u) ==
    \/ u = "LOAD_DUMMY" /\ PCPLoadsDummy
    \/ u = "FREE_DUMMY" /\ PCPFreesDummy
    \/ u = "BLOCK" /\ PCPBlocks
    \/ u = "UNLOCK" /\ PCPUnlocks
    \/ u = "END" /\ PCPEnds
About(u) ==
    \/ u = "NORMAL"
    \/ u = "LOAD_DUMMY" /\ PLPAdmits
    \/ \E j \in jobs : Posts(j, u)
    \/ Takes(u)

\* Which steps are about which tasks.
LEMMA AboutTasks ==
  ASSUME [Next]_vars, NEW u \in PCPKinds
  PROVE  OnlyOthers(u) \/ About(u)
<1>1. CASE UNCHANGED vars
  BY <1>1 DEF vars, tasks, OnlyOthers
<1>2. CASE PLP
  BY <1>2 DEF PLP, PLPCannotSchedule, PLPTakesDummy, PLPCreates, PLPInitializes,
              PLPInitializeFails, PLPAdmits, AddPCPTask, tasks, OnlyOthers, About, PCPKinds
<1>3. CASE PCP
  <2>1. CASE PCPDispatches \/ PCPDispatchFails \/ PCPBlockFails \/ PCPUnlockFails \/ PCPEndFails
    BY <2>1 DEF PCPDispatches, PCPDispatchesDTB, PCPDispatchesDummy, PCPDispatchFails,
                PCPBlockFails, PCPUnlockFails, PCPEndFails, tasks, OnlyOthers
  <2>2. CASE PCPLoadsDummy
    BY <2>2 DEF PCPLoadsDummy, PCPTakes, OnlyOthers, About, Takes
  <2>3. CASE PCPFreesDummy
    BY <2>3 DEF PCPFreesDummy, PCPTakes, OnlyOthers, About, Takes
  <2>4. CASE PCPBlocks
    BY <2>4 DEF PCPBlocks, PCPTakes, OnlyOthers, About, Takes
  <2>5. CASE PCPUnlocks
    BY <2>5 DEF PCPUnlocks, PCPTakes, OnlyOthers, About, Takes
  <2>6. CASE PCPEnds
    BY <2>6 DEF PCPEnds, PCPTakes, OnlyOthers, About, Takes
  <2>7. CASE PCPCannotSchedule \/ PCPCanSchedule
    BY <2>7 DEF PCPCannotSchedule, PCPCanSchedule, PCPTakes, OnlyOthers, About
  <2>8. CASE PCPFreedDummy \/ PCPEnded
    BY <2>8 DEF PCPFreedDummy, PCPEnded, AddPCPTask, OnlyOthers, About, PCPKinds
  <2>9. QED  BY <1>3, <2>1, <2>2, <2>3, <2>4, <2>5, <2>6, <2>7, <2>8 DEF PCP
<1>4. ASSUME NEW j \in jobs, Handler(j)
      PROVE  OnlyOthers(u) \/ About(u)
  <2>1. PCPtasks' = PCPtasks \/ (j.at = "post" /\ \E t \in PCPKinds : AddPCPTask(t) /\ Posts(j, t))
    <3>1. CASE Comms_DAM_DummyFinished(j)
      BY <3>1 DEF Comms_DAM_DummyFinished
    <3>2. CASE Comms_DAM_OperationFinished(j)
      BY <1>4, <3>2 DEF Comms_DAM_OperationFinished, Posts, PCPKinds
    <3>3. CASE Comms_DAM_IOError(j)
      BY <1>4, <3>3 DEF Comms_DAM_IOError, Posts, PCPKinds
    <3>4. CASE Comms_CPU_ErrorOrEOF(j)
      BY <1>4, <3>4 DEF Comms_CPU_ErrorOrEOF, Posts, PCPKinds
    <3>5. CASE Comms_CPU_DummyAtDAM(j)
      BY <1>4, <3>5 DEF Comms_CPU_DummyAtDAM, Posts, PCPKinds
    <3>6. CASE Comms_CPU_DTBAtDAM(j)
      BY <1>4, <3>6 DEF Comms_CPU_DTBAtDAM, Posts, PCPKinds
    <3>7. CASE Comms_CPU_OutOfQuantum(j)
      BY <1>4, <3>7 DEF Comms_CPU_OutOfQuantum, Posts, PCPKinds
    <3>8. QED  BY <1>4, <3>1, <3>2, <3>3, <3>4, <3>5, <3>6, <3>7 DEF Handler
  <2>2. QED  BY <2>1 DEF AddPCPTask, OnlyOthers, About
<1>5. CASE Console
  BY <1>5 DEF Console, CommandEjecutar, CommandFinalizar, tasks, OnlyOthers
<1>6. ASSUME NEW j \in jobs, ConsoleJob(j)
      PROVE  OnlyOthers(u) \/ About(u)
  <2>1. CASE CommandFinalizarPosts(j)
    BY <1>6, <2>1 DEF CommandFinalizarPosts, AddPCPTask, OnlyOthers, About, Posts, PCPKinds
  <2>2. CASE ~CommandFinalizarPosts(j)
    BY <1>6, <2>2 DEF ConsoleJob, CommandEjecutarPosts, CommandFinalizarTakesCPU,
                      CommandFinalizarFails, tasks, OnlyOthers
  <2>3. QED  BY <2>1, <2>2
<1>7. CASE \E c \in CPUs : CPUSpeaks(c) \/ CPUConnects(c) \/ CPUDisconnects(c)
  BY <1>7
  DEF CPUSpeaks, CPURunsDummy, CPURequestsIO, CPUEndsQuantum, CPUEndsDTB, CPUSends,
      CPUConnects, CPUDisconnects, tasks, OnlyOthers
<1>8. CASE \E r \in dam : DAMAnswers(r)
  BY <1>8 DEF DAMAnswers, tasks, OnlyOthers
<1>9. QED  BY <1>1, <1>2, <1>3, <1>4, <1>5, <1>6, <1>7, <1>8 DEF Next

\* The CPUs that run the dummy, and the messages that tell of it.
OnDummy == {c \in CPUs : running[c].kind = "dummy"}
ToldDummy == {j \in jobs : j.msg = "BLOCKDUMMY"}

LoadsInv == IsFiniteSet(jobs) /\ IsFiniteSet(OnDummy) /\ DummyLoadsOne

\* A part of a finite set, that counts no more than the set.
LEMMA CountPart ==
  ASSUME NEW S, IsFiniteSet(S), NEW T, T \subseteq S
  PROVE  /\ IsFiniteSet(T) /\ Cardinality(T) \in Nat /\ Cardinality(S) \in Nat
         /\ Cardinality(T) <= Cardinality(S)
  BY FS_Subset, FS_CardinalityType

\* One element comes.
LEMMA CountAdd ==
  ASSUME NEW S, IsFiniteSet(S), NEW k
  PROVE  /\ IsFiniteSet(S \cup {k}) /\ Cardinality(S \cup {k}) \in Nat
         /\ Cardinality(S) \in Nat /\ Cardinality(S \cup {k}) <= Cardinality(S) + 1
<1>1. Cardinality(S) \in Nat /\ IsFiniteSet(S \cup {k})
  BY FS_CardinalityType, FS_AddElement
<1>2. CASE k \in S
  <2>1. S \cup {k} = S
    BY <1>2
  <2>2. Cardinality(S \cup {k}) = Cardinality(S)
    BY <2>1
  <2>3. QED  BY <1>1, <2>2
<1>3. CASE k \notin S
  <2>1. Cardinality(S \cup {k}) = Cardinality(S) + 1
    BY <1>3, FS_AddElement
  <2>2. QED  BY <1>1, <2>1
<1>4. QED  BY <1>2, <1>3

\* One element comes, for another that goes.
LEMMA CountSwap ==
  ASSUME NEW S, IsFiniteSet(S), NEW s \in S, NEW k
  PROVE  /\ IsFiniteSet((S \ {s}) \cup {k}) /\ Cardinality((S \ {s}) \cup {k}) <= Cardinality(S)
         /\ Cardinality((S \ {s}) \cup {k}) \in Nat
         /\ IsFiniteSet(S \ {s}) /\ Cardinality(S \ {s}) = Cardinality(S) - 1
         /\ Cardinality(S \ {s}) \in Nat
<1>1. PICK E : E = S \ {s}
  OBVIOUS
<1>2. /\ IsFiniteSet(E) /\ Cardinality(E) = Cardinality(S) - 1
      /\ Cardinality(E) \in Nat /\ Cardinality(S) \in Nat
  BY <1>1, FS_RemoveElement, FS_CardinalityType
<1>3. /\ IsFiniteSet(E \cup {k}) /\ Cardinality(E \cup {k}) \in Nat
      /\ Cardinality(E \cup {k}) <= Cardinality(S)
  <2>1. /\ IsFiniteSet(E \cup {k}) /\ Cardinality(E \cup {k}) \in Nat
        /\ Cardinality(E \cup {k}) <= Cardinality(E) + 1
    BY <1>2, CountAdd
  <2>2. QED  BY <1>2, <2>1
<1>4. IsFiniteSet((S \ {s}) \cup {k}) /\ Cardinality((S \ {s}) \cup {k}) <= Cardinality(S)
      /\ Cardinality((S \ {s}) \cup {k}) \in Nat
  BY <1>1, <1>3, Zenon
<1>5. /\ IsFiniteSet(S \ {s}) /\ Cardinality(S \ {s}) = Cardinality(S) - 1
      /\ Cardinality(S \ {s}) \in Nat
  BY <1>1, <1>2, Zenon
<1>6. QED  BY <1>4, <1>5, Zenon

\* The set of messages stays finite: one comes at a time.
LEMMA JobsFinite ==
  ASSUME IsFiniteSet(jobs), [Next]_vars
  PROVE  IsFiniteSet(jobs')
<1>1. \E k : jobs' \subseteq jobs \cup {k}
  <2>1. CASE UNCHANGED vars
    BY <2>1 DEF vars, outside
  <2>2. CASE PLP
    BY <2>2 DEF PLP, PLPCannotSchedule, PLPTakesDummy, PLPAdmits, PLPCreates, PLPInitializes,
                PLPInitializeFails, outside
  <2>3. CASE PCP
    BY <2>3
    DEF PCP, PCPDispatches, PCPDispatchesDTB, PCPDispatchesDummy, PCPCannotSchedule,
        PCPCanSchedule, PCPDispatchFails, PCPLoadsDummy, PCPFreesDummy, PCPFreedDummy, PCPBlocks,
        PCPBlockFails, PCPUnlocks, PCPUnlockFails, PCPEnds, PCPEnded, PCPEndFails, outside
  <2>4. ASSUME NEW j \in jobs, Handler(j)
        PROVE  \E k : jobs' \subseteq jobs \cup {k}
    <3>1. Pushed(j) \/ Finished(j)
      BY <2>4
      DEF Handler, Comms_DAM_DummyFinished, Comms_DAM_OperationFinished, Comms_DAM_IOError,
          Comms_CPU_ErrorOrEOF, Comms_CPU_DummyAtDAM, Comms_CPU_DTBAtDAM, Comms_CPU_OutOfQuantum
    <3>2. QED  BY <3>1 DEF Pushed, Finished
  <2>5. CASE Console
    BY <2>5 DEF Console, CommandEjecutar, CommandFinalizar
  <2>6. CASE \E j \in jobs : ConsoleJob(j)
    BY <2>6 DEF ConsoleJob, CommandEjecutarPosts, CommandFinalizarTakesCPU, CommandFinalizarFails,
                CommandFinalizarPosts, Finished, outside
  <2>7. CASE \E c \in CPUs : CPUSpeaks(c) \/ CPUConnects(c) \/ CPUDisconnects(c)
    BY <2>7 DEF CPUSpeaks, CPURunsDummy, CPURequestsIO, CPUEndsQuantum, CPUEndsDTB, CPUSends,
                CPUConnects, CPUDisconnects, outside
  <2>8. CASE \E r \in dam : DAMAnswers(r)
    BY <2>8 DEF DAMAnswers
  <2>9. QED  BY <2>1, <2>2, <2>3, <2>4, <2>5, <2>6, <2>7, <2>8 DEF Next
<1>2. PICK k : jobs' \subseteq jobs \cup {k}
  BY <1>1
<1>3. IsFiniteSet(jobs \cup {k})
  BY FS_AddElement
<1>4. QED  BY <1>2, <1>3, FS_Subset

\* The messages about the dummy: one more when a CPU has run it, one less when its
\* handler has posted its task.
LEMMA ToldNext ==
  ASSUME TypeOK, IsFiniteSet(jobs), [Next]_vars
  PROVE  /\ Cardinality(ToldDummy) \in Nat /\ Cardinality(ToldDummy') \in Nat
         /\ Cardinality(ToldDummy') <= Cardinality(ToldDummy) + 1
         /\ (\A c \in CPUs : ~CPURunsDummy(c)) => Cardinality(ToldDummy') <= Cardinality(ToldDummy)
         /\ \A j \in jobs : Posts(j, "FREE_DUMMY")
                              => Cardinality(ToldDummy') = Cardinality(ToldDummy) - 1
<1>1. PICK M : M = ToldDummy
  OBVIOUS
<1>2. PICK N : N = ToldDummy'
  OBVIOUS
<1>3. IsFiniteSet(M)
  BY <1>1, FS_Subset DEF ToldDummy
<1>4. IsFiniteSet(N)
  <2>1. N \subseteq jobs'
    BY <1>2 DEF ToldDummy
  <2>2. QED  BY <2>1, JobsFinite, FS_Subset
<1>5. Cardinality(M) \in Nat /\ Cardinality(N) \in Nat
  BY <1>3, <1>4, FS_CardinalityType
<1>6. ASSUME NEW k, N \subseteq M \cup {k}
      PROVE  Cardinality(N) <= Cardinality(M) + 1
  <2>1. /\ IsFiniteSet(M \cup {k}) /\ Cardinality(M \cup {k}) \in Nat
        /\ Cardinality(M \cup {k}) <= Cardinality(M) + 1
    BY <1>3, CountAdd
  <2>2. Cardinality(N) <= Cardinality(M \cup {k})
    BY <1>6, <2>1, CountPart
  <2>3. QED  BY <1>5, <2>1, <2>2
<1>7. ASSUME NEW j \in jobs, Posts(j, "FREE_DUMMY")
      PROVE  Cardinality(N) = Cardinality(M) - 1
  <2>1. jobs' = jobs \ {j} /\ j.msg = "BLOCKDUMMY"
    BY <1>7 DEF Posts, Comms_CPU_DummyAtDAM, Finished
  <2>2. N = M \ {j} /\ j \in M
    BY <1>1, <1>2, <2>1 DEF ToldDummy
  <2>3. QED  BY <1>3, <2>2, FS_RemoveElement
<1>8. \/ N \subseteq M
      \/ \E j \in M : \E k : N \subseteq (M \ {j}) \cup {k}
      \/ \E c \in CPUs : CPURunsDummy(c) /\ \E k : N \subseteq M \cup {k}
  <2>1. CASE UNCHANGED jobs
    BY <1>1, <1>2, <2>1 DEF ToldDummy
  <2>2. ASSUME NEW j \in jobs, Handler(j)
        PROVE  N \subseteq M \/ \E i \in M : \E k : N \subseteq (M \ {i}) \cup {k}
    <3>1. j \in Jobs
      BY DEF TypeOK, OutsideType
    <3>2. Pushed(j) \/ Finished(j)
      BY <2>2
      DEF Handler, Comms_DAM_DummyFinished, Comms_DAM_OperationFinished, Comms_DAM_IOError,
          Comms_CPU_ErrorOrEOF, Comms_CPU_DummyAtDAM, Comms_CPU_DTBAtDAM, Comms_CPU_OutOfQuantum
    <3>3. CASE j.msg = "BLOCKDUMMY"
      <4>1. j \in M
        BY <1>1, <3>3 DEF ToldDummy
      <4>2. N \subseteq (M \ {j}) \cup {[j EXCEPT !.at = "post"]}
        BY <1>1, <1>2, <3>2 DEF ToldDummy, Pushed, Finished
      <4>3. QED  BY <4>1, <4>2
    <3>4. CASE j.msg # "BLOCKDUMMY"
      <4>1. [j EXCEPT !.at = "post"].msg # "BLOCKDUMMY"
        BY <3>1, <3>4 DEF Jobs
      <4>2. \A k \in jobs' : k \in jobs \/ k.msg # "BLOCKDUMMY"
        BY <3>2, <4>1 DEF Pushed, Finished
      <4>3. N \subseteq M
        BY <1>1, <1>2, <4>2 DEF ToldDummy
      <4>4. QED  BY <4>3
    <3>5. QED  BY <3>3, <3>4
  <2>3. CASE Console
    BY <1>1, <1>2, <2>3 DEF Console, CommandEjecutar, CommandFinalizar, ToldDummy
  <2>4. ASSUME NEW j \in jobs, ConsoleJob(j)
        PROVE  N \subseteq M
    <3>1. j \in Jobs
      BY DEF TypeOK, OutsideType
    <3>2. CASE CommandFinalizarTakesCPU(j)
      <4>1. \A c \in IdleCPUs : [j EXCEPT !.at = "post", !.cpu = c].msg = "FINALIZAR"
        BY <3>1, <3>2 DEF CommandFinalizarTakesCPU, Jobs
      <4>2. QED  BY <1>1, <1>2, <3>2, <4>1 DEF CommandFinalizarTakesCPU, ToldDummy
    <3>3. QED
      BY <1>1, <1>2, <2>4, <3>2
      DEF ConsoleJob, CommandEjecutarPosts, CommandFinalizarFails, CommandFinalizarPosts,
          Finished, ToldDummy, outside
  <2>5. ASSUME NEW c \in CPUs, CPURunsDummy(c)
        PROVE  \E k : N \subseteq M \cup {k}
    BY <1>1, <1>2, <2>5 DEF CPURunsDummy, CPUSends, ToldDummy
  <2>6. ASSUME NEW c \in CPUs, CPURequestsIO(c) \/ CPUEndsQuantum(c) \/ CPUEndsDTB(c)
        PROVE  N \subseteq M
    BY <1>1, <1>2, <2>6
    DEF CPURequestsIO, CPUEndsQuantum, CPUEndsDTB, CPUSends, Message, ToldDummy
  <2>7. CASE \E r \in dam : DAMAnswers(r)
    BY <1>1, <1>2, <2>7 DEF DAMAnswers, Message, ToldDummy
  <2>8. CASE PLP \/ PCP \/ \E c \in CPUs : CPUConnects(c) \/ CPUDisconnects(c)
    <3>1. jobs' = jobs
      BY <2>8
      DEF PLP, PLPCannotSchedule, PLPTakesDummy, PLPAdmits, PLPCreates, PLPInitializes,
          PLPInitializeFails, PCP, PCPDispatches, PCPDispatchesDTB, PCPDispatchesDummy,
          PCPCannotSchedule, PCPCanSchedule, PCPDispatchFails, PCPLoadsDummy, PCPFreesDummy,
          PCPFreedDummy, PCPBlocks, PCPBlockFails, PCPUnlocks, PCPUnlockFails, PCPEnds, PCPEnded,
          PCPEndFails, CPUConnects, CPUDisconnects, outside
    <3>2. QED  BY <2>1, <3>1
  <2>9. CASE UNCHANGED vars
    BY <2>1, <2>9 DEF vars, outside
  <2>10. QED  BY <2>2, <2>3, <2>4, <2>5, <2>6, <2>7, <2>8, <2>9 DEF Next, CPUSpeaks
<1>9. Cardinality(N) <= Cardinality(M) \/ \E c \in CPUs : CPURunsDummy(c)
  <2>1. CASE N \subseteq M
    BY <1>3, <2>1, CountPart
  <2>2. CASE \E j \in M : \E k : N \subseteq (M \ {j}) \cup {k}
    <3>1. PICK j \in M : \E k : N \subseteq (M \ {j}) \cup {k}
      BY <2>2
    <3>2. PICK k : N \subseteq (M \ {j}) \cup {k}
      BY <3>1
    <3>3. PICK W : W = (M \ {j}) \cup {k}
      OBVIOUS
    <3>4. IsFiniteSet(W) /\ Cardinality(W) <= Cardinality(M)
      BY <1>3, <3>3, CountSwap
    <3>5. Cardinality(N) <= Cardinality(W) /\ Cardinality(W) \in Nat
      BY <3>2, <3>3, <3>4, CountPart
    <3>6. QED  BY <1>5, <3>4, <3>5
  <2>3. QED  BY <1>8, <2>1, <2>2
<1>10. Cardinality(N) <= Cardinality(M) + 1
  <2>1. CASE \E c \in CPUs : CPURunsDummy(c)
    <3>1. PICK c \in CPUs : CPURunsDummy(c)
      BY <2>1
    <3>2. jobs' \subseteq jobs \cup {Message("BLOCKDUMMY", running[c].id, c, 0)}
      BY <3>1 DEF CPURunsDummy, CPUSends
    <3>3. N \subseteq M \cup {Message("BLOCKDUMMY", running[c].id, c, 0)}
      BY <1>1, <1>2, <3>2 DEF ToldDummy
    <3>4. QED  BY <1>6, <3>3
  <2>2. QED  BY <1>5, <1>9, <2>1
<1>11. QED  BY <1>1, <1>2, <1>5, <1>7, <1>9, <1>10

\* What a CPU executes changes when it is given something and when it speaks or leaves.
LEMMA RunningMoves ==
  ASSUME [Next]_vars
  PROVE  \/ running' = running
         \/ \E c \in CPUs : running' = [running EXCEPT ![c] = NotRunning]
         \/ \E c \in IdleCPUs : PCPDispatchesDummy(c)
         \/ \E c \in IdleCPUs, d \in READY : PCPDispatchesDTB(c, d)
<1>1. CASE UNCHANGED vars
  BY <1>1 DEF vars, outside
<1>2. CASE PLP \/ Console \/ \E j \in jobs : Handler(j) \/ ConsoleJob(j)
  BY <1>2
  DEF PLP, PLPCannotSchedule, PLPTakesDummy, PLPAdmits, PLPCreates, PLPInitializes,
      PLPInitializeFails, Console, CommandEjecutar, CommandFinalizar, Handler, ConsoleJob,
      CommandEjecutarPosts, CommandFinalizarTakesCPU, CommandFinalizarFails,
      CommandFinalizarPosts, outside
<1>3. CASE PCP /\ ~PCPDispatches
  BY <1>3
  DEF PCP, PCPCannotSchedule, PCPCanSchedule, PCPDispatchFails, PCPLoadsDummy, PCPFreesDummy,
      PCPFreedDummy, PCPBlocks, PCPBlockFails, PCPUnlocks, PCPUnlockFails, PCPEnds, PCPEnded,
      PCPEndFails, outside
<1>4. CASE PCPDispatches
  BY <1>4 DEF PCPDispatches
<1>5. CASE \E c \in CPUs : CPUSpeaks(c) \/ CPUConnects(c) \/ CPUDisconnects(c)
  BY <1>5
  DEF CPUSpeaks, CPURunsDummy, CPURequestsIO, CPUEndsQuantum, CPUEndsDTB, CPUSends,
      CPUConnects, CPUDisconnects, outside
<1>6. CASE \E r \in dam : DAMAnswers(r)
  BY <1>6 DEF DAMAnswers
<1>7. QED  BY <1>1, <1>2, <1>3, <1>4, <1>5, <1>6 DEF Next

\* The CPUs that run the dummy: one more when the planner dispatches it, one less
\* when its CPU has spoken.
LEMMA RunNext ==
  ASSUME TypeOK, IsFiniteSet(OnDummy), [Next]_vars
  PROVE  /\ IsFiniteSet(OnDummy') /\ Cardinality(OnDummy) \in Nat /\ Cardinality(OnDummy') \in Nat
         /\ Cardinality(OnDummy') <= Cardinality(OnDummy) + 1
         /\ (\A c \in IdleCPUs : ~PCPDispatchesDummy(c)) => Cardinality(OnDummy') <= Cardinality(OnDummy)
         /\ \A c \in CPUs : CPURunsDummy(c) => Cardinality(OnDummy') = Cardinality(OnDummy) - 1
<1>1. PICK M : M = OnDummy
  OBVIOUS
<1>2. PICK N : N = OnDummy'
  OBVIOUS
<1>3. running \in [CPUs -> [kind : {"idle", "dtb", "dummy"}, id : Ids]] /\ IdleCPUs \subseteq CPUs
  BY DEF TypeOK, OutsideType, HolderType, IdleCPUs
<1>4. ASSUME NEW c \in CPUs, CPURunsDummy(c)
      PROVE  N = M \ {c} /\ c \in M
  <2>1. running' = [running EXCEPT ![c] = NotRunning] /\ running[c].kind = "dummy"
    BY <1>4 DEF CPURunsDummy, CPUSends
  <2>2. QED  BY <1>1, <1>2, <1>3, <2>1 DEF OnDummy, NotRunning
<1>5. ASSUME NEW c \in IdleCPUs, PCPDispatchesDummy(c)
      PROVE  N \subseteq M \cup {c}
  <2>1. running' = [running EXCEPT ![c] = [kind |-> "dummy", id |-> dummy.id]]
    BY <1>5 DEF PCPDispatchesDummy
  <2>2. QED  BY <1>1, <1>2, <1>3, <2>1 DEF OnDummy
<1>6. N \subseteq M \/ \E c \in IdleCPUs : PCPDispatchesDummy(c)
  <2>1. CASE running' = running
    BY <1>1, <1>2, <2>1 DEF OnDummy
  <2>2. CASE \E c \in CPUs : running' = [running EXCEPT ![c] = NotRunning]
    BY <1>1, <1>2, <1>3, <2>2 DEF OnDummy, NotRunning
  <2>3. CASE \E c \in IdleCPUs, d \in READY : PCPDispatchesDTB(c, d)
    <3>1. \E c \in CPUs, d \in READY : running' = [running EXCEPT ![c] = [kind |-> "dtb", id |-> d]]
      BY <1>3, <2>3 DEF PCPDispatchesDTB
    <3>2. QED  BY <1>1, <1>2, <1>3, <3>1 DEF OnDummy
  <2>4. QED  BY <2>1, <2>2, <2>3, RunningMoves
<1>7. IsFiniteSet(M)
  BY <1>1
<1>8. /\ IsFiniteSet(N) /\ Cardinality(M) \in Nat /\ Cardinality(N) \in Nat
      /\ Cardinality(N) <= Cardinality(M) + 1
  <2>1. PICK c : N \subseteq M \cup {c}
    BY <1>5, <1>6
  <2>2. /\ IsFiniteSet(M \cup {c}) /\ Cardinality(M \cup {c}) \in Nat /\ Cardinality(M) \in Nat
        /\ Cardinality(M \cup {c}) <= Cardinality(M) + 1
    BY <1>7, CountAdd
  <2>3. IsFiniteSet(N) /\ Cardinality(N) \in Nat /\ Cardinality(N) <= Cardinality(M \cup {c})
    BY <2>1, <2>2, CountPart
  <2>4. QED  BY <2>2, <2>3
<1>9. N \subseteq M => Cardinality(N) <= Cardinality(M)
  BY <1>7, CountPart
<1>10. \A c \in CPUs : CPURunsDummy(c) => Cardinality(N) = Cardinality(M) - 1
  BY <1>4, <1>7, FS_RemoveElement
<1>11. QED  BY <1>1, <1>2, <1>6, <1>8, <1>9, <1>10

\* The short-term planner blocks the DTB that a CPU said, never the dummy.
LEMMA BlocksNoDummy ==
  ASSUME TypeOK, Fresh, PCPBlocks
  PROVE  UNCHANGED dummies
<1>1. toBeBlocked \in Seq(Ids) /\ dummy.id \in Ids
  BY DEF TypeOK, DataType, DummyType
<1>2. FirstOf(toBeBlocked) # dummy.id
  <2>1. CASE toBeBlocked = <<>>
    BY <1>1, <2>1 DEF FirstOf, NoId, Ids
  <2>2. CASE toBeBlocked # <<>>
    <3>1. 1 \in DOMAIN toBeBlocked /\ Head(toBeBlocked) = toBeBlocked[1]
      BY <1>1, <2>2
    <3>2. QED  BY <2>2, <3>1 DEF FirstOf, Fresh, FreshData, Begun
  <2>3. QED  BY <2>1, <2>2
<1>3. QED  BY <1>2 DEF PCPBlocks, DummyHasId

\* The nodes of the dummy in READY: one more when its task is taken, one less when
\* it is dispatched.
LEMMA ReadyNext ==
  ASSUME TypeOK, Fresh, [Next]_vars
  PROVE  /\ dummyIn["READY"] \in Nat /\ dummyIn'["READY"] \in Nat
         /\ PCPLoadsDummy => dummyIn'["READY"] = dummyIn["READY"] + 1
         /\ ~PCPLoadsDummy => dummyIn'["READY"] <= dummyIn["READY"]
         /\ \A c : PCPDispatchesDummy(c) => dummyIn'["READY"] = dummyIn["READY"] - 1
<1>1. dummyIn \in [DummyLists -> Nat] /\ {"READY", "EXEC", "BLOCKED", "EXIT"} = DummyLists
  BY DEF TypeOK, DummyType, DummyLists
<1>2. CASE UNCHANGED dummies
  BY <1>1, <1>2 DEF dummies, PCPLoadsDummy, PCPDispatchesDummy, DummyInto, DummyOut
<1>3. CASE PCPLoadsDummy
  <2>1. \A c : ~PCPDispatchesDummy(c)
    BY <1>3 DEF PCPLoadsDummy, PCPTakes, PCPDispatchesDummy
  <2>2. QED  BY <1>1, <1>3, <2>1 DEF PCPLoadsDummy, DummyInto
<1>4. ASSUME NEW c, PCPDispatchesDummy(c)
      PROVE  dummyIn'["READY"] = dummyIn["READY"] - 1 /\ ~PCPLoadsDummy
  BY <1>1, <1>4 DEF PCPDispatchesDummy, PCPLoadsDummy, PCPTakes, DummyInto, DummyOut
<1>5. CASE PLPTakesDummy \/ PCPFreesDummy \/ PCPFreedDummy
  <2>1. \A c : ~PCPDispatchesDummy(c)
    BY <1>5 DEF PLPTakesDummy, PCPFreesDummy, PCPFreedDummy, PCPTakes, PCPDispatchesDummy, threads,
                DummyInto, DummyOut, Waiting, PLPTakes
  <2>2. dummyIn'["READY"] = dummyIn["READY"]
    BY <1>1, <1>5 DEF PLPTakesDummy, PCPFreesDummy, PCPFreedDummy, DummyInto, DummyOut
  <2>3. ~PCPLoadsDummy
    BY <1>1, <1>5, <2>2 DEF PCPLoadsDummy, DummyInto
  <2>4. QED  BY <1>1, <2>1, <2>2, <2>3
<1>6. CASE PCPEnds
  <2>1. ~PCPLoadsDummy /\ \A c : ~PCPDispatchesDummy(c)
    BY <1>6 DEF PCPEnds, PCPLoadsDummy, PCPTakes, PCPDispatchesDummy
  <2>2. dummyIn'["READY"] =< dummyIn["READY"] /\ dummyIn'["READY"] \in Nat
    <3>1. CASE dummies' = dummies
      BY <1>1, <3>1 DEF dummies
    <3>2. CASE \E id : EndsDummy(id)
      <4>1. PICK id : EndsDummy(id)
        BY <3>2
      <4>2. PICK i \in 1..3 : dummyIn' = DummyInto(DummyOut(dummyIn, SearchOrder[i]), "EXIT")
        BY <4>1 DEF EndsDummy
      <4>3. SearchOrder[i] \in DummyLists
        BY SearchOrderLists
      <4>4. QED  BY <1>1, <4>2, <4>3 DEF DummyInto, DummyOut
    <3>3. QED  BY <1>6, <3>1, <3>2 DEF PCPEnds, EndsQueued, EndsLoading, dummies
  <2>3. QED  BY <1>1, <2>1, <2>2
<1>7. dummies' = dummies \/ PCPLoadsDummy \/ (\E c : PCPDispatchesDummy(c))
      \/ PLPTakesDummy \/ PCPFreesDummy \/ PCPFreedDummy \/ PCPEnds \/ PLPAdmits
  <2>1. CASE UNCHANGED vars
    BY <2>1 DEF vars
  <2>2. CASE PLP
    BY <2>2 DEF PLP, PLPCannotSchedule, PLPCreates, PLPInitializes, PLPInitializeFails
  <2>3. CASE PCP
    BY <2>3, BlocksNoDummy
    DEF PCP, PCPDispatches, PCPDispatchesDTB, PCPCannotSchedule, PCPCanSchedule,
        PCPDispatchFails, PCPBlockFails, PCPUnlocks, PCPUnlockFails, PCPEnded, PCPEndFails, dummies
  <2>4. CASE Console \/ \E j \in jobs : Handler(j) \/ ConsoleJob(j)
    BY <2>4
    DEF Console, CommandEjecutar, CommandFinalizar, Handler, ConsoleJob, CommandEjecutarPosts,
        CommandFinalizarTakesCPU, CommandFinalizarFails, CommandFinalizarPosts
  <2>5. CASE \E c \in CPUs : CPUSpeaks(c) \/ CPUConnects(c) \/ CPUDisconnects(c)
    BY <2>5
    DEF CPUSpeaks, CPURunsDummy, CPURequestsIO, CPUEndsQuantum, CPUEndsDTB, CPUSends,
        CPUConnects, CPUDisconnects
  <2>6. CASE \E r \in dam : DAMAnswers(r)
    BY <2>6 DEF DAMAnswers
  <2>7. QED  BY <2>1, <2>2, <2>3, <2>4, <2>5, <2>6 DEF Next
<1>8. CASE PLPAdmits
  BY <1>1, <1>8 DEF PLPAdmits, PCPLoadsDummy, PCPDispatchesDummy, DummyInto, DummyOut
<1>9. CASE \E c : PCPDispatchesDummy(c)
  <2>1. dummyIn'["READY"] = dummyIn["READY"] - 1 /\ ~PCPLoadsDummy /\ dummyIn["READY"] > 0
    BY <1>4, <1>9 DEF PCPDispatchesDummy
  <2>2. QED  BY <1>1, <2>1
<1>10. QED  BY <1>2, <1>3, <1>5, <1>6, <1>7, <1>8, <1>9

\* The load in the hand of the PLP, from the moment it takes the dummy.
Handed == IF plp.at = "admit" THEN 1 ELSE 0

\* The PLP has one load in its hand, or none.
LEMMA HandedIs == Cardinality(InHand) = Handed
  BY FS_EmptySet, FS_Singleton DEF InHand, Handed

\* The loads of the dummy are those in each of their places,
LEMMA DummyLoadsIs ==
  DummyLoads = Handed + Pending(PCPtasks, "LOAD_DUMMY") + dummyIn["READY"]
               + Cardinality(OnDummy) + Cardinality(ToldDummy) + Pending(PCPtasks, "FREE_DUMMY")
  BY HandedIs DEF DummyLoads, OnDummy, ToldDummy

\* and so they are after a step.
LEMMA DummyLoadsIsNext ==
  DummyLoads' = Handed' + Pending(PCPtasks, "LOAD_DUMMY")' + dummyIn'["READY"]
                + Cardinality(OnDummy') + Cardinality(ToldDummy') + Pending(PCPtasks, "FREE_DUMMY")'
<1>1. (DummyLoads = Handed + Pending(PCPtasks, "LOAD_DUMMY") + dummyIn["READY"]
                    + Cardinality(OnDummy) + Cardinality(ToldDummy) + Pending(PCPtasks, "FREE_DUMMY"))'
  BY DummyLoadsIs, PTL
<1>2. QED  BY <1>1

\* How each place of a load changes in a step.
LEMMA LoadsMove ==
  ASSUME TypeOK, Fresh, IsFiniteSet(jobs), IsFiniteSet(OnDummy), [Next]_vars
  PROVE  /\ PLPTakesDummy => Handed' = 1 /\ Handed = 0
         /\ PLPAdmits => Handed' = 0 /\ Handed = 1
         /\ ~PLPTakesDummy /\ ~PLPAdmits => Handed' = Handed
         /\ ~PLPTakesDummy /\ ~PCPFreesDummy /\ dummy'.status = "BLOCKED" => dummy.status = "BLOCKED"
<1>1. plp' = plp \/ PLPTakesDummy \/ PLPAdmits
  <2>1. CASE UNCHANGED vars
    BY <2>1 DEF vars, threads
  <2>2. CASE PLP
    BY <2>2 DEF PLP, PLPCannotSchedule, PLPCreates, PLPInitializes, PLPInitializeFails, threads
  <2>3. CASE PCP
    BY <2>3
    DEF PCP, PCPDispatches, PCPDispatchesDTB, PCPDispatchesDummy, PCPCannotSchedule,
        PCPCanSchedule, PCPDispatchFails, PCPLoadsDummy, PCPFreesDummy, PCPFreedDummy, PCPBlocks,
        PCPBlockFails, PCPUnlocks, PCPUnlockFails, PCPEnds, PCPEnded, PCPEndFails, threads
  <2>4. CASE ~PLP /\ ~PCP /\ Next
    BY <2>4, OutsideMovesNone DEF Next, threads
  <2>5. QED  BY <2>1, <2>2, <2>3, <2>4
<1>2. PLPTakesDummy => Handed' = 1 /\ Handed = 0
  BY DEF PLPTakesDummy, PLPTakes, Handed
<1>3. PLPAdmits => Handed' = 0 /\ Handed = 1
  BY DEF PLPAdmits, Handed, Waiting
<1>4. ~PLPTakesDummy /\ ~PLPAdmits => Handed' = Handed
  BY <1>1 DEF Handed
<1>5. ~PLPTakesDummy /\ ~PCPFreesDummy /\ dummy'.status = "BLOCKED" => dummy.status = "BLOCKED"
  <2>1. CASE UNCHANGED vars
    BY <2>1 DEF vars, dummies
  <2>2. CASE PLP
    BY <2>2 DEF PLP, PLPCannotSchedule, PLPCreates, PLPInitializes, PLPInitializeFails,
                PLPAdmits, dummies, TypeOK, DummyType
  <2>3. CASE PCPBlocks
    BY <2>3, BlocksNoDummy DEF dummies
  <2>4. CASE PCPDispatches \/ PCPLoadsDummy
    BY <2>4 DEF PCPDispatches, PCPDispatchesDTB, PCPDispatchesDummy, PCPLoadsDummy, dummies,
                TypeOK, DummyType
  <2>5. CASE PCPEnds
    BY <2>5 DEF PCPEnds, EndsDummy, EndsQueued, EndsLoading, dummies, TypeOK, DummyType
  <2>6. CASE PCP /\ ~PCPBlocks /\ ~PCPDispatches /\ ~PCPLoadsDummy /\ ~PCPEnds
    BY <2>6
    DEF PCP, PCPCannotSchedule, PCPCanSchedule, PCPDispatchFails, PCPFreedDummy,
        PCPBlockFails, PCPUnlocks, PCPUnlockFails, PCPEnded, PCPEndFails, dummies
  <2>7. CASE Console \/ \E j \in jobs : Handler(j) \/ ConsoleJob(j)
    BY <2>7
    DEF Console, CommandEjecutar, CommandFinalizar, Handler, ConsoleJob, CommandEjecutarPosts,
        CommandFinalizarTakesCPU, CommandFinalizarFails, CommandFinalizarPosts, dummies
  <2>8. CASE \E c \in CPUs : CPUSpeaks(c) \/ CPUConnects(c) \/ CPUDisconnects(c)
    BY <2>8
    DEF CPUSpeaks, CPURunsDummy, CPURequestsIO, CPUEndsQuantum, CPUEndsDTB, CPUSends,
        CPUConnects, CPUDisconnects, dummies
  <2>9. CASE \E r \in dam : DAMAnswers(r)
    BY <2>9 DEF DAMAnswers, dummies
  <2>10. QED  BY <2>1, <2>2, <2>3, <2>4, <2>5, <2>6, <2>7, <2>8, <2>9 DEF Next
<1>6. QED  BY <1>2, <1>3, <1>4, <1>5

\* A load is in one place, and a step moves it from there to the next.
LEMMA LoadsNext ==
  ASSUME TypeOK, Fresh, LoadsInv, [Next]_vars
  PROVE  LoadsInv'
<1> DEFINE A == Pending(PCPtasks, "LOAD_DUMMY")
           F == Pending(PCPtasks, "FREE_DUMMY")
<1>1. IsFiniteSet(jobs) /\ IsFiniteSet(OnDummy) /\ TasksType
  BY DEF LoadsInv, TypeOK
<1>2. IsFiniteSet(jobs') /\ IsFiniteSet(OnDummy')
  BY <1>1, JobsFinite, RunNext
<1>3. PICK h, a, b, c, e, f, h2, a2, b2, c2, e2, f2 :
        /\ h = Handed /\ a = A /\ b = dummyIn["READY"] /\ c = Cardinality(OnDummy)
        /\ e = Cardinality(ToldDummy) /\ f = F
        /\ h2 = Handed' /\ a2 = A' /\ b2 = dummyIn'["READY"] /\ c2 = Cardinality(OnDummy')
        /\ e2 = Cardinality(ToldDummy') /\ f2 = F'
  OBVIOUS
<1>4. DummyLoads = h + a + b + c + e + f /\ DummyLoads' = h2 + a2 + b2 + c2 + e2 + f2
  <2>1. DummyLoads = h + a + b + c + e + f
    BY <1>3, DummyLoadsIs
  <2>2. DummyLoads' = h2 + a2 + b2 + c2 + e2 + f2
    BY <1>3, DummyLoadsIsNext
  <2>3. QED  BY <2>1, <2>2
<1>5. /\ h \in {0, 1} /\ h2 \in {0, 1} /\ b \in Nat /\ b2 \in Nat /\ c \in Nat /\ c2 \in Nat
      /\ e \in Nat /\ e2 \in Nat
  BY <1>1, <1>3, ReadyNext, RunNext, ToldNext DEF Handed
<1>6. a \in Nat /\ f \in Nat
  <2>1. PCPtasks \in Seq(PCPKinds) /\ "NORMAL" \in PCPKinds
    BY <1>1 DEF TasksType, PCPKinds
  <2>2. QED  BY <1>3, <2>1, PendingAppend
<1>7. /\ h + a + b + c + e + f <= 1
      /\ dummy.status = "BLOCKED" => h + a + b + c + e + f = 0
  BY <1>4 DEF LoadsInv, DummyLoadsOne
<1>8. /\ PLPTakesDummy => h2 = 1 /\ h = 0
      /\ PLPAdmits => h2 = 0 /\ h = 1
      /\ ~PLPTakesDummy /\ ~PLPAdmits => h2 = h
      /\ ~PLPTakesDummy /\ ~PCPFreesDummy /\ dummy'.status = "BLOCKED" => dummy.status = "BLOCKED"
  BY <1>1, <1>3, LoadsMove
<1>9. /\ PCPLoadsDummy => b2 = b + 1
      /\ ~PCPLoadsDummy => b2 <= b
      /\ \A d : PCPDispatchesDummy(d) => b2 = b - 1
  BY <1>3, ReadyNext
<1>10. /\ c2 <= c + 1
       /\ (\A d \in IdleCPUs : ~PCPDispatchesDummy(d)) => c2 <= c
       /\ \A d \in CPUs : CPURunsDummy(d) => c2 = c - 1
  BY <1>1, <1>3, RunNext
<1>11. /\ e2 <= e + 1
       /\ (\A d \in CPUs : ~CPURunsDummy(d)) => e2 <= e
       /\ \A j \in jobs : Posts(j, "FREE_DUMMY") => e2 = e - 1
  BY <1>1, <1>3, ToldNext
<1>12. /\ OnlyOthers("LOAD_DUMMY") => a2 = a
       /\ OnlyOthers("FREE_DUMMY") => f2 = f
  BY <1>1, <1>3, OthersKeep
<1>13. ASSUME h2 + a2 + b2 + c2 + e2 + f2 <= 1,
              dummy'.status = "BLOCKED" => h2 + a2 + b2 + c2 + e2 + f2 = 0
       PROVE  LoadsInv'
  BY <1>2, <1>4, <1>13 DEF LoadsInv, DummyLoadsOne
<1>14. /\ PCPtasks' = PCPtasks => a2 = a /\ f2 = f
       /\ running' = running => c2 = c
       /\ jobs' = jobs => e2 = e
       /\ plp' = plp => h2 = h
       /\ dummyIn' = dummyIn => b2 = b
  BY <1>3 DEF Pending, OnDummy, ToldDummy, Handed
<1>15. CASE PLPTakesDummy
  <2>1. /\ PCPtasks' = PCPtasks /\ running' = running /\ jobs' = jobs
        /\ dummy.status = "BLOCKED" /\ dummy'.status = "READY" /\ ~PCPLoadsDummy
    <3>1. /\ PCPtasks' = PCPtasks /\ running' = running /\ jobs' = jobs /\ plp # plp'
          /\ dummy.status = "BLOCKED" /\ dummy'.status = "READY"
      BY <1>15 DEF PLPTakesDummy, PLPTakes, CanAdmit, DummyAvailable, outside, TypeOK, DummyType
    <3>2. QED  BY <3>1 DEF PCPLoadsDummy, threads
  <2>2. h2 + a2 + b2 + c2 + e2 + f2 <= 1
    BY <1>5, <1>6, <1>7, <1>8, <1>9, <1>14, <1>15, <2>1
  <2>3. QED  BY <1>13, <2>1, <2>2
<1>16. CASE PLPAdmits
  <2>1. /\ running' = running /\ jobs' = jobs /\ dummyIn' = dummyIn /\ dummy'.status = dummy.status
        /\ AddPCPTask("LOAD_DUMMY")
    BY <1>16 DEF PLPAdmits, outside, TypeOK, DummyType
  <2>2. a2 = a + 1 /\ f2 = f
    <3>1. OnlyOthers("FREE_DUMMY") /\ "LOAD_DUMMY" \in PCPKinds
      BY <2>1 DEF OnlyOthers, AddPCPTask, PCPKinds
    <3>2. A' = A + 1
      BY <1>1, <2>1, <3>1, PostsOne
    <3>3. QED  BY <1>3, <1>12, <3>1, <3>2
  <2>3. h2 + a2 + b2 + c2 + e2 + f2 = h + a + b + c + e + f
    BY <1>5, <1>6, <1>8, <1>14, <1>16, <2>1, <2>2
  <2>4. QED  BY <1>7, <1>13, <2>1, <2>3
<1>17. CASE PCPLoadsDummy
  <2>1. /\ running' = running /\ jobs' = jobs /\ plp' = plp /\ dummy'.status = "READY"
        /\ PCPTakes("LOAD_DUMMY") /\ PCPReplans
    BY <1>17 DEF PCPLoadsDummy, outside, threads, TypeOK, DummyType
  <2>2. a2 = a - 1 /\ f2 = f
    <3>1. OnlyOthers("FREE_DUMMY") /\ "LOAD_DUMMY" \in PCPKinds
      BY <2>1 DEF OnlyOthers, PCPTakes, PCPKinds
    <3>2. A' = A - 1
      BY <1>1, <2>1, <3>1, TakesOne
    <3>3. QED  BY <1>3, <1>12, <3>1, <3>2
  <2>3. h2 + a2 + b2 + c2 + e2 + f2 = h + a + b + c + e + f
    BY <1>5, <1>6, <1>9, <1>14, <1>17, <2>1, <2>2
  <2>4. QED  BY <1>7, <1>13, <2>1, <2>3
<1>18. CASE \E d \in IdleCPUs : PCPDispatchesDummy(d)
  <2>1. PICK d \in IdleCPUs : PCPDispatchesDummy(d)
    BY <1>18
  <2>2. /\ PCPtasks' = PCPtasks /\ jobs' = jobs /\ plp' = plp /\ dummy'.status = "EXEC"
    BY <2>1 DEF PCPDispatchesDummy, tasks, TypeOK, DummyType
  <2>3. h2 + a2 + b2 + c2 + e2 + f2 <= h + a + b + c + e + f
    BY <1>5, <1>6, <1>9, <1>10, <1>14, <2>1, <2>2
  <2>4. h2 + a2 + b2 + c2 + e2 + f2 <= 1
    BY <1>3, <1>5, <1>6, <1>7, <1>14, <2>2, <2>3
  <2>5. QED  BY <1>13, <2>2, <2>4
<1>19. CASE PCPFreesDummy
  <2>1. /\ running' = running /\ jobs' = jobs /\ plp' = plp
        /\ PCPTakes("FREE_DUMMY") /\ PCPtasks' = Tail(PCPtasks) /\ ~PCPLoadsDummy
    BY <1>19 DEF PCPFreesDummy, PCPLoadsDummy, PCPTakes, outside
  <2>2. f2 = f - 1 /\ f2 \in Nat /\ a2 = a
    <3>1. OnlyOthers("LOAD_DUMMY") /\ "FREE_DUMMY" \in PCPKinds
      BY <2>1 DEF OnlyOthers, PCPTakes, PCPKinds
    <3>2. F' = F - 1 /\ F' \in Nat
      BY <1>1, <2>1, <3>1, TakesOne
    <3>3. QED  BY <1>3, <1>12, <3>1, <3>2
  <2>3. h2 + a2 + b2 + c2 + e2 + f2 = 0
    BY <1>5, <1>6, <1>7, <1>9, <1>14, <2>1, <2>2
  <2>4. QED  BY <1>13, <2>3
<1>20. CASE \E d \in CPUs : CPURunsDummy(d)
  <2>1. PICK d \in CPUs : CPURunsDummy(d)
    BY <1>20
  <2>2. PCPtasks' = PCPtasks /\ plp' = plp /\ dummyIn' = dummyIn /\ dummy' = dummy
    BY <2>1 DEF CPURunsDummy, CPUSends, tasks, threads, dummies
  <2>3. h2 + a2 + b2 + c2 + e2 + f2 <= h + a + b + c + e + f
    BY <1>5, <1>6, <1>10, <1>11, <1>14, <2>1, <2>2
  <2>4. QED  BY <1>5, <1>6, <1>7, <1>13, <1>14, <2>2, <2>3
<1>21. CASE \E j \in jobs : Posts(j, "FREE_DUMMY") /\ Handler(j)
  <2>1. PICK j \in jobs : Posts(j, "FREE_DUMMY") /\ Handler(j)
    BY <1>21
  <2>2. /\ plp' = plp /\ dummyIn' = dummyIn /\ dummy' = dummy /\ running' = running
        /\ AddPCPTask("FREE_DUMMY")
    BY <2>1 DEF Posts, Handler, Comms_CPU_DummyAtDAM, threads, dummies
  <2>3. f2 = f + 1 /\ a2 = a
    <3>1. OnlyOthers("LOAD_DUMMY") /\ "FREE_DUMMY" \in PCPKinds
      BY <2>2 DEF OnlyOthers, AddPCPTask, PCPKinds
    <3>2. F' = F + 1
      BY <1>1, <2>2, <3>1, PostsOne
    <3>3. QED  BY <1>3, <1>12, <3>1, <3>2
  <2>4. h2 + a2 + b2 + c2 + e2 + f2 = h + a + b + c + e + f
    BY <1>5, <1>6, <1>11, <1>14, <2>1, <2>2, <2>3
  <2>5. QED  BY <1>7, <1>13, <2>2, <2>4
<1>22. CASE /\ ~PLPTakesDummy /\ ~PLPAdmits /\ ~PCPLoadsDummy /\ ~PCPFreesDummy
            /\ \A d \in IdleCPUs : ~PCPDispatchesDummy(d)
            /\ \A d \in CPUs : ~CPURunsDummy(d)
            /\ \A j \in jobs : ~Posts(j, "FREE_DUMMY")
  <2>1. OnlyOthers("LOAD_DUMMY") /\ OnlyOthers("FREE_DUMMY")
    <3>1. "LOAD_DUMMY" \in PCPKinds /\ "FREE_DUMMY" \in PCPKinds
      BY DEF PCPKinds
    <3>2. ~About("LOAD_DUMMY") /\ ~About("FREE_DUMMY")
      BY <1>22 DEF About, Posts, Takes
    <3>3. QED  BY <3>1, <3>2, AboutTasks
  <2>2. h2 + a2 + b2 + c2 + e2 + f2 <= h + a + b + c + e + f
    BY <1>5, <1>6, <1>8, <1>9, <1>10, <1>11, <1>12, <1>22, <2>1
  <2>3. a2 \in Nat /\ f2 \in Nat
    BY <1>6, <1>12, <2>1
  <2>4. QED  BY <1>5, <1>6, <1>7, <1>8, <1>13, <1>22, <2>2, <2>3
<1>23. \A j \in jobs : Posts(j, "FREE_DUMMY") => Handler(j)
  BY DEF Posts, ConsoleJob, CommandEjecutarPosts, CommandFinalizarTakesCPU, CommandFinalizarFails,
         CommandFinalizarPosts, Comms_CPU_DummyAtDAM
<1>24. QED
  BY <1>15, <1>16, <1>17, <1>18, <1>19, <1>20, <1>21, <1>22, <1>23

\* Nothing is loaded at the start.
LEMMA LoadsInit == Init => LoadsInv
<1> SUFFICES ASSUME Init PROVE LoadsInv
  OBVIOUS
<1>1. /\ jobs = {} /\ OnDummy = {} /\ ToldDummy = {} /\ PCPtasks = <<>> /\ Handed = 0
      /\ dummyIn["READY"] = 0
  BY DEF Init, OnDummy, ToldDummy, NotRunning, Handed, Waiting, DummyLists
<1>2. Cardinality({}) = 0 /\ IsFiniteSet({}) /\ Pending(<<>>, "LOAD_DUMMY") = 0 /\ Pending(<<>>, "FREE_DUMMY") = 0
  BY FS_EmptySet, PendingNone
<1>3. DummyLoads = 0
  BY <1>1, <1>2, DummyLoadsIs
<1>4. QED  BY <1>1, <1>2, <1>3 DEF LoadsInv, DummyLoadsOne

\* With what the proofs above need.
SchedulerInv == TypeOK /\ OnePlace /\ Fresh /\ LoadsInv

\* The initial state has all of it,
LEMMA SchedulerInvInit == Init => SchedulerInv
  BY TypeInit, PlaceInit, FreshInit, LoadsInit DEF SchedulerInv

\* and every step keeps it.
LEMMA SchedulerInvNext ==
  ASSUME ~Overtaking, SchedulerInv, [Next]_vars
  PROVE  SchedulerInv'
  BY TypeNext, PlaceNext, FreshNext, LoadsNext DEF SchedulerInv

\* The one DTB that serves as the dummy carries one load at most: from the moment the
\* PLP takes it to the answer of the CPU no second load begins (Scheduling.c,
\* schedule and PCP_task's LoadDummy and FreeDummy).
THEOREM LoadsInvariant == ASSUME ~Overtaking PROVE Spec => []DummyLoadsOne
<1>1. SchedulerInv /\ [Next]_vars => SchedulerInv'
  BY SchedulerInvNext
<1>2. SchedulerInv => DummyLoadsOne
  BY DEF SchedulerInv, LoadsInv
<1>3. QED  BY SchedulerInvInit, <1>1, <1>2, PTL DEF Spec

\* The PLP has work whenever it could admit.
LEMMA AdmissionNext ==
  ASSUME SchedulerInv, NoLostAdmission, [Next]_vars
  PROVE  NoLostAdmission'
<1>1. TypeOK /\ Fresh /\ PLPtasks \in Seq({"NORMAL", "CREATE", "INITIALIZE"})
  BY DEF SchedulerInv, TypeOK, TasksType
<1>2. \A t \in {"NORMAL", "CREATE", "INITIALIZE"} :
         /\ Append(PLPtasks, t) # <<>>
         /\ PLPtasks # <<>> => Append(Tail(PLPtasks), t) # <<>>
  BY <1>1
<1> DEFINE Looks == PLPtasks # <<>> \/ pcp.at \in {"freeDummy", "exit"}
<1>3. CASE ~CanAdmit' \/ Looks'
  BY <1>3 DEF NoLostAdmission
<1>4. CASE UNCHANGED <<PLPtasks, counters, NEWqueue, dummy, pcp>>
  BY <1>4 DEF NoLostAdmission, CanAdmit, MemoryAvailable, DummyAvailable, counters
<1>5. CASE PLP
  <2>1. CASE PLPCannotSchedule
    BY <2>1, <1>3 DEF PLPCannotSchedule, CanAdmit, MemoryAvailable, DummyAvailable, counters, lists, dummies
  <2>2. CASE PLPTakesDummy
    BY <1>1, <1>3, <2>2 DEF PLPTakesDummy, CanAdmit, DummyAvailable, TypeOK, DummyType
  <2>3. CASE PLPAdmits
    <3>1. Handed = 1
      BY <2>3 DEF PLPAdmits, Handed
    <3>2. dummy.status # "BLOCKED"
      <4>1. /\ Pending(PCPtasks, "LOAD_DUMMY") \in Nat /\ Pending(PCPtasks, "FREE_DUMMY") \in Nat
        <5>1. PCPtasks \in Seq(PCPKinds) /\ "NORMAL" \in PCPKinds
          BY <1>1 DEF TypeOK, TasksType, PCPKinds
        <5>2. QED  BY <5>1, PendingAppend
      <4>2. Cardinality(OnDummy) \in Nat /\ Cardinality(ToldDummy) \in Nat /\ dummyIn["READY"] \in Nat
        BY <1>1, RunNext, ToldNext, ReadyNext DEF SchedulerInv, LoadsInv
      <4>3. DummyLoads > 0
        BY <3>1, <4>1, <4>2, DummyLoadsIs
      <4>4. QED  BY <4>3 DEF SchedulerInv, LoadsInv, DummyLoadsOne
    <3>3. dummy'.status = dummy.status
      BY <1>1, <2>3 DEF PLPAdmits, TypeOK, DummyType
    <3>4. QED  BY <1>3, <3>2, <3>3 DEF CanAdmit, DummyAvailable
  <2>4. CASE PLPCreates \/ PLPInitializes
    <3>1. PLPtasks' # <<>>
      BY <1>2, <2>4 DEF PLPCreates, PLPInitializes, PLPTakes
    <3>2. QED  BY <1>3, <3>1
  <2>5. CASE PLPInitializeFails
    BY <1>4, <2>5 DEF PLPInitializeFails, tasks, lists, dummies, threads
  <2>6. QED  BY <1>5, <2>1, <2>2, <2>3, <2>4, <2>5 DEF PLP
<1>6. CASE PCP
  <2>1. CASE PCPFreedDummy \/ PCPEnded
    <3>1. NEWqueue' # <<>> => PLPtasks' # <<>>
      BY <1>2, <2>1 DEF PCPFreedDummy, PCPEnded, PLPNeeded, AddPLPTask, lists
    <3>2. QED  BY <1>3, <3>1 DEF CanAdmit
  <2>2. CASE PCPFreesDummy \/ PCPEnds
    <3>1. pcp'.at \in {"freeDummy", "exit"}
      BY <1>1, <2>2 DEF PCPFreesDummy, PCPEnds, TypeOK, ThreadsType, Thread
    <3>2. QED  BY <1>3, <3>1
  <2>3. CASE PCPDispatches
    <3>1. /\ PLPtasks' = PLPtasks /\ UNCHANGED <<counters, NEWqueue>> /\ pcp.at = "dispatch"
          /\ dummy'.status = "EXEC" \/ dummy' = dummy
      BY <1>1, <2>3 DEF PCPDispatches, PCPDispatchesDTB, PCPDispatchesDummy, tasks, lists, dummies,
                        TypeOK, DummyType
    <3>2. QED  BY <1>3, <3>1 DEF NoLostAdmission, CanAdmit, MemoryAvailable, DummyAvailable, counters
  <2>4. CASE PCPLoadsDummy
    <3>1. dummy'.status = "READY"
      BY <1>1, <2>4 DEF PCPLoadsDummy, TypeOK, DummyType
    <3>2. QED  BY <1>3, <3>1 DEF CanAdmit, DummyAvailable
  <2>5. CASE PCPCanSchedule
    <3>1. /\ UNCHANGED <<PLPtasks, counters, NEWqueue, dummy>> /\ pcp.at = "wait"
      BY <2>5 DEF PCPCanSchedule, PCPTakes, lists, dummies
    <3>2. QED  BY <1>3, <3>1 DEF NoLostAdmission, CanAdmit, MemoryAvailable, DummyAvailable, counters
  <2>6. CASE PCPBlocks
    <3>1. UNCHANGED <<PLPtasks, counters, NEWqueue, dummy, pcp>>
      BY <1>1, <2>6, BlocksNoDummy DEF PCPBlocks, threads, dummies
    <3>2. QED  BY <1>4, <3>1
  <2>7. QED
    BY <1>4, <1>6, <2>1, <2>2, <2>3, <2>4, <2>5, <2>6
    DEF PCP, PCPCannotSchedule, PCPDispatchFails, PCPBlockFails, PCPUnlocks, PCPUnlockFails,
        PCPEndFails, tasks, lists, dummies, threads
<1>7. ASSUME UNCHANGED <<lists, counters, threads, dummies>>,
             PLPtasks' = PLPtasks \/ \E t \in {"INITIALIZE", "CREATE"} : PLPtasks' = Append(PLPtasks, t)
      PROVE  NoLostAdmission'
  BY <1>2, <1>3, <1>4, <1>7 DEF lists, threads, dummies
<1>8. CASE \E j \in jobs : Handler(j)
  BY <1>7, <1>8
  DEF Handler, Comms_DAM_DummyFinished, Comms_DAM_OperationFinished, Comms_DAM_IOError,
      Comms_CPU_ErrorOrEOF, Comms_CPU_DummyAtDAM, Comms_CPU_DTBAtDAM, Comms_CPU_OutOfQuantum,
      AddPLPTask
<1>9. CASE Console \/ \E j \in jobs : ConsoleJob(j)
  BY <1>7, <1>9
  DEF Console, CommandEjecutar, CommandFinalizar, ConsoleJob, CommandEjecutarPosts,
      CommandFinalizarTakesCPU, CommandFinalizarFails, CommandFinalizarPosts, AddPLPTask, tasks
<1>10. CASE \E c \in CPUs : CPUSpeaks(c) \/ CPUConnects(c) \/ CPUDisconnects(c)
  BY <1>7, <1>10
  DEF CPUSpeaks, CPURunsDummy, CPURequestsIO, CPUEndsQuantum, CPUEndsDTB, CPUSends,
      CPUConnects, CPUDisconnects, tasks
<1>11. CASE \E r \in dam : DAMAnswers(r)
  BY <1>7, <1>11 DEF DAMAnswers, tasks
<1>12. CASE UNCHANGED vars
  BY <1>4, <1>12 DEF vars, tasks, lists, dummies, threads
<1>13. QED  BY <1>5, <1>6, <1>8, <1>9, <1>10, <1>11, <1>12 DEF Next

\* There is no DTB to admit at the start.
LEMMA AdmissionInit == Init => NoLostAdmission
  BY DEF Init, NoLostAdmission, CanAdmit

\* No admission is lost: whenever the PLP could admit, it has a task or the PCP is
\* about to post it one (Scheduling.c, AddPLPTask and its callers).
THEOREM AdmissionInvariant == ASSUME ~Overtaking PROVE Spec => []NoLostAdmission
<1>1. SchedulerInv /\ NoLostAdmission /\ [Next]_vars => SchedulerInv' /\ NoLostAdmission'
  BY SchedulerInvNext, AdmissionNext
<1>2. QED  BY SchedulerInvInit, AdmissionInit, <1>1, PTL DEF Spec

-----------------------------------------------------------------------------
\* Each burst has its number, each load its DTB.

\* Each burst of a DTB has a number of its own, less than those of the bursts
\* before it; a load has none.
NumbersDAM ==
    \A r \in dam : /\ r.op = "io" => r.n > bursts[r.id]
                   /\ r.op = "load" => r.n = 0
NumbersJobs ==
    \A j \in jobs : /\ j.msg \in {"BLOCKDTB", "EOQUANTUM", "IODONE"} => j.n > bursts[j.id]
                    /\ j.msg = "IOERROR" => j.n = 0 \/ (j.id \in DTBs /\ j.n > bursts[j.id])
                    /\ j.msg = "DUMMY" => j.n = 0
                    /\ j.msg = "FINALIZAR" => j.n > finalizars
                    /\ j.msg = "EJECUTAR" => j.id < nextID + scripts /\ j.at = "post"
Numbers == NumbersDAM /\ NumbersJobs

\* The numbers left are never more than they were.
Fewer ==
    /\ \A d \in DTBs : bursts'[d] <= bursts[d]
    /\ finalizars' <= finalizars
    /\ nextID' + scripts' >= nextID + scripts

\* No step gives a number back.
LEMMA FewerNext == ASSUME TypeOK, [Next]_vars PROVE Fewer
<1>1. /\ bursts \in [DTBs -> 0..MaxBursts] /\ finalizars \in Int /\ nextID \in Int /\ scripts \in Int
      /\ MaxBursts \in Nat
  BY SchedulingAssumption DEF TypeOK, OutsideType, CountersType, DataType, SchedulingAssumption
<1>2. CASE UNCHANGED <<bursts, finalizars, nextID, scripts>>
  BY <1>1, <1>2 DEF Fewer
<1>3. CASE UNCHANGED vars
  BY <1>2, <1>3 DEF vars, outside, data, counters
<1>4. CASE PLP
  <2>1. CASE PLPCreates
    BY <1>1, <2>1 DEF PLPCreates, Fewer, outside
  <2>2. CASE ~PLPCreates
    BY <1>2, <1>4, <2>2 DEF PLP, PLPCannotSchedule, PLPTakesDummy, PLPAdmits, PLPInitializes,
                            PLPInitializeFails, outside, data, counters
  <2>3. QED  BY <2>1, <2>2
<1>5. CASE PCP
  BY <1>2, <1>5
  DEF PCP, PCPDispatches, PCPDispatchesDTB, PCPDispatchesDummy, PCPCannotSchedule, PCPCanSchedule,
      PCPDispatchFails, PCPLoadsDummy, PCPFreesDummy, PCPFreedDummy, PCPBlocks, PCPBlockFails,
      PCPUnlocks, PCPUnlockFails, PCPEnds, PCPEnded, PCPEndFails, outside, data, counters
<1>6. CASE Console
  BY <1>1, <1>6 DEF Console, CommandEjecutar, CommandFinalizar, Fewer, counters
<1>7. CASE \E j \in jobs : Handler(j)
  BY <1>2, <1>7 DEF Handler, counters
<1>8. CASE \E j \in jobs : ConsoleJob(j)
  BY <1>2, <1>8
  DEF ConsoleJob, CommandEjecutarPosts, CommandFinalizarTakesCPU, CommandFinalizarFails,
      CommandFinalizarPosts, outside, data, counters
<1>9. CASE \E c \in CPUs : CPUSpeaks(c) \/ CPUConnects(c) \/ CPUDisconnects(c)
  <2>1. PICK c \in CPUs : CPUSpeaks(c) \/ CPUConnects(c) \/ CPUDisconnects(c)
    BY <1>9
  <2>2. CASE CPURunsDummy(c) \/ CPUEndsDTB(c) \/ CPUConnects(c) \/ CPUDisconnects(c)
    BY <1>2, <2>2 DEF CPURunsDummy, CPUEndsDTB, CPUSends, CPUConnects, CPUDisconnects, outside,
                      data, counters
  <2>3. CASE CPURequestsIO(c) \/ CPUEndsQuantum(c)
    <3>1. /\ bursts' = [bursts EXCEPT ![running[c].id] = bursts[running[c].id] - 1]
          /\ UNCHANGED <<finalizars, nextID, scripts>>
      BY <2>3 DEF CPURequestsIO, CPUEndsQuantum, CPUSends, data, counters
    <3>2. QED  BY <1>1, <3>1 DEF Fewer
  <2>4. QED  BY <2>1, <2>2, <2>3 DEF CPUSpeaks
<1>10. CASE \E r \in dam : DAMAnswers(r)
  BY <1>2, <1>10 DEF DAMAnswers, data, counters
<1>11. QED  BY <1>3, <1>4, <1>5, <1>6, <1>7, <1>8, <1>9, <1>10 DEF Next

\* An old number stays a greater one.
LEMMA NumbersFrame ==
  ASSUME TypeOK, Fresh, Numbers, Fewer, bursts' \in [DTBs -> 0..MaxBursts],
         nextID' \in Int, scripts' \in Int, finalizars' \in Int
  PROVE  /\ \A r \in dam : /\ r.op = "io" => r.n > bursts'[r.id]
                           /\ r.op = "load" => r.n = 0
         /\ \A j \in jobs :
              /\ j.msg \in {"BLOCKDTB", "EOQUANTUM", "IODONE"} => j.n > bursts'[j.id]
              /\ j.msg = "IOERROR" => j.n = 0 \/ (j.id \in DTBs /\ j.n > bursts'[j.id])
              /\ j.msg = "DUMMY" => j.n = 0
              /\ j.msg = "FINALIZAR" => j.n > finalizars'
              /\ j.msg = "EJECUTAR" => j.id < nextID' + scripts' /\ j.at = "post"
<1>1. /\ bursts \in [DTBs -> 0..MaxBursts] /\ finalizars \in Int /\ nextID \in Int /\ scripts \in Int
      /\ MaxBursts \in Nat /\ jobs \subseteq Jobs /\ dam \subseteq [op : {"load", "io"}, id : Ids, n : Nat]
  BY SchedulingAssumption DEF TypeOK, OutsideType, CountersType, DataType, SchedulingAssumption
<1>2. Begun \subseteq DTBs
  BY DEF Begun, TypeOK, ListsType
<1>3. \A d \in DTBs : bursts[d] \in Int /\ bursts'[d] \in Int /\ bursts'[d] <= bursts[d]
  BY <1>1 DEF Fewer
<1>4. ASSUME NEW r \in dam
      PROVE  /\ r.op = "io" => r.n > bursts'[r.id]
             /\ r.op = "load" => r.n = 0
  <2>1. r.op = "io" => r.id \in DTBs
    BY <1>2 DEF Fresh, FreshDAM
  <2>2. r.n \in Nat
    BY <1>1
  <2>3. QED  BY <1>3, <2>1, <2>2 DEF Numbers, NumbersDAM
<1>5. ASSUME NEW j \in jobs
      PROVE  /\ j.msg \in {"BLOCKDTB", "EOQUANTUM", "IODONE"} => j.n > bursts'[j.id]
             /\ j.msg = "IOERROR" => j.n = 0 \/ (j.id \in DTBs /\ j.n > bursts'[j.id])
             /\ j.msg = "DUMMY" => j.n = 0
             /\ j.msg = "FINALIZAR" => j.n > finalizars'
             /\ j.msg = "EJECUTAR" => j.id < nextID' + scripts' /\ j.at = "post"
  <2>1. j.msg \in {"BLOCKDTB", "EOQUANTUM", "IODONE"} => j.id \in DTBs
    BY <1>2 DEF Fresh, FreshJobs, Executed
  <2>2. j.n \in Nat /\ j.id \in Int
    <3>1. j \in Jobs
      BY <1>1
    <3>2. j.n \in Nat /\ j.id \in Ids
      BY <3>1 DEF Jobs
    <3>3. j.id \in Nat
      BY <3>2, IdRange
    <3>4. QED  BY <3>2, <3>3
  <2>3. j.msg \in {"BLOCKDTB", "EOQUANTUM", "IODONE"} => j.n > bursts'[j.id]
    BY <1>3, <2>1, <2>2 DEF Numbers, NumbersJobs
  <2>4. j.msg = "IOERROR" => j.n = 0 \/ (j.id \in DTBs /\ j.n > bursts'[j.id])
    BY <1>3, <2>2 DEF Numbers, NumbersJobs
  <2>5. j.msg = "FINALIZAR" => j.n > finalizars'
    BY <1>1, <2>2 DEF Numbers, NumbersJobs, Fewer
  <2>6. j.msg = "EJECUTAR" => j.id < nextID' + scripts' /\ j.at = "post"
    <3> HAVE j.msg = "EJECUTAR"
    <3>1. j.id < nextID + scripts /\ j.at = "post"
      BY DEF Numbers, NumbersJobs
    <3>2. nextID' + scripts' >= nextID + scripts
      BY DEF Fewer
    <3>3. PICK a, b : a = nextID + scripts /\ b = nextID' + scripts'
      OBVIOUS
    <3>4. a \in Int /\ b \in Int
      <4>1. nextID \in Int /\ scripts \in Int /\ nextID' \in Int /\ scripts' \in Int
        BY <1>1
      <4>2. QED  BY <3>3, <4>1
    <3>5. a <= b /\ j.id < a
      BY <3>1, <3>2, <3>3, Zenon
    <3>6. j.id < b
      BY <2>2, <3>4, <3>5
    <3>7. QED  BY <3>1, <3>3, <3>6, Zenon
  <2>7. QED  BY <2>3, <2>4, <2>5, <2>6 DEF Numbers, NumbersJobs
<1>6. QED  BY <1>4, <1>5

\* What the messages and the DAM gain in a step.
LEMMA NumbersNext ==
  ASSUME TypeOK, TypeOK', Fresh, Numbers, [Next]_vars
  PROVE  Numbers'
<1>1. /\ bursts' \in [DTBs -> 0..MaxBursts] /\ nextID' \in Int /\ scripts' \in Int /\ finalizars' \in Int
  BY SchedulingAssumption DEF TypeOK, OutsideType, CountersType, DataType, SchedulingAssumption
<1>2. Fewer
  BY FewerNext
<1>3. /\ \A r \in dam : /\ r.op = "io" => r.n > bursts'[r.id]
                        /\ r.op = "load" => r.n = 0
      /\ \A j \in jobs :
           /\ j.msg \in {"BLOCKDTB", "EOQUANTUM", "IODONE"} => j.n > bursts'[j.id]
           /\ j.msg = "IOERROR" => j.n = 0 \/ (j.id \in DTBs /\ j.n > bursts'[j.id])
           /\ j.msg = "DUMMY" => j.n = 0
           /\ j.msg = "FINALIZAR" => j.n > finalizars'
           /\ j.msg = "EJECUTAR" => j.id < nextID' + scripts' /\ j.at = "post"
  BY <1>1, <1>2, NumbersFrame
<1>4. dam' \subseteq dam => NumbersDAM'
  BY <1>3 DEF NumbersDAM
<1>5. jobs' \subseteq jobs => NumbersJobs'
  BY <1>3 DEF NumbersJobs
<1>6. CASE dam' \subseteq dam /\ jobs' \subseteq jobs
  BY <1>4, <1>5, <1>6 DEF Numbers
<1>7. ASSUME NEW j \in jobs, Handler(j)
      PROVE  Numbers'
  <2>1. dam' = dam /\ (Pushed(j) \/ Finished(j)) /\ j.msg # "EJECUTAR"
    BY <1>7
    DEF Handler, Comms_DAM_DummyFinished, Comms_DAM_OperationFinished, Comms_DAM_IOError,
        Comms_CPU_ErrorOrEOF, Comms_CPU_DummyAtDAM, Comms_CPU_DTBAtDAM, Comms_CPU_OutOfQuantum
  <2>2. PICK k : k = [j EXCEPT !.at = "post"]
    OBVIOUS
  <2>3. k.msg = j.msg /\ k.id = j.id /\ k.n = j.n
    BY <2>2 DEF TypeOK, OutsideType, Jobs
  <2>4. jobs' \subseteq jobs \cup {k}
    BY <2>1, <2>2 DEF Pushed, Finished
  <2>5. NumbersJobs'
    BY <1>3, <2>1, <2>3, <2>4 DEF NumbersJobs
  <2>6. QED  BY <1>4, <2>1, <2>5 DEF Numbers
<1>8. CASE Console
  <2>1. dam' = dam
    BY <1>8 DEF Console, CommandEjecutar, CommandFinalizar
  <2>2. CASE CommandEjecutar
    <3>1. /\ jobs' = jobs \cup {[msg |-> "EJECUTAR", id |-> nextID + scripts, cpu |-> NoCPU, n |-> 0, at |-> "post"]}
          /\ scripts' = scripts + 1 /\ nextID' = nextID /\ scripts \in Int /\ nextID \in Int
      BY <2>2 DEF CommandEjecutar, counters, TypeOK, DataType, CountersType
    <3>2. NumbersJobs'
      BY <1>3, <3>1 DEF NumbersJobs
    <3>3. QED  BY <1>4, <2>1, <3>2 DEF Numbers
  <2>3. CASE \E id \in 0..MaxDTB : CommandFinalizar(id)
    <3>1. PICK id \in 0..MaxDTB : CommandFinalizar(id)
      BY <2>3
    <3>2. /\ jobs' = jobs \cup {[msg |-> "FINALIZAR", id |-> id, cpu |-> NoCPU, n |-> finalizars, at |-> "start"]}
          /\ finalizars' = finalizars - 1 /\ finalizars \in Int
      BY <3>1, SchedulingAssumption DEF CommandFinalizar, TypeOK, OutsideType, SchedulingAssumption
    <3>3. NumbersJobs'
      BY <1>3, <3>2 DEF NumbersJobs
    <3>4. QED  BY <1>4, <2>1, <3>3 DEF Numbers
  <2>4. QED  BY <1>8, <2>2, <2>3 DEF Console
<1>9. ASSUME NEW j \in jobs, ConsoleJob(j)
      PROVE  Numbers'
  <2>1. dam' = dam
    BY <1>9 DEF ConsoleJob, CommandEjecutarPosts, CommandFinalizarTakesCPU, CommandFinalizarFails,
                CommandFinalizarPosts, outside
  <2>2. CASE CommandFinalizarTakesCPU(j)
    <3>1. PICK c \in IdleCPUs : jobs' = (jobs \ {j}) \cup {[j EXCEPT !.at = "post", !.cpu = c]}
      BY <2>2 DEF CommandFinalizarTakesCPU
    <3>2. PICK k : k = [j EXCEPT !.at = "post", !.cpu = c]
      OBVIOUS
    <3>3. k.msg = "FINALIZAR" /\ k.n = j.n /\ j.msg = "FINALIZAR"
      BY <2>2, <3>2 DEF CommandFinalizarTakesCPU, TypeOK, OutsideType, Jobs
    <3>4. NumbersJobs'
      BY <1>3, <3>1, <3>2, <3>3 DEF NumbersJobs
    <3>5. QED  BY <1>4, <2>1, <3>4 DEF Numbers
  <2>3. CASE ~CommandFinalizarTakesCPU(j)
    <3>1. jobs' \subseteq jobs
      BY <1>9, <2>3 DEF ConsoleJob, CommandEjecutarPosts, CommandFinalizarFails,
                        CommandFinalizarPosts, Finished, outside
    <3>2. QED  BY <1>6, <2>1, <3>1
  <2>4. QED  BY <2>2, <2>3
<1>10. ASSUME NEW c \in CPUs, CPUSpeaks(c)
       PROVE  Numbers'
  <2> DEFINE d == running[c].id
  <2>1. running[c].kind = "dtb" => d \in DTBs
    BY DEF TypeOK, OutsideType
  <2>2. bursts \in [DTBs -> 0..MaxBursts] /\ MaxBursts \in Nat
    BY SchedulingAssumption DEF TypeOK, OutsideType, SchedulingAssumption
  <2>3. ASSUME NEW m, NEW n, CPUSends(c, m, n), m \in {"BLOCKDTB", "EOQUANTUM"} => n > bursts'[d],
               m \in {"BLOCKDTB", "EOQUANTUM", "EOFORABORT", "BLOCKDUMMY"}
        PROVE  NumbersJobs'
    <3>1. jobs' \subseteq jobs \cup {Message(m, d, c, n)}
      BY <2>3 DEF CPUSends
    <3>2. QED  BY <1>3, <2>3, <3>1 DEF NumbersJobs, Message
  <2>4. CASE CPURunsDummy(c)
    <3>1. dam' = dam \cup {[op |-> "load", id |-> d, n |-> 0]} /\ CPUSends(c, "BLOCKDUMMY", 0)
      BY <2>4 DEF CPURunsDummy
    <3>2. NumbersDAM'
      BY <1>3, <3>1 DEF NumbersDAM
    <3>3. QED  BY <2>3, <3>1, <3>2 DEF Numbers
  <2>5. CASE CPURequestsIO(c)
    <3>1. /\ dam' = dam \cup {[op |-> "io", id |-> d, n |-> bursts[d]]} /\ CPUSends(c, "BLOCKDTB", bursts[d])
          /\ d \in DTBs /\ bursts' = [bursts EXCEPT ![d] = bursts[d] - 1]
      BY <2>1, <2>5 DEF CPURequestsIO
    <3>2. bursts[d] > bursts'[d]
      BY <2>2, <3>1
    <3>3. NumbersDAM'
      BY <1>3, <3>1, <3>2 DEF NumbersDAM
    <3>4. QED  BY <2>3, <3>1, <3>2, <3>3 DEF Numbers
  <2>6. CASE CPUEndsQuantum(c)
    <3>1. /\ dam' = dam /\ CPUSends(c, "EOQUANTUM", bursts[d])
          /\ d \in DTBs /\ bursts' = [bursts EXCEPT ![d] = bursts[d] - 1]
      BY <2>1, <2>6 DEF CPUEndsQuantum
    <3>2. bursts[d] > bursts'[d]
      BY <2>2, <3>1
    <3>3. QED  BY <1>4, <2>3, <3>1, <3>2 DEF Numbers
  <2>7. CASE CPUEndsDTB(c)
    <3>1. dam' = dam /\ CPUSends(c, "EOFORABORT", bursts[d])
      BY <2>7 DEF CPUEndsDTB
    <3>2. QED  BY <1>4, <2>3, <3>1 DEF Numbers
  <2>8. QED  BY <1>10, <2>4, <2>5, <2>6, <2>7 DEF CPUSpeaks
<1>11. ASSUME NEW r \in dam, DAMAnswers(r)
       PROVE  Numbers'
  <2>1. PICK m \in {IF r.op = "load" THEN "DUMMY" ELSE "IODONE", "IOERROR"} :
           jobs' = jobs \cup {Message(m, r.id, NoCPU, r.n)}
    BY <1>11 DEF DAMAnswers
  <2>2. PICK k : k = Message(m, r.id, NoCPU, r.n)
    OBVIOUS
  <2>3. k.msg = m /\ k.id = r.id /\ k.n = r.n
    BY <2>2 DEF Message
  <2>4. r.op \in {"load", "io"} /\ (r.op = "io" => r.id \in DTBs)
    BY DEF TypeOK, OutsideType, Fresh, FreshDAM, Begun, ListsType
  <2>5. NumbersJobs'
    BY <1>3, <2>1, <2>2, <2>3, <2>4 DEF NumbersJobs
  <2>6. dam' \subseteq dam
    BY <1>11 DEF DAMAnswers
  <2>7. QED  BY <1>4, <2>5, <2>6 DEF Numbers
<1>12. CASE PLP \/ PCP \/ (\E c \in CPUs : CPUConnects(c) \/ CPUDisconnects(c)) \/ UNCHANGED vars
  <2>1. dam' = dam /\ jobs' = jobs
    BY <1>12
    DEF PLP, PLPCannotSchedule, PLPTakesDummy, PLPAdmits, PLPCreates, PLPInitializes,
        PLPInitializeFails, PCP, PCPDispatches, PCPDispatchesDTB, PCPDispatchesDummy,
        PCPCannotSchedule, PCPCanSchedule, PCPDispatchFails, PCPLoadsDummy, PCPFreesDummy,
        PCPFreedDummy, PCPBlocks, PCPBlockFails, PCPUnlocks, PCPUnlockFails, PCPEnds, PCPEnded,
        PCPEndFails, CPUConnects, CPUDisconnects, outside, vars
  <2>2. QED  BY <1>6, <2>1
<1>13. QED  BY <1>7, <1>8, <1>9, <1>10, <1>11, <1>12 DEF Next

\* The dummy carries the id of the DTB it loads from the moment its load is asked
\* for until its CPU has run it.
LoadIds ==
    /\ Pending(PCPtasks, "LOAD_DUMMY") > 0 \/ dummyIn["READY"] > 0 => dummy.id # 0
    /\ \A c \in OnDummy : running[c].id = dummy.id /\ dummy.id # 0

\* Nothing is counted where there is nothing.
LEMMA CountZero ==
  ASSUME NEW S, IsFiniteSet(S), Cardinality(S) = 0
  PROVE  S = {}
  BY FS_EmptySet

\* The places of a load after a step.
LEMMA LoadsAfter ==
  ASSUME TypeOK, Fresh, LoadsInv, LoadsInv', [Next]_vars
  PROVE  /\ Pending(PCPtasks, "LOAD_DUMMY") \in Nat /\ Pending(PCPtasks, "LOAD_DUMMY")' \in Nat
         /\ Pending(PCPtasks, "LOAD_DUMMY")' > 0 => dummyIn'["READY"] = 0 /\ OnDummy' = {}
         /\ dummy'.status = "BLOCKED" =>
              Pending(PCPtasks, "LOAD_DUMMY")' = 0 /\ dummyIn'["READY"] = 0 /\ OnDummy' = {}
<1> DEFINE A == Pending(PCPtasks, "LOAD_DUMMY")
           F == Pending(PCPtasks, "FREE_DUMMY")
<1>1. IsFiniteSet(jobs) /\ IsFiniteSet(OnDummy) /\ IsFiniteSet(OnDummy') /\ TypeOK'
  BY TypeNext DEF LoadsInv
<1>2. A \in Nat /\ A' \in Nat /\ F' \in Nat
  <2>1. PCPtasks \in Seq(PCPKinds) /\ PCPtasks' \in Seq(PCPKinds) /\ "NORMAL" \in PCPKinds
    BY <1>1 DEF TypeOK, TasksType, PCPKinds
  <2>2. A' = Pending(PCPtasks', "LOAD_DUMMY") /\ F' = Pending(PCPtasks', "FREE_DUMMY")
    BY DEF Pending
  <2>3. QED  BY <2>1, <2>2, PendingAppend
<1>3. PICK h2, a2, b2, c2, e2, f2 :
        /\ h2 = Handed' /\ a2 = A' /\ b2 = dummyIn'["READY"] /\ c2 = Cardinality(OnDummy')
        /\ e2 = Cardinality(ToldDummy') /\ f2 = F'
  OBVIOUS
<1>4. h2 \in {0, 1} /\ a2 \in Nat /\ b2 \in Nat /\ c2 \in Nat /\ e2 \in Nat /\ f2 \in Nat
  BY <1>1, <1>2, <1>3, ReadyNext, RunNext, ToldNext DEF Handed
<1>5. DummyLoads' = h2 + a2 + b2 + c2 + e2 + f2
  BY <1>3, DummyLoadsIsNext
<1>6. /\ h2 + a2 + b2 + c2 + e2 + f2 <= 1
      /\ dummy'.status = "BLOCKED" => h2 + a2 + b2 + c2 + e2 + f2 = 0
  BY <1>5 DEF LoadsInv, DummyLoadsOne
<1>7. a2 > 0 => b2 = 0 /\ c2 = 0
  BY <1>4, <1>6
<1>8. dummy'.status = "BLOCKED" => a2 = 0 /\ b2 = 0 /\ c2 = 0
  BY <1>4, <1>6
<1>9. c2 = 0 => OnDummy' = {}
  BY <1>1, <1>3, CountZero
<1>10. QED  BY <1>2, <1>3, <1>7, <1>8, <1>9

\* Any other step leaves the load and the dummy's id where they are.
LEMMA LoadStays ==
  ASSUME TypeOK, Fresh, [Next]_vars, ~PLPAdmits, ~PCPFreesDummy, ~PCPLoadsDummy,
         \A c \in IdleCPUs : ~PCPDispatchesDummy(c)
  PROVE  /\ dummy'.id = dummy.id
         /\ \A c \in OnDummy' : c \in OnDummy /\ running'[c].id = running[c].id
         /\ Pending(PCPtasks, "LOAD_DUMMY")' = Pending(PCPtasks, "LOAD_DUMMY")
<1>0. running \in [CPUs -> [kind : {"idle", "dtb", "dummy"}, id : Ids]] /\ IdleCPUs \subseteq CPUs
  BY DEF TypeOK, OutsideType, HolderType, IdleCPUs
<1>1. dummy'.id = dummy.id
  <2>1. CASE UNCHANGED vars
    BY <2>1 DEF vars, dummies
  <2>2. CASE PLP
    BY <2>2 DEF PLP, PLPCannotSchedule, PLPTakesDummy, PLPCreates, PLPInitializes, PLPInitializeFails,
                      dummies, TypeOK, DummyType
  <2>3. CASE PCPEnds
    BY <2>3 DEF PCPEnds, EndsDummy, EndsQueued, EndsLoading, dummies, TypeOK, DummyType
  <2>4. CASE PCP /\ ~PCPEnds
    BY <2>4, BlocksNoDummy
    DEF PCP, PCPDispatches, PCPDispatchesDTB, PCPCannotSchedule, PCPCanSchedule,
        PCPDispatchFails, PCPFreedDummy, PCPBlockFails, PCPUnlocks, PCPUnlockFails, PCPEnded,
        PCPEndFails, dummies
  <2>5. CASE Console \/ \E j \in jobs : Handler(j) \/ ConsoleJob(j)
    BY <2>5
    DEF Console, CommandEjecutar, CommandFinalizar, Handler, ConsoleJob, CommandEjecutarPosts,
        CommandFinalizarTakesCPU, CommandFinalizarFails, CommandFinalizarPosts, dummies
  <2>6. CASE \E c \in CPUs : CPUSpeaks(c) \/ CPUConnects(c) \/ CPUDisconnects(c)
    BY <2>6
    DEF CPUSpeaks, CPURunsDummy, CPURequestsIO, CPUEndsQuantum, CPUEndsDTB, CPUSends,
        CPUConnects, CPUDisconnects, dummies
  <2>7. CASE \E r \in dam : DAMAnswers(r)
    BY <2>7 DEF DAMAnswers, dummies
  <2>8. QED  BY <2>1, <2>2, <2>3, <2>4, <2>5, <2>6, <2>7 DEF Next
<1>2. \A c \in OnDummy' : c \in OnDummy /\ running'[c].id = running[c].id
  <2>1. CASE running' = running
    BY <2>1 DEF OnDummy
  <2>2. CASE \E c \in CPUs : running' = [running EXCEPT ![c] = NotRunning]
    BY <1>0, <2>2 DEF OnDummy, NotRunning
  <2>3. CASE \E c \in CPUs, d \in READY : running' = [running EXCEPT ![c] = [kind |-> "dtb", id |-> d]]
    BY <1>0, <2>3 DEF OnDummy
  <2>4. CASE \E c \in IdleCPUs, d \in READY : PCPDispatchesDTB(c, d)
    BY <1>0, <2>3, <2>4 DEF PCPDispatchesDTB
  <2>5. QED  BY <2>1, <2>2, <2>4, RunningMoves
<1>3. Pending(PCPtasks, "LOAD_DUMMY")' = Pending(PCPtasks, "LOAD_DUMMY")
  <2>1. OnlyOthers("LOAD_DUMMY")
    <3>1. "LOAD_DUMMY" \in PCPKinds /\ ~About("LOAD_DUMMY")
      BY DEF PCPKinds, About, Posts, Takes
    <3>2. QED  BY <3>1, AboutTasks
  <2>2. TasksType
    BY DEF TypeOK
  <2>3. QED  BY <2>1, <2>2, OthersKeep
<1>4. QED  BY <1>1, <1>2, <1>3

\* Every step keeps the loads apart from the DTBs that begun before them.
LEMMA LoadIdsNext ==
  ASSUME TypeOK, OnePlace, Fresh, LoadsInv, LoadsInv', LoadIds, [Next]_vars
  PROVE  LoadIds'
<1> DEFINE A == Pending(PCPtasks, "LOAD_DUMMY")
<1>1. /\ A \in Nat /\ A' \in Nat
      /\ A' > 0 => dummyIn'["READY"] = 0 /\ OnDummy' = {}
      /\ dummy'.status = "BLOCKED" => A' = 0 /\ dummyIn'["READY"] = 0 /\ OnDummy' = {}
  BY LoadsAfter
<1>2. dummyIn["READY"] \in Nat /\ dummyIn'["READY"] \in Nat
      /\ (~PCPLoadsDummy => dummyIn'["READY"] <= dummyIn["READY"])
  BY ReadyNext
<1>3. running \in [CPUs -> [kind : {"idle", "dtb", "dummy"}, id : Ids]] /\ IdleCPUs \subseteq CPUs
  BY DEF TypeOK, OutsideType, HolderType, IdleCPUs
<1> HIDE DEF A
<1>4. CASE PLPAdmits
  <2>1. /\ AddPCPTask("LOAD_DUMMY") /\ dummy'.id = plp.dtb /\ plp.at = "admit"
    BY <1>4 DEF PLPAdmits, TypeOK, DummyType
  <2>2. plp.dtb # 0
    BY <2>1 DEF TypeOK, ThreadsType, DTBs
  <2>3. "LOAD_DUMMY" \in PCPKinds /\ TasksType
    BY DEF PCPKinds, TypeOK
  <2>4. A' = A + 1
    BY <2>1, <2>3, PostsOne DEF A
  <2>5. OnDummy' = {}
    BY <1>1, <2>4
  <2>6. QED  BY <2>1, <2>2, <2>5 DEF LoadIds
<1>5. CASE PCPFreesDummy
  <2>1. dummy'.status = "BLOCKED"
    BY <1>5 DEF PCPFreesDummy
  <2>2. QED  BY <1>1, <2>1 DEF LoadIds, A
<1>6. CASE PCPLoadsDummy
  <2>1. /\ dummy'.id = dummy.id /\ running' = running /\ PCPTakes("LOAD_DUMMY") /\ PCPReplans
    BY <1>6 DEF PCPLoadsDummy, outside, TypeOK, DummyType
  <2>2. "LOAD_DUMMY" \in PCPKinds /\ TasksType
    BY DEF PCPKinds, TypeOK
  <2>3. A' = A - 1
    BY <2>1, <2>2, TakesOne DEF A
  <2>4. dummy.id # 0
    BY <1>1, <2>3 DEF LoadIds, A
  <2>5. QED  BY <2>1, <2>4 DEF LoadIds, OnDummy
<1>7. CASE \E c \in IdleCPUs : PCPDispatchesDummy(c)
  <2>1. PICK c \in IdleCPUs : PCPDispatchesDummy(c)
    BY <1>7
  <2>2. /\ dummy'.id = dummy.id /\ running' = [running EXCEPT ![c] = [kind |-> "dummy", id |-> dummy.id]]
        /\ dummyIn["READY"] > 0
    BY <2>1 DEF PCPDispatchesDummy, TypeOK, DummyType
  <2>3. dummy.id # 0
    BY <2>2 DEF LoadIds
  <2>4. \A b \in OnDummy' : running'[b].id = dummy.id
    BY <1>3, <2>2 DEF LoadIds, OnDummy
  <2>5. QED  BY <2>2, <2>3, <2>4 DEF LoadIds
<1>8. ASSUME ~PLPAdmits, ~PCPFreesDummy, ~PCPLoadsDummy, \A c \in IdleCPUs : ~PCPDispatchesDummy(c)
      PROVE  LoadIds'
  <2>1. /\ dummy'.id = dummy.id
        /\ \A c \in OnDummy' : c \in OnDummy /\ running'[c].id = running[c].id
        /\ A' = A
    BY <1>8, LoadStays DEF A
  <2>2. A' > 0 \/ dummyIn'["READY"] > 0 => dummy'.id # 0
    BY <1>1, <1>2, <1>8, <2>1 DEF LoadIds, A
  <2>3. QED  BY <2>1, <2>2 DEF LoadIds, A
<1>9. QED  BY <1>4, <1>5, <1>6, <1>7, <1>8

-----------------------------------------------------------------------------
\* The turn of a DTB to execute.

\* Where the turn of a DTB to execute may be: in READY, on a CPU, with the DAM, in a
\* message that gives it back or ends it, and in the queue of those to unlock.
ReadyTurns == {<<d, "READY", 0>> : d \in READY}
CPUTurns == {<<running[c].id, "CPU", c>> : c \in {b \in CPUs : running[b].kind = "dtb"}}
DAMTurns == {<<r.id, "DAM", r>> : r \in {q \in dam : q.op = "io"}}
JobTurns ==
    {<<j.id, "job", j>> :
        j \in {k \in jobs : \/ k.msg = "EOFORABORT"
                            \/ k.at = "start" /\ k.msg \in {"IODONE", "EOQUANTUM"}}}
QueueTurns == {<<toBeUnlocked[i], "queue", 0>> : i \in DOMAIN toBeUnlocked}
Turns == ReadyTurns \cup CPUTurns \cup DAMTurns \cup JobTurns \cup QueueTurns

\* A DTB has one turn at most.
OneTurn ==
    /\ \A s, t \in Turns : s[1] = t[1] => s[2] = t[2] /\ s[3] = t[3]
    /\ \A i, k \in DOMAIN toBeUnlocked : toBeUnlocked[i] = toBeUnlocked[k] => i = k

\* A turn passes from one place to another, or is lost.
LEMMA TurnPasses ==
  ASSUME OneTurn, NEW x \in Turns, NEW y, y[1] = x[1],
         \A t \in Turns' : (t \in Turns /\ t # x) \/ t = y
  PROVE  \A s, t \in Turns' : s[1] = t[1] => s[2] = t[2] /\ s[3] = t[3]
<1> TAKE s, t \in Turns'
<1> HAVE s[1] = t[1]
<1>1. \A u, v \in Turns : u[1] = v[1] => u = v
  <2> TAKE u, v \in Turns
  <2> HAVE u[1] = v[1]
  <2>1. u[2] = v[2] /\ u[3] = v[3]
    BY DEF OneTurn
  <2>2. \A w \in Turns : w = <<w[1], w[2], w[3]>>
    BY DEF Turns, ReadyTurns, CPUTurns, DAMTurns, JobTurns, QueueTurns
  <2>3. u = <<u[1], u[2], u[3]>> /\ v = <<v[1], v[2], v[3]>>
    BY <2>2
  <2>4. QED  BY <2>1, <2>3
<1>2. CASE s = y /\ t = y
  BY <1>2
<1>3. CASE s = y /\ t # y
  <2>1. t \in Turns /\ t # x /\ t[1] = x[1]
    BY <1>3
  <2>2. QED  BY <1>1, <2>1
<1>4. CASE s # y /\ t = y
  <2>1. s \in Turns /\ s # x /\ s[1] = x[1]
    BY <1>4
  <2>2. QED  BY <1>1, <2>1
<1>5. CASE s # y /\ t # y
  <2>1. s \in Turns /\ t \in Turns
    BY <1>5
  <2>2. QED  BY <1>1, <2>1
<1>6. QED  BY <1>2, <1>3, <1>4, <1>5

\* Turns that go leave the others apart.
LEMMA TurnsLost ==
  ASSUME OneTurn, \A t \in Turns' : t \in Turns
  PROVE  \A s, t \in Turns' : s[1] = t[1] => s[2] = t[2] /\ s[3] = t[3]
  BY DEF OneTurn

\* The turns of the places that a step leaves alone; those of different places differ.
LEMMA TurnsFrame ==
  /\ READY' \subseteq READY => \A t \in ReadyTurns' : t \in ReadyTurns
  /\ running' = running => CPUTurns' = CPUTurns
  /\ dam' \subseteq dam => \A t \in DAMTurns' : t \in DAMTurns
  /\ jobs' \subseteq jobs => \A t \in JobTurns' : t \in JobTurns
  /\ toBeUnlocked' = toBeUnlocked => QueueTurns' = QueueTurns
  BY DEF ReadyTurns, CPUTurns, DAMTurns, JobTurns, QueueTurns

\* A turn tells the place that holds it.
LEMMA TurnsApart ==
  /\ \A t \in ReadyTurns : t[2] = "READY"
  /\ \A t \in CPUTurns : t[2] = "CPU"
  /\ \A t \in DAMTurns : t[2] = "DAM"
  /\ \A t \in JobTurns : t[2] = "job"
  /\ \A t \in QueueTurns : t[2] = "queue"
  BY DEF ReadyTurns, CPUTurns, DAMTurns, JobTurns, QueueTurns

\* The turns are those of the five places.
LEMMA TurnsAre ==
  /\ \A t : t \in Turns <=> \/ t \in ReadyTurns \/ t \in CPUTurns \/ t \in DAMTurns
                            \/ t \in JobTurns \/ t \in QueueTurns
  /\ \A t : t \in Turns' <=> \/ t \in ReadyTurns' \/ t \in CPUTurns' \/ t \in DAMTurns'
                             \/ t \in JobTurns' \/ t \in QueueTurns'
  BY DEF Turns

\* The turns of a CPU that speaks or leaves go.
LEMMA CPUTurnGoes ==
  ASSUME TypeOK, NEW c \in CPUs, running' = [running EXCEPT ![c] = NotRunning]
  PROVE  \A t \in CPUTurns' : t \in CPUTurns /\ t # <<running[c].id, "CPU", c>>
<1>1. running \in [CPUs -> [kind : {"idle", "dtb", "dummy"}, id : Ids]]
  BY DEF TypeOK, OutsideType
<1>2. QED  BY <1>1 DEF CPUTurns, NotRunning

\* A queue that loses its first id, which occurs in it once.
LEMMA QueuePops ==
  ASSUME TypeOK, OneTurn, toBeUnlocked # <<>>, toBeUnlocked' = Tail(toBeUnlocked)
  PROVE  /\ \A t \in QueueTurns' : t \in QueueTurns /\ t # <<Head(toBeUnlocked), "queue", 0>>
         /\ <<Head(toBeUnlocked), "queue", 0>> \in QueueTurns
         /\ \A i, k \in DOMAIN toBeUnlocked' : toBeUnlocked'[i] = toBeUnlocked'[k] => i = k
<1>1. PICK q : q = toBeUnlocked
  OBVIOUS
<1>2. q \in Seq(Ids) /\ q # <<>>
  BY <1>1 DEF TypeOK, DataType
<1>3. /\ DOMAIN q = 1 .. Len(q) /\ DOMAIN Tail(q) = 1 .. Len(q) - 1 /\ Len(q) \in Nat \ {0}
      /\ \A i \in 1 .. Len(q) - 1 : Tail(q)[i] = q[i + 1]
      /\ Head(q) = q[1]
  BY <1>2
<1>4. \A i, k \in DOMAIN q : q[i] = q[k] => i = k
  BY <1>1 DEF OneTurn
<1>5. \A i \in DOMAIN Tail(q) : i \in Nat /\ i + 1 \in DOMAIN q /\ i + 1 # 1 /\ Tail(q)[i] = q[i + 1]
  BY <1>3
<1>6. 1 \in DOMAIN q
  BY <1>3
<1>7. toBeUnlocked' = Tail(q)
  BY <1>1
<1>8. \A t \in QueueTurns' : t \in QueueTurns /\ t # <<Head(q), "queue", 0>>
  <2> TAKE t \in QueueTurns'
  <2>1. PICK i \in DOMAIN Tail(q) : t = <<Tail(q)[i], "queue", 0>>
    BY <1>7 DEF QueueTurns
  <2>2. t = <<q[i + 1], "queue", 0>> /\ i + 1 \in DOMAIN q
    BY <1>5, <2>1
  <2>3. q[i + 1] # q[1]
    BY <1>4, <1>5, <1>6
  <2>4. t \in QueueTurns
    BY <1>1, <2>2 DEF QueueTurns
  <2>5. QED  BY <1>3, <2>2, <2>3, <2>4
<1>9. <<Head(q), "queue", 0>> \in QueueTurns
  BY <1>1, <1>3, <1>6 DEF QueueTurns
<1>10. \A i, k \in DOMAIN Tail(q) : Tail(q)[i] = Tail(q)[k] => i = k
  <2> TAKE i, k \in DOMAIN Tail(q)
  <2> HAVE Tail(q)[i] = Tail(q)[k]
  <2>1. i + 1 = k + 1
    BY <1>4, <1>5
  <2>2. i \in Nat /\ k \in Nat
    BY <1>5
  <2>3. QED  BY <2>1, <2>2
<1>11. QED  BY <1>1, <1>7, <1>8, <1>9, <1>10

\* A queue that gains an id, whose turn was in a message.
LEMMA QueuePushes ==
  ASSUME TypeOK, OneTurn, NEW j \in jobs, <<j.id, "job", j>> \in JobTurns,
         toBeUnlocked' = Append(toBeUnlocked, j.id)
  PROVE  /\ \A t \in QueueTurns' : t \in QueueTurns \/ t = <<j.id, "queue", 0>>
         /\ \A i, k \in DOMAIN toBeUnlocked' : toBeUnlocked'[i] = toBeUnlocked'[k] => i = k
<1>1. PICK q : q = toBeUnlocked
  OBVIOUS
<1>2. q \in Seq(Ids)
  BY <1>1 DEF TypeOK, DataType
<1>3. PICK p : p = Append(q, j.id)
  OBVIOUS
<1>4. /\ DOMAIN q = 1 .. Len(q) /\ DOMAIN p = 1 .. Len(q) + 1 /\ Len(q) \in Nat
      /\ \A i \in 1 .. Len(q) : p[i] = q[i]
      /\ p[Len(q) + 1] = j.id
  BY <1>2, <1>3
<1>5. \A i \in DOMAIN p : (i \in DOMAIN q /\ p[i] = q[i]) \/ (i = Len(q) + 1 /\ p[i] = j.id)
  BY <1>4
<1>6. \A i \in DOMAIN q : q[i] # j.id
  <2> SUFFICES ASSUME NEW i \in DOMAIN q, q[i] = j.id PROVE FALSE
    OBVIOUS
  <2>1. PICK s : s = <<j.id, "queue", 0>>
    OBVIOUS
  <2>2. PICK t : t = <<j.id, "job", j>>
    OBVIOUS
  <2>3. s \in Turns /\ t \in Turns
    BY <1>1, <2>1, <2>2 DEF Turns, QueueTurns
  <2>4. s[1] = t[1] /\ s[2] # t[2]
    BY <2>1, <2>2
  <2>5. QED  BY <2>3, <2>4 DEF OneTurn
<1>7. \A i, k \in DOMAIN q : q[i] = q[k] => i = k
  BY <1>1 DEF OneTurn
<1>8. \A i, k \in DOMAIN p : p[i] = p[k] => i = k
  BY <1>5, <1>6, <1>7
<1>9. \A t \in QueueTurns' : t \in QueueTurns \/ t = <<j.id, "queue", 0>>
  <2> TAKE t \in QueueTurns'
  <2>1. PICK i \in DOMAIN p : t = <<p[i], "queue", 0>>
    BY <1>1, <1>3 DEF QueueTurns
  <2>2. QED  BY <1>1, <1>5, <2>1 DEF QueueTurns
<1>10. QED  BY <1>1, <1>3, <1>8, <1>9

\* When the queue of those to unlock is left alone, it is enough that the turns pass.
LEMMA TurnMoves ==
  ASSUME OneTurn, toBeUnlocked' = toBeUnlocked, NEW x \in Turns, NEW y, y[1] = x[1],
         \A t \in Turns' : (t \in Turns /\ t # x) \/ t = y
  PROVE  OneTurn'
<1>1. \A s, t \in Turns' : s[1] = t[1] => s[2] = t[2] /\ s[3] = t[3]
  BY TurnPasses
<1>2. \A i, k \in DOMAIN toBeUnlocked' : toBeUnlocked'[i] = toBeUnlocked'[k] => i = k
  BY DEF OneTurn
<1>3. QED  BY <1>1, <1>2 DEF OneTurn

\* ... or that they go.
LEMMA TurnsGo ==
  ASSUME OneTurn, toBeUnlocked' = toBeUnlocked,
         \A t \in ReadyTurns' : t \in ReadyTurns,
         \A t \in CPUTurns' : t \in CPUTurns,
         \A t \in DAMTurns' : t \in DAMTurns,
         \A t \in JobTurns' : t \in JobTurns
  PROVE  OneTurn'
<1>1. QueueTurns' = QueueTurns
  BY DEF QueueTurns
<1>2. \A t \in Turns' : t \in Turns
  BY <1>1, TurnsAre
<1>3. \A s, t \in Turns' : s[1] = t[1] => s[2] = t[2] /\ s[3] = t[3]
  BY <1>2, TurnsLost
<1>4. \A i, k \in DOMAIN toBeUnlocked' : toBeUnlocked'[i] = toBeUnlocked'[k] => i = k
  BY DEF OneTurn
<1>5. QED  BY <1>3, <1>4 DEF OneTurn

\* The turns of the messages when one arrives, and when one takes the place of another.
GivesTurn(k) == k.msg = "EOFORABORT" \/ (k.at = "start" /\ k.msg \in {"IODONE", "EOQUANTUM"})

\* A message that arrives brings its own turn at most.
LEMMA JobTurnsAdd ==
  ASSUME NEW k, jobs' \subseteq jobs \cup {k}
  PROVE  \A t \in JobTurns' : t \in JobTurns \/ (t = <<k.id, "job", k>> /\ GivesTurn(k))
  BY DEF JobTurns, GivesTurn

\* A message that takes the place of another brings its own turn for the other's.
LEMMA JobTurnsSwap ==
  ASSUME NEW j, NEW k, jobs' \subseteq (jobs \ {j}) \cup {k}
  PROVE  \A t \in JobTurns' : \/ t \in JobTurns /\ t # <<j.id, "job", j>>
                              \/ t = <<k.id, "job", k>> /\ GivesTurn(k)
  BY DEF JobTurns, GivesTurn

\* The turns of the CPUs when one is given something to execute.
LEMMA CPUTurnsAdd ==
  ASSUME TypeOK, NEW c \in CPUs, NEW e, running' = [running EXCEPT ![c] = e]
  PROVE  \A t \in CPUTurns' : t \in CPUTurns \/ (t = <<e.id, "CPU", c>> /\ e.kind = "dtb")
<1>1. running \in [CPUs -> [kind : {"idle", "dtb", "dummy"}, id : Ids]]
  BY DEF TypeOK, OutsideType
<1>2. QED  BY <1>1 DEF CPUTurns

\* The turns are those of DTBs that have been READY.
LEMMA TurnsBegun == ASSUME Fresh PROVE \A t \in Turns : t[1] \in Begun
<1>1. \A t \in ReadyTurns : t[1] \in Begun
  BY DEF ReadyTurns, Fresh, FreshLists
<1>2. \A t \in CPUTurns : t[1] \in Begun
  BY DEF CPUTurns, Fresh, FreshCPUs
<1>3. \A t \in DAMTurns : t[1] \in Begun
  BY DEF DAMTurns, Fresh, FreshDAM
<1>4. \A t \in JobTurns : t[1] \in Begun
  BY DEF JobTurns, Fresh, FreshJobs, Executed
<1>5. \A t \in QueueTurns : t[1] \in Begun
  BY DEF QueueTurns, Fresh, FreshData
<1>6. QED  BY <1>1, <1>2, <1>3, <1>4, <1>5, TurnsAre

\* A DTB that becomes READY had no turn.
LEMMA TurnPLP == ASSUME TypeOK, OnePlace, Fresh, OneTurn, PLP PROVE OneTurn'
<1>1. running' = running /\ dam' = dam /\ jobs' = jobs /\ toBeUnlocked' = toBeUnlocked
  BY DEF PLP, PLPCannotSchedule, PLPTakesDummy, PLPAdmits, PLPCreates, PLPInitializes,
         PLPInitializeFails, outside, data
<1>2. CASE READY' = READY
  <2>1. READY' \subseteq READY /\ dam' \subseteq dam /\ jobs' \subseteq jobs
    BY <1>1, <1>2
  <2>2. QED  BY <1>1, <2>1, TurnsFrame, TurnsGo
<1>3. CASE PLPInitializes
  <2>1. READY' = READY \cup Loaded /\ Loaded \subseteq beingDummied
    BY <1>3 DEF PLPInitializes
  <2>2. \A d \in Loaded : d \notin Begun
    BY <2>1 DEF OnePlace, Begun
  <2>3. \A t \in ReadyTurns' : t \in ReadyTurns \/ \E d \in Loaded : t = <<d, "READY", 0>>
    BY <2>1 DEF ReadyTurns
  <2>4. CPUTurns' = CPUTurns /\ QueueTurns' = QueueTurns /\ DAMTurns' = DAMTurns /\ JobTurns' = JobTurns
    BY <1>1 DEF CPUTurns, QueueTurns, DAMTurns, JobTurns
  <2>5. \A t \in Turns' : t \in Turns \/ \E d \in Loaded : t = <<d, "READY", 0>>
    BY <2>3, <2>4, TurnsAre
  <2>6. \A s, t \in Turns' : s[1] = t[1] => s[2] = t[2] /\ s[3] = t[3]
    <3> TAKE s, t \in Turns'
    <3> HAVE s[1] = t[1]
    <3>1. CASE s \in Turns /\ t \in Turns
      BY <3>1 DEF OneTurn
    <3>2. CASE s \in Turns /\ t \notin Turns
      BY <2>2, <2>5, <3>2, TurnsBegun
    <3>3. CASE s \notin Turns /\ t \in Turns
      BY <2>2, <2>5, <3>3, TurnsBegun
    <3>4. CASE s \notin Turns /\ t \notin Turns
      BY <2>5, <3>4
    <3>5. QED  BY <3>1, <3>2, <3>3, <3>4
  <2>7. \A i, k \in DOMAIN toBeUnlocked' : toBeUnlocked'[i] = toBeUnlocked'[k] => i = k
    BY <1>1 DEF OneTurn
  <2>8. QED  BY <2>6, <2>7 DEF OneTurn
<1>4. QED
  BY <1>2, <1>3 DEF PLP, PLPCannotSchedule, PLPTakesDummy, PLPAdmits, PLPCreates,
                    PLPInitializeFails, lists

\* Dispatched, the DTB has its turn on the CPU; unlocked, in READY.
LEMMA TurnPCP == ASSUME TypeOK, Fresh, OneTurn, PCP PROVE OneTurn'
<1>1. dam' = dam /\ jobs' = jobs
  BY DEF PCP, PCPDispatches, PCPDispatchesDTB, PCPDispatchesDummy, PCPCannotSchedule, PCPCanSchedule,
         PCPDispatchFails, PCPLoadsDummy, PCPFreesDummy, PCPFreedDummy, PCPBlocks, PCPBlockFails,
         PCPUnlocks, PCPUnlockFails, PCPEnds, PCPEnded, PCPEndFails, outside
<1>2. DAMTurns' = DAMTurns /\ JobTurns' = JobTurns
  BY <1>1 DEF DAMTurns, JobTurns
<1>3. CASE PCPDispatches
  <2>1. PICK c \in IdleCPUs : PCPDispatchesDummy(c) \/ \E d \in READY : PCPDispatchesDTB(c, d)
    BY <1>3 DEF PCPDispatches
  <2>2. c \in CPUs /\ toBeUnlocked' = toBeUnlocked
    BY <2>1 DEF PCPDispatchesDummy, PCPDispatchesDTB, IdleCPUs, TypeOK, HolderType, data
  <2>3. QueueTurns' = QueueTurns
    BY <2>2 DEF QueueTurns
  <2>4. CASE PCPDispatchesDummy(c)
    <3>1. READY' = READY /\ running' = [running EXCEPT ![c] = [kind |-> "dummy", id |-> dummy.id]]
      BY <2>4 DEF PCPDispatchesDummy, lists
    <3>2. \A t \in CPUTurns' : t \in CPUTurns
      <4>1. PICK e : e = [kind |-> "dummy", id |-> dummy.id]
        OBVIOUS
      <4>2. e.kind # "dtb" /\ running' = [running EXCEPT ![c] = e]
        BY <3>1, <4>1
      <4>3. QED  BY <2>2, <4>2, CPUTurnsAdd
    <3>3. ReadyTurns' = ReadyTurns
      BY <3>1 DEF ReadyTurns
    <3>4. QED  BY <1>2, <2>2, <3>2, <3>3, TurnsGo
  <2>5. CASE \E d \in READY : PCPDispatchesDTB(c, d)
    <3>1. PICK d \in READY : PCPDispatchesDTB(c, d)
      BY <2>5
    <3>2. READY' = READY \ {d} /\ running' = [running EXCEPT ![c] = [kind |-> "dtb", id |-> d]]
      BY <3>1 DEF PCPDispatchesDTB
    <3>3. PICK x, y : x = <<d, "READY", 0>> /\ y = <<d, "CPU", c>>
      OBVIOUS
    <3>4. \A t \in CPUTurns' : t \in CPUTurns \/ t = y
      <4>1. PICK e : e = [kind |-> "dtb", id |-> d]
        OBVIOUS
      <4>2. e.id = d /\ running' = [running EXCEPT ![c] = e]
        BY <3>2, <4>1
      <4>3. QED  BY <2>2, <3>3, <4>2, CPUTurnsAdd
    <3>5. \A t \in ReadyTurns' : t \in ReadyTurns /\ t # x
      BY <3>2, <3>3 DEF ReadyTurns
    <3>6. x \in ReadyTurns /\ x[2] = "READY" /\ y[1] = x[1]
      BY <3>3 DEF ReadyTurns
    <3>7. \A t \in Turns' : (t \in Turns /\ t # x) \/ t = y
      BY <1>2, <2>3, <3>4, <3>5, <3>6, TurnsAre, TurnsApart
    <3>8. QED  BY <2>2, <3>6, <3>7, TurnsAre, TurnMoves
  <2>6. QED  BY <2>1, <2>4, <2>5
<1>4. CASE PCPUnlocks
  <2>1. PICK d : d = FirstOf(toBeUnlocked)
    OBVIOUS
  <2>2. /\ d \in EXEC \cup BLOCKED /\ READY' = READY \cup {d} /\ running' = running
        /\ toBeUnlocked' = Popped(toBeUnlocked)
    BY <1>4, <2>1 DEF PCPUnlocks, Unlockable, outside
  <2>3. d # NoId
    BY <2>2 DEF TypeOK, ListsType, DTBs, NoId
  <2>4. toBeUnlocked # <<>> /\ d = Head(toBeUnlocked) /\ toBeUnlocked' = Tail(toBeUnlocked)
    BY <2>1, <2>2, <2>3 DEF FirstOf, Popped
  <2>5. PICK x, y : x = <<d, "queue", 0>> /\ y = <<d, "READY", 0>>
    OBVIOUS
  <2>6. /\ \A t \in QueueTurns' : t \in QueueTurns /\ t # x
        /\ x \in QueueTurns
        /\ \A i, k \in DOMAIN toBeUnlocked' : toBeUnlocked'[i] = toBeUnlocked'[k] => i = k
    BY <2>4, <2>5, QueuePops
  <2>7. \A t \in ReadyTurns' : t \in ReadyTurns \/ t = y
    BY <2>2, <2>5 DEF ReadyTurns
  <2>8. CPUTurns' = CPUTurns
    BY <2>2, TurnsFrame
  <2>9. x[2] = "queue" /\ y[1] = x[1]
    BY <2>5
  <2>10. \A t \in Turns' : (t \in Turns /\ t # x) \/ t = y
    BY <1>2, <2>6, <2>7, <2>8, <2>9, TurnsAre, TurnsApart
  <2>11. \A s, t \in Turns' : s[1] = t[1] => s[2] = t[2] /\ s[3] = t[3]
    BY <2>6, <2>9, <2>10, TurnsAre, TurnPasses
  <2>12. QED  BY <2>6, <2>11 DEF OneTurn
<1>5. CASE ~PCPDispatches /\ ~PCPUnlocks
  <2>1. READY' \subseteq READY /\ running' = running /\ toBeUnlocked' = toBeUnlocked
    <3>1. CASE PCPEnds
      BY <3>1 DEF PCPEnds, EndsDummy, EndsQueued, EndsLoading, outside
    <3>2. CASE ~PCPEnds
      BY <1>5, <3>2
      DEF PCP, PCPCannotSchedule, PCPCanSchedule, PCPDispatchFails, PCPLoadsDummy, PCPFreesDummy,
          PCPFreedDummy, PCPBlocks, PCPBlockFails, PCPUnlockFails, PCPEnded, PCPEndFails,
          outside, lists, data
    <3>3. QED  BY <3>1, <3>2
  <2>2. CPUTurns' = CPUTurns /\ \A t \in ReadyTurns' : t \in ReadyTurns
    BY <2>1, TurnsFrame
  <2>3. QED  BY <1>2, <2>1, <2>2, TurnsGo
<1>6. QED  BY <1>3, <1>4, <1>5

\* A message of the end of a burst gives its turn to the queue; one of the end of the
\* script keeps it till its task is posted.
LEMMA TurnHandler ==
  ASSUME TypeOK, OneTurn, NEW j \in jobs, Handler(j)
  PROVE  OneTurn'
<1>1. READY' = READY /\ running' = running /\ dam' = dam
  BY DEF Handler, lists
<1>2. ReadyTurns' = ReadyTurns /\ CPUTurns' = CPUTurns /\ DAMTurns' = DAMTurns
  BY <1>1 DEF ReadyTurns, CPUTurns, DAMTurns
<1>3. PICK k : k = [j EXCEPT !.at = "post"]
  OBVIOUS
<1>4. k.msg = j.msg /\ k.id = j.id /\ k.at = "post" /\ j \in Jobs
  BY <1>3 DEF TypeOK, OutsideType, Jobs
<1>5. PICK x, y, z : x = <<j.id, "job", j>> /\ y = <<j.id, "queue", 0>> /\ z = <<k.id, "job", k>>
  OBVIOUS
<1>6. y[1] = x[1] /\ z[1] = x[1] /\ x[2] = "job"
  BY <1>4, <1>5
<1>7. GivesTurn(j) => x \in JobTurns /\ x \in Turns
  BY <1>5, TurnsAre DEF JobTurns, GivesTurn
<1>8. CASE Finished(j) /\ j.at = "post"
  <2>1. jobs' \subseteq jobs
    BY <1>8 DEF Finished
  <2>2. toBeUnlocked' = toBeUnlocked
    BY <1>4, <1>8
    DEF Handler, Comms_DAM_DummyFinished, Comms_DAM_OperationFinished, Comms_DAM_IOError,
        Comms_CPU_ErrorOrEOF, Comms_CPU_DummyAtDAM, Comms_CPU_DTBAtDAM, Comms_CPU_OutOfQuantum
  <2>3. QED  BY <1>2, <2>1, <2>2, TurnsFrame, TurnsGo
<1>9. CASE Pushed(j) /\ j.at = "start"
  <2>1. jobs' \subseteq (jobs \ {j}) \cup {k}
    BY <1>3, <1>9 DEF Pushed
  <2>2. \A t \in JobTurns' : (t \in JobTurns /\ t # x) \/ (t = z /\ GivesTurn(k))
    BY <1>5, <2>1, JobTurnsSwap
  <2>3. CASE toBeUnlocked' = toBeUnlocked
    <3>1. QueueTurns' = QueueTurns
      BY <2>3 DEF QueueTurns
    <3>2. CASE GivesTurn(k)
      <4>1. GivesTurn(j)
        BY <1>4, <3>2 DEF GivesTurn
      <4>2. \A t \in Turns' : (t \in Turns /\ t # x) \/ t = z
        BY <1>2, <1>6, <2>2, <3>1, TurnsAre, TurnsApart
      <4>3. QED  BY <1>6, <1>7, <2>3, <4>1, <4>2, TurnMoves
    <3>3. CASE ~GivesTurn(k)
      BY <1>2, <2>2, <2>3, <3>3, TurnsGo
    <3>4. QED  BY <3>2, <3>3
  <2>4. CASE toBeUnlocked' # toBeUnlocked
    <3>1. /\ toBeUnlocked' = Append(toBeUnlocked, j.id)
          /\ j.at = "start" /\ j.msg \in {"IODONE", "EOQUANTUM"}
      BY <2>4
      DEF Handler, Comms_DAM_DummyFinished, Comms_DAM_OperationFinished, Comms_DAM_IOError,
          Comms_CPU_ErrorOrEOF, Comms_CPU_DummyAtDAM, Comms_CPU_DTBAtDAM, Comms_CPU_OutOfQuantum
    <3>2. GivesTurn(j) /\ ~GivesTurn(k)
      BY <1>4, <3>1 DEF GivesTurn
    <3>3. /\ \A t \in QueueTurns' : t \in QueueTurns \/ t = y
          /\ \A i, l \in DOMAIN toBeUnlocked' : toBeUnlocked'[i] = toBeUnlocked'[l] => i = l
      BY <1>5, <1>7, <3>1, <3>2, QueuePushes
    <3>4. \A t \in Turns' : (t \in Turns /\ t # x) \/ t = y
      BY <1>2, <1>6, <2>2, <3>2, <3>3, TurnsAre, TurnsApart
    <3>5. \A s, t \in Turns' : s[1] = t[1] => s[2] = t[2] /\ s[3] = t[3]
      BY <1>6, <1>7, <3>2, <3>4, TurnPasses
    <3>6. QED  BY <3>3, <3>5 DEF OneTurn
  <2>5. QED  BY <2>3, <2>4
<1>10. QED
  BY <1>8, <1>9
  DEF Handler, Comms_DAM_DummyFinished, Comms_DAM_OperationFinished, Comms_DAM_IOError,
      Comms_CPU_ErrorOrEOF, Comms_CPU_DummyAtDAM, Comms_CPU_DTBAtDAM, Comms_CPU_OutOfQuantum

\* A CPU gives the turn it had to the DAM or to its message.
LEMMA TurnCPU ==
  ASSUME TypeOK, OneTurn, NEW c \in CPUs, CPUSpeaks(c)
  PROVE  OneTurn'
<1>1. READY' = READY /\ toBeUnlocked' = toBeUnlocked /\ running' = [running EXCEPT ![c] = NotRunning]
  BY DEF CPUSpeaks, CPURunsDummy, CPURequestsIO, CPUEndsQuantum, CPUEndsDTB, CPUSends, lists, data
<1>2. ReadyTurns' = ReadyTurns /\ QueueTurns' = QueueTurns
  BY <1>1 DEF ReadyTurns, QueueTurns
<1>3. PICK d : d = running[c].id
  OBVIOUS
<1>4. PICK x : x = <<d, "CPU", c>>
  OBVIOUS
<1>5. \A t \in CPUTurns' : t \in CPUTurns /\ t # x
  BY <1>1, <1>3, <1>4, CPUTurnGoes
<1>6. running[c].kind = "dtb" => x \in CPUTurns /\ x \in Turns
  BY <1>3, <1>4, TurnsAre DEF CPUTurns
<1>7. x[1] = d /\ x[2] = "CPU"
  BY <1>4
<1>8. ASSUME NEW m, NEW n, CPUSends(c, m, n)
      PROVE  \E k : k = Message(m, d, c, n) /\ jobs' \subseteq jobs \cup {k}
  BY <1>3, <1>8 DEF CPUSends
<1>9. CASE CPURunsDummy(c)
  <2>1. CPUSends(c, "BLOCKDUMMY", 0) /\ dam' = dam \cup {[op |-> "load", id |-> d, n |-> 0]}
    BY <1>3, <1>9 DEF CPURunsDummy
  <2>2. PICK k : k = Message("BLOCKDUMMY", d, c, 0) /\ jobs' \subseteq jobs \cup {k}
    BY <1>8, <2>1
  <2>3. ~GivesTurn(k)
    BY <2>2 DEF GivesTurn, Message
  <2>4. \A t \in JobTurns' : t \in JobTurns
    BY <2>2, <2>3, JobTurnsAdd
  <2>5. \A t \in DAMTurns' : t \in DAMTurns
    BY <2>1 DEF DAMTurns
  <2>6. QED  BY <1>1, <1>2, <1>5, <2>4, <2>5, TurnsGo
<1>10. CASE CPURequestsIO(c)
  <2>1. PICK r : r = [op |-> "io", id |-> d, n |-> bursts[d]]
    OBVIOUS
  <2>2. CPUSends(c, "BLOCKDTB", bursts[d]) /\ dam' = dam \cup {r} /\ running[c].kind = "dtb"
    BY <1>3, <1>10, <2>1 DEF CPURequestsIO
  <2>3. PICK k : k = Message("BLOCKDTB", d, c, bursts[d]) /\ jobs' \subseteq jobs \cup {k}
    BY <1>8, <2>2
  <2>4. ~GivesTurn(k)
    BY <2>3 DEF GivesTurn, Message
  <2>5. \A t \in JobTurns' : t \in JobTurns
    BY <2>3, <2>4, JobTurnsAdd
  <2>6. PICK y : y = <<d, "DAM", r>>
    OBVIOUS
  <2>7. \A t \in DAMTurns' : t \in DAMTurns \/ t = y
    BY <2>1, <2>2, <2>6 DEF DAMTurns
  <2>8. y[1] = x[1]
    BY <1>7, <2>6
  <2>9. \A t \in Turns' : (t \in Turns /\ t # x) \/ t = y
    BY <1>2, <1>5, <1>7, <2>5, <2>7, TurnsAre, TurnsApart
  <2>10. QED  BY <1>1, <1>6, <2>2, <2>8, <2>9, TurnMoves
<1>11. CASE CPUEndsQuantum(c) \/ CPUEndsDTB(c)
  <2>1. /\ CPUSends(c, "EOQUANTUM", bursts[d]) \/ CPUSends(c, "EOFORABORT", bursts[d])
        /\ dam' = dam /\ running[c].kind = "dtb"
    BY <1>3, <1>11 DEF CPUEndsQuantum, CPUEndsDTB
  <2>2. PICK k : k.id = d /\ jobs' \subseteq jobs \cup {k}
    BY <1>8, <2>1 DEF Message
  <2>3. PICK y : y = <<k.id, "job", k>>
    OBVIOUS
  <2>4. \A t \in JobTurns' : t \in JobTurns \/ t = y
    BY <2>2, <2>3, JobTurnsAdd
  <2>5. DAMTurns' = DAMTurns
    BY <2>1 DEF DAMTurns
  <2>6. y[1] = x[1]
    BY <1>7, <2>2, <2>3
  <2>7. \A t \in Turns' : (t \in Turns /\ t # x) \/ t = y
    BY <1>2, <1>5, <1>7, <2>4, <2>5, TurnsAre, TurnsApart
  <2>8. QED  BY <1>1, <1>6, <2>1, <2>6, <2>7, TurnMoves
<1>12. QED  BY <1>9, <1>10, <1>11 DEF CPUSpeaks

\* The DAM gives the turn it had to its answer.
LEMMA TurnDAM ==
  ASSUME TypeOK, OneTurn, NEW r \in dam, DAMAnswers(r)
  PROVE  OneTurn'
<1>1. READY' = READY /\ running' = running /\ toBeUnlocked' = toBeUnlocked /\ dam' = dam \ {r}
  BY DEF DAMAnswers, lists, data
<1>2. ReadyTurns' = ReadyTurns /\ CPUTurns' = CPUTurns /\ QueueTurns' = QueueTurns
  BY <1>1 DEF ReadyTurns, CPUTurns, QueueTurns
<1>3. PICK m \in {IF r.op = "load" THEN "DUMMY" ELSE "IODONE", "IOERROR"} :
         jobs' = jobs \cup {Message(m, r.id, NoCPU, r.n)}
  BY DEF DAMAnswers
<1>4. PICK k : k = Message(m, r.id, NoCPU, r.n)
  OBVIOUS
<1>5. k.id = r.id /\ k.msg = m /\ r.op \in {"load", "io"} /\ jobs' \subseteq jobs \cup {k}
  BY <1>3, <1>4 DEF Message, TypeOK, OutsideType
<1>6. PICK x, y : x = <<r.id, "DAM", r>> /\ y = <<k.id, "job", k>>
  OBVIOUS
<1>7. \A t \in DAMTurns' : t \in DAMTurns /\ t # x
  BY <1>1, <1>6 DEF DAMTurns
<1>8. \A t \in JobTurns' : t \in JobTurns \/ (t = y /\ GivesTurn(k))
  BY <1>5, <1>6, JobTurnsAdd
<1>9. CASE r.op = "io"
  <2>1. x \in DAMTurns /\ x[2] = "DAM" /\ y[1] = x[1]
    BY <1>5, <1>6, <1>9 DEF DAMTurns
  <2>2. \A t \in Turns' : (t \in Turns /\ t # x) \/ t = y
    BY <1>2, <1>7, <1>8, <2>1, TurnsAre, TurnsApart
  <2>3. QED  BY <1>1, <2>1, <2>2, TurnsAre, TurnMoves
<1>10. CASE r.op = "load"
  <2>1. ~GivesTurn(k)
    BY <1>3, <1>5, <1>10 DEF GivesTurn
  <2>2. QED  BY <1>1, <1>2, <1>7, <1>8, <2>1, TurnsGo
<1>11. QED  BY <1>5, <1>9, <1>10

\* Commands give no turn.
LEMMA TurnConsole ==
  ASSUME TypeOK, OneTurn, Console \/ \E j \in jobs : ConsoleJob(j)
  PROVE  OneTurn'
<1>1. READY' = READY /\ running' = running /\ dam' = dam /\ toBeUnlocked' = toBeUnlocked
  BY DEF Console, CommandEjecutar, CommandFinalizar, ConsoleJob, CommandEjecutarPosts,
         CommandFinalizarTakesCPU, CommandFinalizarFails, CommandFinalizarPosts, lists, outside, data
<1>2. ReadyTurns' = ReadyTurns /\ CPUTurns' = CPUTurns /\ DAMTurns' = DAMTurns
  BY <1>1 DEF ReadyTurns, CPUTurns, DAMTurns
<1>3. CASE \E k : jobs' \subseteq jobs \cup {k} /\ ~GivesTurn(k)
  <2>1. \A t \in JobTurns' : t \in JobTurns
    BY <1>3, JobTurnsAdd
  <2>2. QED  BY <1>1, <1>2, <2>1, TurnsGo
<1>4. CASE CommandEjecutar
  <2>1. PICK k : /\ k = [msg |-> "EJECUTAR", id |-> nextID + scripts, cpu |-> NoCPU, n |-> 0,
                        at |-> "post"]
                 /\ jobs' \subseteq jobs \cup {k}
    BY <1>4 DEF CommandEjecutar
  <2>2. ~GivesTurn(k)
    BY <2>1 DEF GivesTurn
  <2>3. QED  BY <1>3, <2>1, <2>2
<1>5. CASE \E id \in 0..MaxDTB : CommandFinalizar(id)
  <2>1. PICK id \in 0..MaxDTB : CommandFinalizar(id)
    BY <1>5
  <2>2. PICK k : k = [msg |-> "FINALIZAR", id |-> id, cpu |-> NoCPU, n |-> finalizars, at |-> "start"]
    OBVIOUS
  <2>3. jobs' \subseteq jobs \cup {k} /\ ~GivesTurn(k)
    BY <2>1, <2>2 DEF CommandFinalizar, GivesTurn
  <2>4. QED  BY <1>3, <2>3
<1>6. ASSUME NEW j \in jobs, ConsoleJob(j)
      PROVE  OneTurn'
  <2>1. CASE CommandFinalizarTakesCPU(j)
    <3>1. PICK c \in IdleCPUs : jobs' = (jobs \ {j}) \cup {[j EXCEPT !.at = "post", !.cpu = c]}
      BY <2>1 DEF CommandFinalizarTakesCPU
    <3>2. PICK k : k = [j EXCEPT !.at = "post", !.cpu = c]
      OBVIOUS
    <3>3. k.msg = "FINALIZAR"
      BY <2>1, <3>2 DEF CommandFinalizarTakesCPU, TypeOK, OutsideType, Jobs
    <3>4. jobs' \subseteq jobs \cup {k} /\ ~GivesTurn(k)
      BY <3>1, <3>2, <3>3 DEF GivesTurn
    <3>5. QED  BY <1>3, <3>4
  <2>2. CASE ~CommandFinalizarTakesCPU(j)
    <3>1. jobs' \subseteq jobs
      BY <1>6, <2>2 DEF ConsoleJob, CommandEjecutarPosts, CommandFinalizarFails,
                        CommandFinalizarPosts, Finished, outside
    <3>2. QED  BY <1>1, <1>2, <3>1, TurnsFrame, TurnsGo
  <2>3. QED  BY <2>1, <2>2
<1>7. QED  BY <1>4, <1>5, <1>6 DEF Console

\* Every step passes a turn on, gives one to a DTB that had none, or loses one.
LEMMA OneTurnNext ==
  ASSUME TypeOK, OnePlace, Fresh, OneTurn, [Next]_vars
  PROVE  OneTurn'
<1>1. CASE UNCHANGED vars
  BY <1>1, TurnsFrame, TurnsGo DEF vars, lists, outside, data
<1>2. CASE \E c \in CPUs : CPUConnects(c) \/ CPUDisconnects(c)
  <2>1. PICK c \in CPUs : CPUConnects(c) \/ CPUDisconnects(c)
    BY <1>2
  <2>2. READY' = READY /\ dam' = dam /\ jobs' = jobs /\ toBeUnlocked' = toBeUnlocked
    BY <2>1 DEF CPUConnects, CPUDisconnects, lists, outside, data
  <2>3. running' = running \/ running' = [running EXCEPT ![c] = NotRunning]
    BY <2>1 DEF CPUConnects, CPUDisconnects, outside
  <2>4. \A t \in CPUTurns' : t \in CPUTurns
    BY <2>3, CPUTurnGoes, TurnsFrame
  <2>5. ReadyTurns' = ReadyTurns /\ DAMTurns' = DAMTurns /\ JobTurns' = JobTurns
    BY <2>2 DEF ReadyTurns, DAMTurns, JobTurns
  <2>6. QED  BY <2>2, <2>4, <2>5, TurnsGo
<1>3. QED
  BY <1>1, <1>2, TurnPLP, TurnPCP, TurnHandler, TurnConsole, TurnCPU, TurnDAM DEF Next

-----------------------------------------------------------------------------
\* The answers of the DAM.

\* What a message is, but for how far its handler has got.
Key(j) == <<j.msg, j.id, j.n>>

\* The DAM's answer to an operation comes once; and no message comes twice.
AnsweredOnce ==
    \A r \in dam, j \in jobs :
        j.msg \in {"IODONE", "IOERROR", "DUMMY"} /\ j.id = r.id => j.n # r.n
NoTwins == \A j, k \in jobs : Key(j) = Key(k) => j = k

\* Handlers and commands leave the messages as they are, but for their place, or end
\* with them.
LEMMA JobKept ==
  ASSUME TypeOK, NEW j \in jobs, Handler(j) \/ ConsoleJob(j)
  PROVE  /\ dam' = dam
         /\ \E k : /\ Key(k) = Key(j) /\ jobs' \subseteq (jobs \ {j}) \cup {k}
                   /\ k = j \/ j.at = "start"
<1>1. dam' = dam
  BY DEF Handler, ConsoleJob, CommandEjecutarPosts, CommandFinalizarTakesCPU, CommandFinalizarFails,
         CommandFinalizarPosts, outside
<1>2. j \in Jobs
  BY DEF TypeOK, OutsideType
<1>3. CASE jobs' \subseteq jobs
  <2>1. Key(j) = Key(j) /\ jobs' \subseteq (jobs \ {j}) \cup {j}
    BY <1>3
  <2>2. QED  BY <1>1, <2>1
<1>4. CASE Pushed(j) /\ j.at = "start"
  <2>1. PICK k : k = [j EXCEPT !.at = "post"]
    OBVIOUS
  <2>2. Key(k) = Key(j)
    BY <1>2, <2>1 DEF Key, Jobs
  <2>3. jobs' \subseteq (jobs \ {j}) \cup {k}
    BY <1>4, <2>1 DEF Pushed
  <2>4. QED  BY <1>1, <1>4, <2>2, <2>3
<1>5. CASE CommandFinalizarTakesCPU(j)
  <2>1. PICK c \in IdleCPUs : jobs' = (jobs \ {j}) \cup {[j EXCEPT !.at = "post", !.cpu = c]}
    BY <1>5 DEF CommandFinalizarTakesCPU
  <2>2. PICK k : k = [j EXCEPT !.at = "post", !.cpu = c]
    OBVIOUS
  <2>3. Key(k) = Key(j)
    BY <1>2, <2>2 DEF Key, Jobs
  <2>4. jobs' \subseteq (jobs \ {j}) \cup {k} /\ j.at = "start"
    BY <1>5, <2>1, <2>2 DEF CommandFinalizarTakesCPU
  <2>5. QED  BY <1>1, <2>3, <2>4
<1>6. CASE Handler(j)
  <2>1. (Pushed(j) /\ j.at = "start") \/ Finished(j)
    BY <1>6
    DEF Handler, Comms_DAM_DummyFinished, Comms_DAM_OperationFinished, Comms_DAM_IOError,
        Comms_CPU_ErrorOrEOF, Comms_CPU_DummyAtDAM, Comms_CPU_DTBAtDAM, Comms_CPU_OutOfQuantum
  <2>2. QED  BY <1>3, <1>4, <2>1 DEF Finished
<1>7. CASE ConsoleJob(j)
  BY <1>3, <1>5, <1>7
  DEF ConsoleJob, CommandEjecutarPosts, CommandFinalizarFails, CommandFinalizarPosts, Finished, outside
<1>8. QED  BY <1>6, <1>7

\* The planners and the connections touch no message and ask nothing of the DAM.
LEMMA JobsAlone ==
  ASSUME UNCHANGED vars \/ PLP \/ PCP \/ \E c \in CPUs : CPUConnects(c) \/ CPUDisconnects(c)
  PROVE  dam' = dam /\ jobs' = jobs
  BY DEF PLP, PLPCannotSchedule, PLPTakesDummy, PLPAdmits, PLPCreates, PLPInitializes,
         PLPInitializeFails, PCP, PCPDispatches, PCPDispatchesDTB, PCPDispatchesDummy,
         PCPCannotSchedule, PCPCanSchedule, PCPDispatchFails, PCPLoadsDummy, PCPFreesDummy,
         PCPFreedDummy, PCPBlocks, PCPBlockFails, PCPUnlocks, PCPUnlockFails, PCPEnds, PCPEnded,
         PCPEndFails, CPUConnects, CPUDisconnects, outside, vars

\* A command that is typed.
LEMMA JobTyped ==
  ASSUME TypeOK, Console
  PROVE  /\ dam' = dam
         /\ \E k : /\ jobs' = jobs \cup {k}
                   /\ \/ k.msg = "EJECUTAR" /\ k.id = nextID + scripts
                      \/ k.msg = "FINALIZAR" /\ k.n = finalizars
<1>1. dam' = dam
  BY DEF Console, CommandEjecutar, CommandFinalizar
<1>2. CASE CommandEjecutar
  <2>1. PICK k : /\ k = [msg |-> "EJECUTAR", id |-> nextID + scripts, cpu |-> NoCPU, n |-> 0,
                        at |-> "post"]
                 /\ jobs' = jobs \cup {k}
    BY <1>2 DEF CommandEjecutar
  <2>2. k.msg = "EJECUTAR" /\ k.id = nextID + scripts
    BY <2>1
  <2>3. QED  BY <1>1, <2>1, <2>2
<1>3. CASE \E id \in 0..MaxDTB : CommandFinalizar(id)
  <2>1. PICK id \in 0..MaxDTB : CommandFinalizar(id)
    BY <1>3
  <2>2. PICK k : k = [msg |-> "FINALIZAR", id |-> id, cpu |-> NoCPU, n |-> finalizars, at |-> "start"]
    OBVIOUS
  <2>3. jobs' = jobs \cup {k} /\ k.msg = "FINALIZAR" /\ k.n = finalizars
    BY <2>1, <2>2 DEF CommandFinalizar
  <2>4. QED  BY <1>1, <2>3
<1>4. QED  BY <1>2, <1>3 DEF Console

\* An answer that comes was asked for once, and a load is not asked for again before
\* the answer to the one before has been handled.
LEMMA AnsweredNext ==
  ASSUME TypeOK, Fresh, LoadIds, Numbers, AnsweredOnce, [Next]_vars
  PROVE  AnsweredOnce'
<1> DEFINE Answers(j) == j.msg \in {"IODONE", "IOERROR", "DUMMY"}
<1>1. ASSUME dam' \subseteq dam,
             \A j \in jobs' : Answers(j) => \E i \in jobs : Key(i) = Key(j)
      PROVE  AnsweredOnce'
  <2>1. ASSUME NEW r \in dam', NEW j \in jobs', Answers(j), j.id = r.id
        PROVE  j.n # r.n
    <3>1. PICK i \in jobs : Key(i) = Key(j)
      BY <1>1, <2>1
    <3>2. i.msg = j.msg /\ i.id = j.id /\ i.n = j.n
      BY <3>1 DEF Key
    <3>3. r \in dam
      BY <1>1
    <3>4. QED  BY <2>1, <3>2, <3>3 DEF AnsweredOnce
  <2>2. QED  BY <2>1 DEF AnsweredOnce
<1>2. CASE UNCHANGED vars \/ PLP \/ PCP \/ \E c \in CPUs : CPUConnects(c) \/ CPUDisconnects(c)
  <2>1. dam' = dam /\ jobs' = jobs
    BY <1>2, JobsAlone
  <2>2. QED  BY <1>1, <2>1
<1>3. ASSUME NEW j \in jobs, Handler(j) \/ ConsoleJob(j)
      PROVE  AnsweredOnce'
  <2>1. PICK k : Key(k) = Key(j) /\ jobs' \subseteq (jobs \ {j}) \cup {k}
    BY <1>3, JobKept
  <2>2. dam' = dam
    BY <1>3, JobKept
  <2>3. \A l \in jobs' : \E i \in jobs : Key(i) = Key(l)
    BY <2>1
  <2>4. QED  BY <1>1, <2>2, <2>3
<1>4. CASE Console
  <2>1. PICK k : jobs' = jobs \cup {k} /\ k.msg \in {"EJECUTAR", "FINALIZAR"}
    BY <1>4, JobTyped
  <2>2. dam' = dam
    BY <1>4, JobTyped
  <2>3. \A l \in jobs' : Answers(l) => l \in jobs
    BY <2>1
  <2>4. QED  BY <1>1, <2>2, <2>3
<1>5. ASSUME NEW c \in CPUs, CPUSpeaks(c)
      PROVE  AnsweredOnce'
  <2>1. PICK d : d = running[c].id
    OBVIOUS
  <2>2. \A l \in jobs' : Answers(l) => l \in jobs
    <3>1. \E m, n : m \in {"BLOCKDUMMY", "BLOCKDTB", "EOQUANTUM", "EOFORABORT"} /\ CPUSends(c, m, n)
      BY <1>5 DEF CPUSpeaks, CPURunsDummy, CPURequestsIO, CPUEndsQuantum, CPUEndsDTB
    <3>2. PICK m, n : CPUSends(c, m, n) /\ m \in {"BLOCKDUMMY", "BLOCKDTB", "EOQUANTUM", "EOFORABORT"}
      BY <3>1
    <3>3. jobs' \subseteq jobs \cup {Message(m, d, c, n)}
      BY <2>1, <3>2 DEF CPUSends
    <3>4. QED  BY <3>2, <3>3 DEF Message
  <2>3. ASSUME NEW r, dam' \subseteq dam \cup {r},
               \A j \in jobs : Answers(j) /\ j.id = r.id => j.n # r.n
        PROVE  AnsweredOnce'
    <3>1. \A s \in dam' : s \in dam \/ s = r
      BY <2>3
    <3>2. ASSUME NEW s \in dam', NEW j \in jobs', Answers(j), j.id = s.id
          PROVE  j.n # s.n
      BY <2>2, <2>3, <3>1, <3>2 DEF AnsweredOnce
    <3>3. QED  BY <3>2 DEF AnsweredOnce
  <2>4. CASE CPURunsDummy(c)
    <3>1. PICK r : r = [op |-> "load", id |-> d, n |-> 0]
      OBVIOUS
    <3>2. dam' \subseteq dam \cup {r} /\ c \in OnDummy
      BY <2>1, <2>4, <3>1 DEF CPURunsDummy, OnDummy
    <3>3. d = dummy.id /\ d # 0 /\ d \notin Told /\ d \notin Begun
      BY <2>1, <3>2 DEF LoadIds, Told, Begun
    <3>4. \A j \in jobs : Answers(j) /\ j.id = d => j.n # 0
      <4> TAKE j \in jobs
      <4> HAVE Answers(j) /\ j.id = d
      <4>1. CASE j.msg = "IODONE"
        BY <3>3, <4>1 DEF Fresh, FreshJobs, Executed
      <4>2. CASE j.msg = "DUMMY"
        BY <3>3, <4>2 DEF Fresh, FreshJobs, Loads
      <4>3. CASE j.msg = "IOERROR"
        BY <3>3, <4>3 DEF Fresh, FreshJobs, Loads
      <4>4. QED  BY <4>1, <4>2, <4>3
    <3>5. QED  BY <2>3, <3>1, <3>2, <3>4
  <2>5. CASE CPURequestsIO(c)
    <3>1. PICK r : r = [op |-> "io", id |-> d, n |-> bursts[d]]
      OBVIOUS
    <3>2. dam' \subseteq dam \cup {r} /\ bursts[d] > 0 /\ d \in DTBs
      BY <2>1, <2>5, <3>1 DEF CPURequestsIO, TypeOK, OutsideType
    <3>3. bursts[d] \in Nat
      BY <3>2, SchedulingAssumption DEF TypeOK, OutsideType, SchedulingAssumption
    <3>4. \A j \in jobs : Answers(j) /\ j.id = d => j.n # bursts[d]
      <4> TAKE j \in jobs
      <4> HAVE Answers(j) /\ j.id = d
      <4>1. j.n \in Nat
        <5>1. j \in Jobs
          BY DEF TypeOK, OutsideType
        <5>2. QED  BY <5>1 DEF Jobs
      <4>2. j.n = 0 \/ j.n > bursts[d]
        BY DEF Numbers, NumbersJobs
      <4>3. QED  BY <3>2, <3>3, <4>1, <4>2
    <3>5. QED  BY <2>3, <3>1, <3>2, <3>4
  <2>6. CASE CPUEndsQuantum(c) \/ CPUEndsDTB(c)
    <3>1. dam' = dam
      BY <2>6 DEF CPUEndsQuantum, CPUEndsDTB
    <3>2. QED  BY <1>1, <2>2, <3>1
  <2>7. QED  BY <1>5, <2>4, <2>5, <2>6 DEF CPUSpeaks
<1>6. ASSUME NEW r \in dam, DAMAnswers(r)
      PROVE  AnsweredOnce'
  <2>1. PICK m \in {IF r.op = "load" THEN "DUMMY" ELSE "IODONE", "IOERROR"} :
           jobs' = jobs \cup {Message(m, r.id, NoCPU, r.n)}
    BY <1>6 DEF DAMAnswers
  <2>2. PICK k : k = Message(m, r.id, NoCPU, r.n)
    OBVIOUS
  <2>3. k.id = r.id /\ k.n = r.n /\ jobs' = jobs \cup {k} /\ dam' = dam \ {r}
    BY <1>6, <2>1, <2>2 DEF Message, DAMAnswers
  <2>4. \A s \in dam : s.id = r.id /\ s.n = r.n => s = r
    <3> TAKE s \in dam
    <3> HAVE s.id = r.id /\ s.n = r.n
    <3>1. s \in [op : {"load", "io"}, id : Ids, n : Nat] /\ r \in [op : {"load", "io"}, id : Ids, n : Nat]
      BY DEF TypeOK, OutsideType
    <3>2. /\ s.op = "io" => s.n > 0
          /\ r.op = "io" => r.n > 0
          /\ s.op = "load" => s.n = 0
          /\ r.op = "load" => r.n = 0
      BY DEF Numbers, NumbersDAM, Fresh, FreshDAM
    <3>3. s.op = r.op
      BY <3>1, <3>2
    <3>4. s = [op |-> s.op, id |-> s.id, n |-> s.n] /\ r = [op |-> r.op, id |-> r.id, n |-> r.n]
      BY <3>1
    <3>5. QED  BY <3>3, <3>4
  <2>5. ASSUME NEW s \in dam', NEW j \in jobs', Answers(j), j.id = s.id
        PROVE  j.n # s.n
    <3>1. s \in dam /\ s # r
      BY <2>3
    <3>2. CASE j \in jobs
      BY <2>5, <3>1, <3>2 DEF AnsweredOnce
    <3>3. CASE j = k
      BY <2>3, <2>4, <2>5, <3>1, <3>3
    <3>4. QED  BY <2>3, <3>2, <3>3
  <2>6. QED  BY <2>5 DEF AnsweredOnce
<1>7. QED  BY <1>2, <1>3, <1>4, <1>5, <1>6 DEF Next

\* A message that comes is not one that is there.
LEMMA TwinsNext ==
  ASSUME TypeOK, Fresh, LoadsInv, Numbers, OneTurn, AnsweredOnce, NoTwins, [Next]_vars
  PROVE  NoTwins'
<1>1. ASSUME NEW k, jobs' \subseteq jobs \cup {k}, \A j \in jobs : Key(j) # Key(k)
      PROVE  NoTwins'
  BY <1>1 DEF NoTwins
<1>2. CASE jobs' \subseteq jobs
  BY <1>2 DEF NoTwins
<1>3. CASE UNCHANGED vars \/ PLP \/ PCP \/ \E c \in CPUs : CPUConnects(c) \/ CPUDisconnects(c)
  <2>1. jobs' = jobs
    BY <1>3, JobsAlone
  <2>2. QED  BY <1>2, <2>1
<1>4. ASSUME NEW j \in jobs, Handler(j) \/ ConsoleJob(j)
      PROVE  NoTwins'
  <2>1. PICK k : Key(k) = Key(j) /\ jobs' \subseteq (jobs \ {j}) \cup {k}
    BY <1>4, JobKept
  <2>2. ASSUME NEW i \in jobs', NEW l \in jobs', Key(i) = Key(l)
        PROVE  i = l
    BY <2>1, <2>2 DEF NoTwins
  <2>3. QED  BY <2>2 DEF NoTwins
<1>5. CASE Console
  <2>1. PICK k : /\ jobs' = jobs \cup {k}
                 /\ \/ k.msg = "EJECUTAR" /\ k.id = nextID + scripts
                    \/ k.msg = "FINALIZAR" /\ k.n = finalizars
    BY <1>5, JobTyped
  <2>2. \A j \in jobs : Key(j) # Key(k)
    <3> SUFFICES ASSUME NEW j \in jobs, Key(j) = Key(k) PROVE FALSE
      OBVIOUS
    <3>1. j.msg = k.msg /\ j.id = k.id /\ j.n = k.n
      BY DEF Key
    <3>2. j.n \in Int /\ j.id \in Int
      <4>1. j \in Jobs
        BY DEF TypeOK, OutsideType
      <4>2. j.n \in Nat /\ j.id \in Ids
        BY <4>1 DEF Jobs
      <4>3. j.id \in Nat
        BY <4>2, IdRange
      <4>4. QED  BY <4>2, <4>3
    <3>3. CASE k.msg = "EJECUTAR" /\ k.id = nextID + scripts
      <4>1. j.id < nextID + scripts
        BY <3>1, <3>3 DEF Numbers, NumbersJobs
      <4>2. PICK a : a = nextID + scripts
        OBVIOUS
      <4>3. j.id < a /\ j.id = a
        BY <3>1, <3>3, <4>1, <4>2, Zenon
      <4>4. QED  BY <3>2, <4>3
    <3>4. CASE k.msg = "FINALIZAR" /\ k.n = finalizars
      <4>1. j.n > finalizars
        BY <3>1, <3>4 DEF Numbers, NumbersJobs
      <4>2. QED  BY <3>1, <3>2, <3>4, <4>1
    <3>5. QED  BY <2>1, <3>3, <3>4
  <2>3. QED  BY <1>1, <2>1, <2>2
<1>6. ASSUME NEW c \in CPUs, CPUSpeaks(c)
      PROVE  NoTwins'
  <2>1. PICK d : d = running[c].id
    OBVIOUS
  <2>2. ASSUME NEW m, NEW n, CPUSends(c, m, n), \A j \in jobs : j.msg = m /\ j.id = d => j.n # n
        PROVE  NoTwins'
    <3>1. PICK k : k = Message(m, d, c, n)
      OBVIOUS
    <3>2. jobs' \subseteq jobs \cup {k}
      BY <2>1, <2>2, <3>1 DEF CPUSends
    <3>3. k.msg = m /\ k.id = d /\ k.n = n
      BY <3>1 DEF Message
    <3>4. \A j \in jobs : Key(j) # Key(k)
      BY <2>2, <3>3 DEF Key
    <3>5. QED  BY <1>1, <3>2, <3>4
  <2>3. CASE CPURunsDummy(c)
    <3>1. CPUSends(c, "BLOCKDUMMY", 0) /\ c \in OnDummy
      BY <2>3 DEF CPURunsDummy, OnDummy
    <3>2. ToldDummy = {}
      <4>1. /\ Pending(PCPtasks, "LOAD_DUMMY") \in Nat /\ Pending(PCPtasks, "FREE_DUMMY") \in Nat
        <5>1. PCPtasks \in Seq(PCPKinds) /\ "NORMAL" \in PCPKinds
          BY DEF TypeOK, TasksType, PCPKinds
        <5>2. QED  BY <5>1, PendingAppend
      <4>2. /\ Cardinality(OnDummy) \in Nat /\ Cardinality(ToldDummy) \in Nat
            /\ dummyIn["READY"] \in Nat /\ Handed \in Nat
        BY RunNext, ToldNext, ReadyNext DEF LoadsInv, Handed
      <4>3. Cardinality(OnDummy) # 0
        BY <3>1, FS_EmptySet DEF LoadsInv
      <4>4. Handed + Pending(PCPtasks, "LOAD_DUMMY") + dummyIn["READY"] + Cardinality(OnDummy)
              + Cardinality(ToldDummy) + Pending(PCPtasks, "FREE_DUMMY") <= 1
        BY DummyLoadsIs DEF LoadsInv, DummyLoadsOne
      <4>5. PICK h, a, b, o, t, f :
               /\ h = Handed /\ a = Pending(PCPtasks, "LOAD_DUMMY") /\ b = dummyIn["READY"]
               /\ o = Cardinality(OnDummy) /\ t = Cardinality(ToldDummy)
               /\ f = Pending(PCPtasks, "FREE_DUMMY")
        OBVIOUS
      <4>6. /\ h \in Nat /\ a \in Nat /\ b \in Nat /\ o \in Nat /\ t \in Nat /\ f \in Nat
            /\ o # 0 /\ h + a + b + o + t + f <= 1
        BY <4>1, <4>2, <4>3, <4>4, <4>5
      <4>7. t = 0
        BY <4>6
      <4>8. IsFiniteSet(ToldDummy)
        BY FS_Subset DEF LoadsInv, ToldDummy
      <4>9. QED  BY <4>5, <4>7, <4>8, CountZero
    <3>3. \A j \in jobs : j.msg # "BLOCKDUMMY"
      BY <3>2 DEF ToldDummy
    <3>4. QED  BY <2>2, <3>1, <3>3
  <2>4. CASE CPURequestsIO(c) \/ CPUEndsQuantum(c)
    <3>1. /\ CPUSends(c, "BLOCKDTB", bursts[d]) \/ CPUSends(c, "EOQUANTUM", bursts[d])
          /\ d \in DTBs
      BY <2>1, <2>4 DEF CPURequestsIO, CPUEndsQuantum, TypeOK, OutsideType
    <3>2. bursts[d] \in Nat
      BY <3>1, SchedulingAssumption DEF TypeOK, OutsideType, SchedulingAssumption
    <3>3. \A j \in jobs : j.msg \in {"BLOCKDTB", "EOQUANTUM"} /\ j.id = d => j.n > bursts[d]
      BY DEF Numbers, NumbersJobs
    <3>4. \A j \in jobs : j.msg \in {"BLOCKDTB", "EOQUANTUM"} /\ j.id = d => j.n # bursts[d]
      BY <3>2, <3>3
    <3>5. QED  BY <2>2, <3>1, <3>4
  <2>5. CASE CPUEndsDTB(c)
    <3>1. CPUSends(c, "EOFORABORT", bursts[d]) /\ running[c].kind = "dtb"
      BY <2>1, <2>5 DEF CPUEndsDTB
    <3>2. \A j \in jobs : j.msg = "EOFORABORT" => j.id # d
      <4> SUFFICES ASSUME NEW j \in jobs, j.msg = "EOFORABORT", j.id = d PROVE FALSE
        OBVIOUS
      <4>1. PICK x, y : x = <<d, "CPU", c>> /\ y = <<j.id, "job", j>>
        OBVIOUS
      <4>2. x \in Turns /\ y \in Turns
        BY <2>1, <3>1, <4>1, TurnsAre DEF CPUTurns, JobTurns
      <4>3. x[1] = y[1] /\ x[2] # y[2]
        BY <4>1
      <4>4. QED  BY <4>2, <4>3 DEF OneTurn
    <3>3. QED  BY <2>2, <3>1, <3>2
  <2>6. QED  BY <1>6, <2>3, <2>4, <2>5 DEF CPUSpeaks
<1>7. ASSUME NEW r \in dam, DAMAnswers(r)
      PROVE  NoTwins'
  <2>1. PICK m \in {IF r.op = "load" THEN "DUMMY" ELSE "IODONE", "IOERROR"} :
           jobs' = jobs \cup {Message(m, r.id, NoCPU, r.n)}
    BY <1>7 DEF DAMAnswers
  <2>2. PICK k : k = Message(m, r.id, NoCPU, r.n)
    OBVIOUS
  <2>3. /\ k.msg \in {"IODONE", "IOERROR", "DUMMY"} /\ k.id = r.id /\ k.n = r.n
        /\ jobs' \subseteq jobs \cup {k}
    BY <2>1, <2>2 DEF Message
  <2>4. \A j \in jobs : Key(j) # Key(k)
    BY <2>3 DEF Key, AnsweredOnce
  <2>5. QED  BY <1>1, <2>3, <2>4
<1>8. QED  BY <1>3, <1>4, <1>5, <1>6, <1>7 DEF Next

-----------------------------------------------------------------------------
\* A task for each datum.

\* A command that is typed and about to post.
LEMMA PostingTyped ==
  ASSUME IsFiniteSet(jobs), NEW k, k \notin jobs, jobs' = jobs \cup {k}, k.at = "post", NEW ms
  PROVE  /\ IsFiniteSet(jobs') /\ Posting(ms) \in Nat
         /\ Posting(ms)' = Posting(ms) + (IF k.msg \in ms THEN 1 ELSE 0)
<1>1. IsFiniteSet(jobs')
  BY FS_AddElement
<1>2. PICK P : P = PostingOf(ms)
  OBVIOUS
<1>3. k \notin P /\ IsFiniteSet(P) /\ Posting(ms) = Cardinality(P) /\ Posting(ms) \in Nat
  BY <1>2, PostingIs DEF PostingOf
<1>4. Posting(ms)' = Cardinality(PostingOf(ms)')
  BY DEF Posting, PostingOf
<1>5. CASE k.msg \in ms
  <2>1. PostingOf(ms)' = P \cup {k}
    BY <1>2, <1>5 DEF PostingOf
  <2>2. Cardinality(P \cup {k}) = Cardinality(P) + 1
    BY <1>3, FS_AddElement
  <2>3. QED  BY <1>1, <1>3, <1>4, <1>5, <2>1, <2>2
<1>6. CASE k.msg \notin ms
  <2>1. PostingOf(ms)' = P
    BY <1>2, <1>6 DEF PostingOf
  <2>2. QED  BY <1>1, <1>3, <1>4, <1>6, <2>1
<1>7. QED  BY <1>5, <1>6

\* The messages and the numbers of the posts are what they were.
LEMMA PostingSame ==
  ASSUME IsFiniteSet(jobs), NEW ms, PostingOf(ms)' = PostingOf(ms)
  PROVE  Posting(ms) \in Nat /\ Posting(ms)' = Posting(ms)
<1>1. Posting(ms)' = Posting(ms)
  BY DEF Posting, PostingOf
<1>2. QED  BY <1>1, PostingIs

\* The "finalizar" commands under way: each has pushed its datum.
Ending == {j \in jobs : j.msg = "FINALIZAR"}

\* The commands under way are finitely many.
LEMMA EndingIs == IsFiniteSet(jobs) => IsFiniteSet(Ending) /\ Cardinality(Ending) \in Nat
<1>1. Ending \subseteq jobs
  BY DEF Ending
<1>2. QED  BY <1>1, FS_Subset, FS_CardinalityType

\* The task a message ends in.
TaskOf(m) ==
    CASE m = "BLOCKDUMMY"               -> "FREE_DUMMY"
      [] m = "BLOCKDTB"                 -> "BLOCK"
      [] m \in {"IODONE", "EOQUANTUM"}  -> "UNLOCK"
      [] m \in {"IOERROR", "EOFORABORT"} -> "END"

\* What a handler does first, and what it does then.
LEMMA HandlerPushes ==
  ASSUME NEW j, Handler(j), j.at = "start"
  PROVE  /\ Pushed(j) /\ j.msg \notin {"EJECUTAR", "FINALIZAR"}
         /\ UNCHANGED <<PCPtasks, PLPtasks, scripts>>
         /\ toBeBlocked' = IF j.msg = "BLOCKDTB" THEN Append(toBeBlocked, j.id) ELSE toBeBlocked
         /\ toBeUnlocked' = IF j.msg \in {"IODONE", "EOQUANTUM"} THEN Append(toBeUnlocked, j.id)
                                                                 ELSE toBeUnlocked
         /\ toBeEnded' = IF j.msg \in {"IOERROR", "EOFORABORT"} THEN Append(toBeEnded, j.id)
                                                                ELSE toBeEnded
         /\ dummiedQueue' = IF j.msg = "DUMMY" THEN Append(dummiedQueue, j.id) ELSE dummiedQueue
  BY DEF Handler, Comms_DAM_DummyFinished, Comms_DAM_OperationFinished, Comms_DAM_IOError,
         Comms_CPU_ErrorOrEOF, Comms_CPU_DummyAtDAM, Comms_CPU_DTBAtDAM, Comms_CPU_OutOfQuantum

\* What a handler does after its push: it posts one task, and ends.
LEMMA HandlerPosts ==
  ASSUME NEW j, Handler(j), j.at = "post"
  PROVE  /\ Finished(j) /\ j.msg \notin {"EJECUTAR", "FINALIZAR"} /\ UNCHANGED data
         /\ \/ j.msg = "DUMMY" /\ PCPtasks' = PCPtasks /\ PLPtasks' = Append(PLPtasks, "INITIALIZE")
            \/ /\ j.msg \in {"BLOCKDUMMY", "BLOCKDTB", "IODONE", "EOQUANTUM", "IOERROR", "EOFORABORT"}
               /\ PCPtasks' = Append(PCPtasks, TaskOf(j.msg)) /\ PLPtasks' = PLPtasks
  BY DEF Handler, Comms_DAM_DummyFinished, Comms_DAM_OperationFinished, Comms_DAM_IOError,
         Comms_CPU_ErrorOrEOF, Comms_CPU_DummyAtDAM, Comms_CPU_DTBAtDAM, Comms_CPU_OutOfQuantum,
         AddPCPTask, AddPLPTask, TaskOf, data

\* The tasks of the long-term planner.
PLPKinds == {"NORMAL", "CREATE", "INITIALIZE"}

\* The tasks of a kind that the long-term planner has, after a post.
LEMMA PLPPending ==
  ASSUME TasksType, NEW u
  PROVE  /\ Pending(PLPtasks, u) \in Nat
         /\ PLPtasks' = PLPtasks => Pending(PLPtasks, u)' = Pending(PLPtasks, u)
         /\ \A t \in PLPKinds :
              PLPtasks' = Append(PLPtasks, t) =>
                Pending(PLPtasks, u)' = Pending(PLPtasks, u) + (IF t = u THEN 1 ELSE 0)
<1>1. PLPtasks \in Seq(PLPKinds) /\ "NORMAL" \in PLPKinds
  BY DEF TasksType, PLPKinds
<1>2. Pending(PLPtasks, u)' = Pending(PLPtasks', u)
  BY DEF Pending
<1>3. Pending(PLPtasks, u) \in Nat
  BY <1>1, PendingAppend
<1>4. ASSUME NEW t \in PLPKinds, PLPtasks' = Append(PLPtasks, t)
      PROVE  Pending(PLPtasks, u)' = Pending(PLPtasks, u) + (IF t = u THEN 1 ELSE 0)
  <2>1. Pending(Append(PLPtasks, t), u) = Pending(PLPtasks, u) + (IF t = u THEN 1 ELSE 0)
    BY <1>1, PendingAppend
  <2>2. QED  BY <1>2, <1>4, <2>1
<1>5. QED  BY <1>2, <1>3, <1>4

\* The planner drops a task of another kind.
LEMMA PLPDrops ==
  ASSUME TasksType, NEW u, PLPtasks # <<>>, Head(PLPtasks) # u, PLPtasks' = Tail(PLPtasks)
  PROVE  Pending(PLPtasks, u)' = Pending(PLPtasks, u)
<1>1. PLPtasks \in Seq(PLPKinds)
  BY DEF TasksType, PLPKinds
<1>2. Pending(PLPtasks, u)' = Pending(PLPtasks', u)
  BY DEF Pending
<1>3. /\ Pending(PLPtasks, u) \in Nat /\ Pending(Tail(PLPtasks), u) \in Nat
      /\ Pending(PLPtasks, u) = Pending(Tail(PLPtasks), u) + (IF Head(PLPtasks) = u THEN 1 ELSE 0)
  BY <1>1, PendingTail
<1>4. QED  BY <1>2, <1>3

\* The planner takes a task, of another kind, and posts one of planning.
LEMMA PLPReplaces ==
  ASSUME TasksType, NEW u, u # "NORMAL", PLPtasks # <<>>, Head(PLPtasks) # u,
         PLPtasks' = Append(Tail(PLPtasks), "NORMAL")
  PROVE  Pending(PLPtasks, u)' = Pending(PLPtasks, u)
<1>1. PLPtasks \in Seq(PLPKinds) /\ "NORMAL" \in PLPKinds
  BY DEF TasksType, PLPKinds
<1>2. Pending(PLPtasks, u)' = Pending(PLPtasks', u)
  BY DEF Pending
<1>3. /\ Pending(PLPtasks, u) \in Nat
      /\ Pending(Append(Tail(PLPtasks), "NORMAL"), u)
           = Pending(PLPtasks, u) - (IF Head(PLPtasks) = u THEN 1 ELSE 0) + (IF "NORMAL" = u THEN 1 ELSE 0)
  BY <1>1, PendingReplans
<1>4. QED  BY <1>2, <1>3

\* The lengths of the queues of data.
LEMMA DataLengths ==
  ASSUME TypeOK
  PROVE  \A q \in {dummiedQueue, toBeBlocked, toBeUnlocked, toBeEnded} :
            /\ Len(q) \in Nat
            /\ \A x \in Ids : Len(Append(q, x)) = Len(q) + 1
            /\ Len(q) > 0 => Len(Popped(q)) = Len(q) - 1
<1>1. \A q \in {dummiedQueue, toBeBlocked, toBeUnlocked, toBeEnded} : q \in Seq(Ids)
  BY DEF TypeOK, DataType
<1>2. QED  BY <1>1 DEF Popped

\* A task of each kind for each datum, by kind.
DatumBlock == Len(toBeBlocked) = Pending(PCPtasks, "BLOCK") + Posting({"BLOCKDTB"})
DatumUnlock == Len(toBeUnlocked) = Pending(PCPtasks, "UNLOCK") + Posting({"IODONE", "EOQUANTUM"})
DatumEnd == Len(toBeEnded) = Pending(PCPtasks, "END") + Posting({"IOERROR", "EOFORABORT"})
                              + Cardinality(Ending)
DatumInitialize == Len(dummiedQueue) <= Pending(PLPtasks, "INITIALIZE") + Posting({"DUMMY"})
DatumCreate == scripts <= Pending(PLPtasks, "CREATE") + Posting({"EJECUTAR"})

\* The invariant, kind by kind,
LEMMA DatumIs == EveryTaskHasItsDatum <=>
                   DatumBlock /\ DatumUnlock /\ DatumEnd /\ DatumInitialize /\ DatumCreate
  BY DEF EveryTaskHasItsDatum, DatumBlock, DatumUnlock, DatumEnd, DatumInitialize, DatumCreate, Ending

\* All that is counted is a number.
LEMMA CountsAre ==
  ASSUME TypeOK, IsFiniteSet(jobs)
  PROVE  /\ \A ms : Posting(ms) \in Nat
         /\ \A u : Pending(PCPtasks, u) \in Nat /\ Pending(PLPtasks, u) \in Nat
         /\ Cardinality(Ending) \in Nat /\ scripts \in Nat
         /\ Len(dummiedQueue) \in Nat /\ Len(toBeBlocked) \in Nat /\ Len(toBeUnlocked) \in Nat
         /\ Len(toBeEnded) \in Nat
<1>1. PCPtasks \in Seq(PCPKinds) /\ "NORMAL" \in PCPKinds /\ PLPtasks \in Seq(PLPKinds) /\ "NORMAL" \in PLPKinds
  BY DEF TypeOK, TasksType, PCPKinds, PLPKinds
<1>2. \A u : Pending(PCPtasks, u) \in Nat /\ Pending(PLPtasks, u) \in Nat
  BY <1>1, PendingAppend
<1>3. \A ms : Posting(ms) \in Nat
  BY PostingIs
<1>4. QED  BY <1>2, <1>3, EndingIs, DataLengths DEF TypeOK, DataType

\* When nothing that is counted changes, each task has its datum as before.
LEMMA DatumFrame ==
  ASSUME EveryTaskHasItsDatum, UNCHANGED data, jobs' = jobs, UNCHANGED tasks
  PROVE  EveryTaskHasItsDatum'
  BY DEF EveryTaskHasItsDatum, data, tasks, Pending, Posting

\* The long-term planner.
LEMMA DatumPLP ==
  ASSUME TypeOK, TypeOK', IsFiniteSet(jobs), EveryTaskHasItsDatum, PLP
  PROVE  EveryTaskHasItsDatum'
<1>1. jobs' = jobs /\ UNCHANGED <<toBeBlocked, toBeUnlocked, toBeEnded>>
  BY JobsAlone DEF PLP, PLPCannotSchedule, PLPTakesDummy, PLPAdmits, PLPCreates, PLPInitializes,
                   PLPInitializeFails, data
<1>2. \A u \in PCPKinds \ {"NORMAL", "LOAD_DUMMY"} : OnlyOthers(u)
  BY DEF PLP, PLPCannotSchedule, PLPTakesDummy, PLPAdmits, PLPCreates, PLPInitializes,
         PLPInitializeFails, AddPCPTask, OnlyOthers, PCPKinds, tasks
<1>3. /\ Pending(PCPtasks, "BLOCK")' = Pending(PCPtasks, "BLOCK")
      /\ Pending(PCPtasks, "UNLOCK")' = Pending(PCPtasks, "UNLOCK")
      /\ Pending(PCPtasks, "END")' = Pending(PCPtasks, "END")
  <2>1. OnlyOthers("BLOCK") /\ OnlyOthers("UNLOCK") /\ OnlyOthers("END")
    BY <1>2 DEF PCPKinds
  <2>2. TasksType
    BY DEF TypeOK
  <2>3. QED  BY <2>1, <2>2, OthersKeep
<1>4. /\ Posting({"BLOCKDTB"})' = Posting({"BLOCKDTB"})
      /\ Posting({"IODONE", "EOQUANTUM"})' = Posting({"IODONE", "EOQUANTUM"})
      /\ Posting({"IOERROR", "EOFORABORT"})' = Posting({"IOERROR", "EOFORABORT"})
      /\ Posting({"DUMMY"})' = Posting({"DUMMY"})
      /\ Posting({"EJECUTAR"})' = Posting({"EJECUTAR"})
      /\ Ending' = Ending
  BY <1>1 DEF Posting, Ending
<1>5. DatumBlock' /\ DatumUnlock' /\ DatumEnd'
  BY <1>1, <1>3, <1>4, DatumIs DEF DatumBlock, DatumUnlock, DatumEnd
<1>6. /\ \A ms : Posting(ms) \in Nat
      /\ Pending(PLPtasks, "INITIALIZE") \in Nat /\ Pending(PLPtasks, "CREATE") \in Nat
      /\ scripts \in Nat /\ Len(dummiedQueue) \in Nat /\ TasksType
  BY CountsAre DEF TypeOK
<1>7. DatumInitialize /\ DatumCreate
  BY DatumIs
<1>8. /\ Pending(PLPtasks, "INITIALIZE")' \in Nat
      /\ Pending(PLPtasks, "CREATE")' \in Nat
  <2>1. PLPtasks' \in Seq(PLPKinds)
    BY DEF TypeOK, TasksType, PLPKinds
  <2>2. "NORMAL" \in PLPKinds
    BY DEF PLPKinds
  <2>3. Pending(PLPtasks', "INITIALIZE") \in Nat /\ Pending(PLPtasks', "CREATE") \in Nat
    BY <2>1, <2>2, PendingAppend
  <2>4. QED  BY <2>3 DEF Pending
<1>9. CASE PLPCannotSchedule \/ PLPTakesDummy
  <2>1. /\ PLPtasks # <<>> /\ Head(PLPtasks) = "NORMAL" /\ PLPtasks' = Tail(PLPtasks)
        /\ dummiedQueue' = dummiedQueue /\ scripts' = scripts
    BY <1>9 DEF PLPCannotSchedule, PLPTakesDummy, PLPTakes, data
  <2>2. /\ Pending(PLPtasks, "INITIALIZE")' = Pending(PLPtasks, "INITIALIZE")
        /\ Pending(PLPtasks, "CREATE")' = Pending(PLPtasks, "CREATE")
    BY <1>6, <2>1, PLPDrops
  <2>3. DatumInitialize' /\ DatumCreate'
    BY <1>4, <1>7, <2>1, <2>2 DEF DatumInitialize, DatumCreate
  <2>4. (DatumBlock /\ DatumUnlock /\ DatumEnd /\ DatumInitialize /\ DatumCreate => EveryTaskHasItsDatum)'
    BY DatumIs, PTL
  <2>5. QED  BY <1>5, <2>3, <2>4
<1>10. CASE PLPAdmits \/ PLPInitializeFails
  <2>1. PLPtasks' = PLPtasks /\ dummiedQueue' = dummiedQueue /\ scripts' = scripts
    BY <1>10 DEF PLPAdmits, PLPInitializeFails, tasks, data
  <2>2. DatumInitialize' /\ DatumCreate'
    BY <1>4, <1>7, <2>1 DEF DatumInitialize, DatumCreate, Pending
  <2>3. (DatumBlock /\ DatumUnlock /\ DatumEnd /\ DatumInitialize /\ DatumCreate => EveryTaskHasItsDatum)'
    BY DatumIs, PTL
  <2>4. QED  BY <1>5, <2>2, <2>3
<1>11. CASE PLPCreates
  <2>1. /\ PLPtasks # <<>> /\ Head(PLPtasks) = "CREATE" /\ PLPtasks' = Append(Tail(PLPtasks), "NORMAL")
        /\ dummiedQueue' = dummiedQueue /\ scripts' = 0
    BY <1>11 DEF PLPCreates, PLPTakes
  <2>2. Pending(PLPtasks, "INITIALIZE")' = Pending(PLPtasks, "INITIALIZE")
    BY <1>6, <2>1, PLPReplaces
  <2>3. DatumInitialize'
    BY <1>4, <1>7, <2>1, <2>2 DEF DatumInitialize
  <2>4. DatumCreate'
    BY <1>4, <1>6, <1>8, <2>1 DEF DatumCreate
  <2>5. (DatumBlock /\ DatumUnlock /\ DatumEnd /\ DatumInitialize /\ DatumCreate => EveryTaskHasItsDatum)'
    BY DatumIs, PTL
  <2>6. QED  BY <1>5, <2>3, <2>4, <2>5
<1>12. CASE PLPInitializes
  <2>1. /\ PLPtasks # <<>> /\ Head(PLPtasks) = "INITIALIZE" /\ PLPtasks' = Append(Tail(PLPtasks), "NORMAL")
        /\ dummiedQueue' = <<>> /\ scripts' = scripts
    BY <1>12 DEF PLPInitializes, PLPTakes
  <2>2. Pending(PLPtasks, "CREATE")' = Pending(PLPtasks, "CREATE")
    BY <1>6, <2>1, PLPReplaces
  <2>3. DatumCreate'
    BY <1>4, <1>7, <2>1, <2>2 DEF DatumCreate
  <2>4. DatumInitialize'
    BY <1>4, <1>6, <1>8, <2>1 DEF DatumInitialize
  <2>5. (DatumBlock /\ DatumUnlock /\ DatumEnd /\ DatumInitialize /\ DatumCreate => EveryTaskHasItsDatum)'
    BY DatumIs, PTL
  <2>6. QED  BY <1>5, <2>3, <2>4, <2>5
<1>13. QED  BY <1>9, <1>10, <1>11, <1>12 DEF PLP

\* The same of the state after a step.
LEMMA DatumIsNext ==
  DatumBlock' /\ DatumUnlock' /\ DatumEnd' /\ DatumInitialize' /\ DatumCreate' => EveryTaskHasItsDatum'
<1>1. (DatumBlock /\ DatumUnlock /\ DatumEnd /\ DatumInitialize /\ DatumCreate => EveryTaskHasItsDatum)'
  BY DatumIs, PTL
<1>2. QED  BY <1>1

\* The short-term planner pops the datum of the task it takes.
LEMMA DatumPCP ==
  ASSUME TypeOK, IsFiniteSet(jobs), EveryTaskHasItsDatum, Next, PCP
  PROVE  EveryTaskHasItsDatum'
<1>1. jobs' = jobs
  BY JobsAlone
<1>2. /\ Posting({"BLOCKDTB"})' = Posting({"BLOCKDTB"})
      /\ Posting({"IODONE", "EOQUANTUM"})' = Posting({"IODONE", "EOQUANTUM"})
      /\ Posting({"IOERROR", "EOFORABORT"})' = Posting({"IOERROR", "EOFORABORT"})
      /\ Posting({"DUMMY"})' = Posting({"DUMMY"})
      /\ Posting({"EJECUTAR"})' = Posting({"EJECUTAR"})
      /\ Ending' = Ending
  BY <1>1 DEF Posting, Ending
<1>3. /\ \A ms : Posting(ms) \in Nat
      /\ \A u : Pending(PCPtasks, u) \in Nat
      /\ Cardinality(Ending) \in Nat /\ TasksType
  BY CountsAre DEF TypeOK
<1>4. PICK pb, pu, pe, n : /\ pb = Posting({"BLOCKDTB"}) /\ pu = Posting({"IODONE", "EOQUANTUM"})
                           /\ pe = Posting({"IOERROR", "EOFORABORT"}) /\ n = Cardinality(Ending)
  OBVIOUS
<1>5. pb \in Nat /\ pu \in Nat /\ pe \in Nat /\ n \in Nat
  BY <1>3, <1>4
<1>6. DatumBlock /\ DatumUnlock /\ DatumEnd /\ DatumInitialize /\ DatumCreate
  BY DatumIs
<1>7. dummiedQueue' = dummiedQueue /\ scripts' = scripts
  BY DEF PCP, PCPDispatches, PCPDispatchesDTB, PCPDispatchesDummy, PCPCannotSchedule, PCPCanSchedule,
         PCPDispatchFails, PCPLoadsDummy, PCPFreesDummy, PCPFreedDummy, PCPBlocks, PCPBlockFails,
         PCPUnlocks, PCPUnlockFails, PCPEnds, PCPEnded, PCPEndFails, data
<1>8. PLPtasks' = PLPtasks \/ PLPtasks' = Append(PLPtasks, "NORMAL")
  BY DEF PCP, PCPDispatches, PCPDispatchesDTB, PCPDispatchesDummy, PCPCannotSchedule, PCPCanSchedule,
         PCPDispatchFails, PCPLoadsDummy, PCPFreesDummy, PCPFreedDummy, PCPBlocks, PCPBlockFails,
         PCPUnlocks, PCPUnlockFails, PCPEnds, PCPEnded, PCPEndFails, tasks, PLPNeeded, AddPLPTask
<1>9. /\ Pending(PLPtasks, "INITIALIZE")' = Pending(PLPtasks, "INITIALIZE")
      /\ Pending(PLPtasks, "CREATE")' = Pending(PLPtasks, "CREATE")
  <2>1. "NORMAL" \in PLPKinds
    BY DEF PLPKinds
  <2>2. Pending(PLPtasks, "INITIALIZE") \in Nat /\ Pending(PLPtasks, "CREATE") \in Nat
    BY CountsAre
  <2>3. CASE PLPtasks' = PLPtasks
    BY <1>3, <2>3, PLPPending
  <2>4. CASE PLPtasks' = Append(PLPtasks, "NORMAL")
    <3>1. /\ Pending(PLPtasks, "INITIALIZE")' = Pending(PLPtasks, "INITIALIZE") + 0
          /\ Pending(PLPtasks, "CREATE")' = Pending(PLPtasks, "CREATE") + 0
      BY <1>3, <2>1, <2>4, PLPPending
    <3>2. QED  BY <2>2, <3>1
  <2>5. QED  BY <1>8, <2>3, <2>4
<1>10. DatumInitialize' /\ DatumCreate'
  BY <1>2, <1>6, <1>7, <1>9 DEF DatumInitialize, DatumCreate
<1>11. /\ OnlyOthers("BLOCK") => Pending(PCPtasks, "BLOCK")' = Pending(PCPtasks, "BLOCK")
       /\ OnlyOthers("UNLOCK") => Pending(PCPtasks, "UNLOCK")' = Pending(PCPtasks, "UNLOCK")
       /\ OnlyOthers("END") => Pending(PCPtasks, "END")' = Pending(PCPtasks, "END")
  BY <1>3, OthersKeep
<1>12. \A j, u : j \in jobs => ~Posts(j, u)
  <2> SUFFICES ASSUME NEW j \in jobs, NEW u, Posts(j, u) PROVE FALSE
    OBVIOUS
  <2>1. Finished(j)
    BY DEF Posts, Comms_DAM_OperationFinished, Comms_DAM_IOError, Comms_CPU_ErrorOrEOF,
           Comms_CPU_DummyAtDAM, Comms_CPU_DTBAtDAM, Comms_CPU_OutOfQuantum, CommandFinalizarPosts
  <2>2. QED  BY <1>1, <2>1 DEF Finished
<1>13. \A u \in {"BLOCK", "UNLOCK", "END"} : OnlyOthers(u) \/ Takes(u)
  <2> TAKE u \in {"BLOCK", "UNLOCK", "END"}
  <2>1. u \in PCPKinds /\ u # "NORMAL" /\ u # "LOAD_DUMMY" /\ [Next]_vars
    BY DEF PCPKinds
  <2>2. QED  BY <1>12, <2>1, AboutTasks DEF About
<1>14. \A q \in {toBeBlocked, toBeUnlocked, toBeEnded} :
          Len(q) \in Nat /\ (Len(q) > 0 => Len(Popped(q)) = Len(q) - 1)
  BY DataLengths
<1>15. CASE PCPBlocks
  <2>1. /\ PCPTakes("BLOCK") /\ PCPReplans /\ toBeBlocked' = Popped(toBeBlocked)
        /\ toBeUnlocked' = toBeUnlocked /\ toBeEnded' = toBeEnded
    BY <1>15 DEF PCPBlocks
  <2>2. "BLOCK" \in PCPKinds
    BY DEF PCPKinds
  <2>3. Pending(PCPtasks, "BLOCK")' = Pending(PCPtasks, "BLOCK") - 1 /\ Pending(PCPtasks, "BLOCK")' \in Nat
    BY <1>3, <2>1, <2>2, TakesOne
  <2>4. DatumUnlock' /\ DatumEnd'
    <3>1. OnlyOthers("UNLOCK") /\ OnlyOthers("END")
      BY <2>1 DEF OnlyOthers, PCPTakes
    <3>2. QED  BY <1>2, <1>6, <1>11, <2>1, <3>1 DEF DatumUnlock, DatumEnd
  <2>5. DatumBlock'
    <3>1. PICK l, p : l = Len(toBeBlocked) /\ p = Pending(PCPtasks, "BLOCK")
      OBVIOUS
    <3>2. l \in Nat /\ p \in Nat /\ p - 1 \in Nat /\ l = p + pb
      BY <1>3, <1>4, <1>6, <1>14, <2>3, <3>1 DEF DatumBlock
    <3>3. l > 0 /\ l - 1 = (p - 1) + pb
      BY <1>5, <3>2
    <3>4. Len(toBeBlocked') = l - 1
      BY <1>14, <2>1, <3>1, <3>3
    <3>5. QED  BY <1>2, <1>4, <2>3, <3>1, <3>3, <3>4 DEF DatumBlock
  <2>6. QED  BY <1>10, <2>4, <2>5, DatumIsNext
<1>16. CASE PCPUnlocks
  <2>1. /\ PCPTakes("UNLOCK") /\ PCPReplans /\ toBeUnlocked' = Popped(toBeUnlocked)
        /\ toBeBlocked' = toBeBlocked /\ toBeEnded' = toBeEnded
    BY <1>16 DEF PCPUnlocks
  <2>2. "UNLOCK" \in PCPKinds
    BY DEF PCPKinds
  <2>3. Pending(PCPtasks, "UNLOCK")' = Pending(PCPtasks, "UNLOCK") - 1 /\ Pending(PCPtasks, "UNLOCK")' \in Nat
    BY <1>3, <2>1, <2>2, TakesOne
  <2>4. DatumBlock' /\ DatumEnd'
    <3>1. OnlyOthers("BLOCK") /\ OnlyOthers("END")
      BY <2>1 DEF OnlyOthers, PCPTakes
    <3>2. QED  BY <1>2, <1>6, <1>11, <2>1, <3>1 DEF DatumBlock, DatumEnd
  <2>5. DatumUnlock'
    <3>1. PICK l, p : l = Len(toBeUnlocked) /\ p = Pending(PCPtasks, "UNLOCK")
      OBVIOUS
    <3>2. l \in Nat /\ p \in Nat /\ p - 1 \in Nat /\ l = p + pu
      BY <1>3, <1>4, <1>6, <1>14, <2>3, <3>1 DEF DatumUnlock
    <3>3. l > 0 /\ l - 1 = (p - 1) + pu
      BY <1>5, <3>2
    <3>4. Len(toBeUnlocked') = l - 1
      BY <1>14, <2>1, <3>1, <3>3
    <3>5. QED  BY <1>2, <1>4, <2>3, <3>1, <3>3, <3>4 DEF DatumUnlock
  <2>6. QED  BY <1>10, <2>4, <2>5, DatumIsNext
<1>17. CASE PCPEnds
  <2>1. /\ PCPTakes("END") /\ PCPtasks' = Tail(PCPtasks) /\ toBeEnded' = Popped(toBeEnded)
        /\ toBeBlocked' = toBeBlocked /\ toBeUnlocked' = toBeUnlocked
    BY <1>17 DEF PCPEnds
  <2>2. "END" \in PCPKinds
    BY DEF PCPKinds
  <2>3. Pending(PCPtasks, "END")' = Pending(PCPtasks, "END") - 1 /\ Pending(PCPtasks, "END")' \in Nat
    BY <1>3, <2>1, <2>2, TakesOne
  <2>4. DatumBlock' /\ DatumUnlock'
    <3>1. OnlyOthers("BLOCK") /\ OnlyOthers("UNLOCK")
      BY <2>1 DEF OnlyOthers, PCPTakes
    <3>2. QED  BY <1>2, <1>6, <1>11, <2>1, <3>1 DEF DatumBlock, DatumUnlock
  <2>5. DatumEnd'
    <3>1. PICK l, p : l = Len(toBeEnded) /\ p = Pending(PCPtasks, "END")
      OBVIOUS
    <3>2. l \in Nat /\ p \in Nat /\ p - 1 \in Nat /\ l = p + pe + n
      BY <1>3, <1>4, <1>6, <1>14, <2>3, <3>1 DEF DatumEnd
    <3>3. l > 0 /\ l - 1 = (p - 1) + pe + n
      BY <1>5, <3>2
    <3>4. Len(toBeEnded') = l - 1
      BY <1>14, <2>1, <3>1, <3>3
    <3>5. Cardinality(Ending)' = n
      BY <1>2, <1>4
    <3>6. QED  BY <1>2, <1>4, <2>3, <3>1, <3>3, <3>4, <3>5 DEF DatumEnd
  <2>6. QED  BY <1>10, <2>4, <2>5, DatumIsNext
<1>18. CASE ~PCPBlocks /\ ~PCPUnlocks /\ ~PCPEnds
  <2>1. toBeBlocked' = toBeBlocked /\ toBeUnlocked' = toBeUnlocked /\ toBeEnded' = toBeEnded
    BY <1>18
    DEF PCP, PCPDispatches, PCPDispatchesDTB, PCPDispatchesDummy, PCPCannotSchedule, PCPCanSchedule,
        PCPDispatchFails, PCPLoadsDummy, PCPFreesDummy, PCPFreedDummy, PCPBlockFails,
        PCPUnlockFails, PCPEnded, PCPEndFails, data
  <2>2. OnlyOthers("BLOCK") /\ OnlyOthers("UNLOCK") /\ OnlyOthers("END")
    BY <1>13, <1>18 DEF Takes
  <2>3. DatumBlock' /\ DatumUnlock' /\ DatumEnd'
    BY <1>2, <1>6, <1>11, <2>1, <2>2 DEF DatumBlock, DatumUnlock, DatumEnd
  <2>4. QED  BY <1>10, <2>3, DatumIsNext
<1>19. QED  BY <1>15, <1>16, <1>17, <1>18

\* A handler pushes its datum with the announcement of its task ...
LEMMA DatumPushes ==
  ASSUME TypeOK, IsFiniteSet(jobs), NoTwins, EveryTaskHasItsDatum,
         NEW j \in jobs, Handler(j), j.at = "start"
  PROVE  EveryTaskHasItsDatum'
<1>1. /\ Pushed(j) /\ j.msg \notin {"EJECUTAR", "FINALIZAR"}
      /\ UNCHANGED <<PCPtasks, PLPtasks, scripts>>
      /\ toBeBlocked' = IF j.msg = "BLOCKDTB" THEN Append(toBeBlocked, j.id) ELSE toBeBlocked
      /\ toBeUnlocked' = IF j.msg \in {"IODONE", "EOQUANTUM"} THEN Append(toBeUnlocked, j.id)
                                                              ELSE toBeUnlocked
      /\ toBeEnded' = IF j.msg \in {"IOERROR", "EOFORABORT"} THEN Append(toBeEnded, j.id)
                                                             ELSE toBeEnded
      /\ dummiedQueue' = IF j.msg = "DUMMY" THEN Append(dummiedQueue, j.id) ELSE dummiedQueue
  BY HandlerPushes
<1>2. j \in Jobs /\ OutsideType
  BY DEF TypeOK, OutsideType
<1>3. PICK k : k = [j EXCEPT !.at = "post"]
  OBVIOUS
<1>4. Key(k) = Key(j) /\ k.at = "post" /\ k.msg = j.msg /\ j.id \in Ids
  BY <1>2, <1>3 DEF Key, Jobs
<1>5. k \notin jobs
  BY <1>4 DEF NoTwins
<1>6. \A ms : Posting(ms) \in Nat
  BY PostingIs
<1>7. /\ Posting({"BLOCKDTB"})' = Posting({"BLOCKDTB"}) + (IF j.msg \in {"BLOCKDTB"} THEN 1 ELSE 0)
      /\ Posting({"IODONE", "EOQUANTUM"})'
           = Posting({"IODONE", "EOQUANTUM"}) + (IF j.msg \in {"IODONE", "EOQUANTUM"} THEN 1 ELSE 0)
      /\ Posting({"IOERROR", "EOFORABORT"})'
           = Posting({"IOERROR", "EOFORABORT"}) + (IF j.msg \in {"IOERROR", "EOFORABORT"} THEN 1 ELSE 0)
      /\ Posting({"DUMMY"})' = Posting({"DUMMY"}) + (IF j.msg \in {"DUMMY"} THEN 1 ELSE 0)
      /\ Posting({"EJECUTAR"})' = Posting({"EJECUTAR"}) + (IF j.msg \in {"EJECUTAR"} THEN 1 ELSE 0)
  <2>1. [j EXCEPT !.at = "post"] \notin jobs
    BY <1>3, <1>5
  <2>2. QED  BY <1>1, <1>2, <2>1, PostingPushed
<1>8. Ending' = Ending
  BY <1>1, <1>3, <1>4 DEF Ending, Pushed
<1>9. /\ \A u : Pending(PCPtasks, u) \in Nat /\ Pending(PLPtasks, u) \in Nat
      /\ Cardinality(Ending) \in Nat
  BY CountsAre
<1>10. /\ Pending(PCPtasks, "BLOCK")' = Pending(PCPtasks, "BLOCK")
       /\ Pending(PCPtasks, "UNLOCK")' = Pending(PCPtasks, "UNLOCK")
       /\ Pending(PCPtasks, "END")' = Pending(PCPtasks, "END")
       /\ Pending(PLPtasks, "INITIALIZE")' = Pending(PLPtasks, "INITIALIZE")
       /\ Pending(PLPtasks, "CREATE")' = Pending(PLPtasks, "CREATE")
  BY <1>1 DEF Pending
<1>11. \A q \in {dummiedQueue, toBeBlocked, toBeUnlocked, toBeEnded} :
          Len(q) \in Nat /\ Len(Append(q, j.id)) = Len(q) + 1
  BY <1>4, DataLengths
<1>12. DatumBlock /\ DatumUnlock /\ DatumEnd /\ DatumInitialize /\ DatumCreate
  BY DatumIs
<1>13. DatumBlock'
  <2>1. PICK p, q : p = Pending(PCPtasks, "BLOCK") /\ q = Posting({"BLOCKDTB"})
    OBVIOUS
  <2>2. p \in Nat /\ q \in Nat /\ Len(toBeBlocked) = p + q
    BY <1>6, <1>9, <1>12, <2>1 DEF DatumBlock
  <2>3. PICK i : i = IF j.msg = "BLOCKDTB" THEN 1 ELSE 0
    OBVIOUS
  <2>4. Posting({"BLOCKDTB"})' = q + i
    BY <1>7, <2>1, <2>3
  <2>5. Len(toBeBlocked') = p + (q + i)
    BY <1>1, <1>11, <2>2, <2>3
  <2>6. QED  BY <1>10, <2>1, <2>4, <2>5 DEF DatumBlock
<1>14. DatumUnlock'
  <2>1. PICK p, q : p = Pending(PCPtasks, "UNLOCK") /\ q = Posting({"IODONE", "EOQUANTUM"})
    OBVIOUS
  <2>2. p \in Nat /\ q \in Nat /\ Len(toBeUnlocked) = p + q
    BY <1>6, <1>9, <1>12, <2>1 DEF DatumUnlock
  <2>3. PICK i : i = IF j.msg \in {"IODONE", "EOQUANTUM"} THEN 1 ELSE 0
    OBVIOUS
  <2>4. Posting({"IODONE", "EOQUANTUM"})' = q + i
    BY <1>7, <2>1, <2>3
  <2>5. Len(toBeUnlocked') = p + (q + i)
    BY <1>1, <1>11, <2>2, <2>3
  <2>6. QED  BY <1>10, <2>1, <2>4, <2>5 DEF DatumUnlock
<1>15. DatumEnd'
  <2>1. Cardinality(Ending)' = Cardinality(Ending)
    BY <1>8
  <2>2. PICK p, q, e : /\ p = Pending(PCPtasks, "END") /\ q = Posting({"IOERROR", "EOFORABORT"})
                       /\ e = Cardinality(Ending)
    OBVIOUS
  <2>3. p \in Nat /\ q \in Nat /\ e \in Nat /\ Len(toBeEnded) = p + q + e
    BY <1>6, <1>9, <1>12, <2>2 DEF DatumEnd
  <2>4. Len(toBeEnded') = Len(toBeEnded) + (IF j.msg \in {"IOERROR", "EOFORABORT"} THEN 1 ELSE 0)
    BY <1>1, <1>11
  <2>5. Len(toBeEnded') = p + (q + (IF j.msg \in {"IOERROR", "EOFORABORT"} THEN 1 ELSE 0)) + e
    BY <2>3, <2>4
  <2>6. QED  BY <1>7, <1>10, <2>1, <2>2, <2>5 DEF DatumEnd
<1>16. DatumInitialize'
  BY <1>1, <1>6, <1>7, <1>9, <1>10, <1>11, <1>12 DEF DatumInitialize
<1>17. DatumCreate'
  <2>1. PICK p : p = Posting({"EJECUTAR"})
    OBVIOUS
  <2>2. p \in Nat
    BY <1>6, <2>1
  <2>3. Posting({"EJECUTAR"})' = p + (IF j.msg \in {"EJECUTAR"} THEN 1 ELSE 0)
    BY <1>7, <2>1
  <2>4. j.msg \notin {"EJECUTAR"}
    BY <1>1
  <2>5. Posting({"EJECUTAR"})' = p
    BY <2>2, <2>3, <2>4
  <2>6. QED  BY <1>1, <1>10, <1>12, <2>1, <2>5 DEF DatumCreate
<1>18. QED  BY <1>13, <1>14, <1>15, <1>16, <1>17, DatumIsNext

\* ... and posts the task, which is then pending.
LEMMA DatumPosts ==
  ASSUME TypeOK, IsFiniteSet(jobs), EveryTaskHasItsDatum, NEW j \in jobs, Handler(j), j.at = "post"
  PROVE  EveryTaskHasItsDatum'
<1>1. /\ Finished(j) /\ j.msg \notin {"EJECUTAR", "FINALIZAR"}
      /\ \/ j.msg = "DUMMY" /\ PCPtasks' = PCPtasks /\ PLPtasks' = Append(PLPtasks, "INITIALIZE")
         \/ /\ j.msg \in {"BLOCKDUMMY", "BLOCKDTB", "IODONE", "EOQUANTUM", "IOERROR", "EOFORABORT"}
            /\ PCPtasks' = Append(PCPtasks, TaskOf(j.msg)) /\ PLPtasks' = PLPtasks
  BY HandlerPosts
<1>2. /\ toBeBlocked' = toBeBlocked /\ toBeUnlocked' = toBeUnlocked /\ toBeEnded' = toBeEnded
      /\ dummiedQueue' = dummiedQueue /\ scripts' = scripts
  BY HandlerPosts DEF data
<1>3. \A ms : Posting(ms) \in Nat
  BY PostingIs
<1>4. /\ Posting({"BLOCKDTB"})' = Posting({"BLOCKDTB"}) - (IF j.msg \in {"BLOCKDTB"} THEN 1 ELSE 0)
      /\ Posting({"IODONE", "EOQUANTUM"})'
           = Posting({"IODONE", "EOQUANTUM"}) - (IF j.msg \in {"IODONE", "EOQUANTUM"} THEN 1 ELSE 0)
      /\ Posting({"IOERROR", "EOFORABORT"})'
           = Posting({"IOERROR", "EOFORABORT"}) - (IF j.msg \in {"IOERROR", "EOFORABORT"} THEN 1 ELSE 0)
      /\ Posting({"DUMMY"})' = Posting({"DUMMY"}) - (IF j.msg \in {"DUMMY"} THEN 1 ELSE 0)
      /\ Posting({"EJECUTAR"})' = Posting({"EJECUTAR"}) - (IF j.msg \in {"EJECUTAR"} THEN 1 ELSE 0)
  BY <1>1, PostingFinished
<1>5. Ending' = Ending
  BY <1>1 DEF Ending, Finished
<1>6. /\ \A u : Pending(PCPtasks, u) \in Nat /\ Pending(PLPtasks, u) \in Nat
      /\ Cardinality(Ending) \in Nat /\ TasksType
  BY CountsAre DEF TypeOK
<1>7. DatumBlock /\ DatumUnlock /\ DatumEnd /\ DatumInitialize /\ DatumCreate
  BY DatumIs
<1>8. CASE j.msg = "DUMMY"
  <2>1. PCPtasks' = PCPtasks /\ PLPtasks' = Append(PLPtasks, "INITIALIZE") /\ "INITIALIZE" \in PLPKinds
    BY <1>1, <1>8 DEF PLPKinds
  <2>2. /\ Pending(PLPtasks, "INITIALIZE")' = Pending(PLPtasks, "INITIALIZE") + 1
        /\ Pending(PLPtasks, "CREATE")' = Pending(PLPtasks, "CREATE") + 0
    BY <1>6, <2>1, PLPPending
  <2>3. DatumBlock' /\ DatumUnlock' /\ DatumEnd'
    <3>1. /\ Pending(PCPtasks, "BLOCK")' = Pending(PCPtasks, "BLOCK")
          /\ Pending(PCPtasks, "UNLOCK")' = Pending(PCPtasks, "UNLOCK")
          /\ Pending(PCPtasks, "END")' = Pending(PCPtasks, "END")
      BY <2>1 DEF Pending
    <3>2. /\ Posting({"BLOCKDTB"})' = Posting({"BLOCKDTB"})
          /\ Posting({"IODONE", "EOQUANTUM"})' = Posting({"IODONE", "EOQUANTUM"})
          /\ Posting({"IOERROR", "EOFORABORT"})' = Posting({"IOERROR", "EOFORABORT"})
      BY <1>3, <1>4, <1>8
    <3>3. QED  BY <1>2, <1>5, <1>7, <3>1, <3>2 DEF DatumBlock, DatumUnlock, DatumEnd
  <2>4. DatumInitialize'
    BY <1>2, <1>3, <1>4, <1>6, <1>7, <1>8, <2>2, DataLengths DEF DatumInitialize
  <2>5. DatumCreate'
    BY <1>2, <1>3, <1>4, <1>6, <1>7, <1>8, <2>2 DEF DatumCreate
  <2>6. QED  BY <2>3, <2>4, <2>5, DatumIsNext
<1>9. CASE j.msg # "DUMMY"
  <2>1. /\ PCPtasks' = Append(PCPtasks, TaskOf(j.msg)) /\ PLPtasks' = PLPtasks
        /\ j.msg \in {"BLOCKDUMMY", "BLOCKDTB", "IODONE", "EOQUANTUM", "IOERROR", "EOFORABORT"}
    BY <1>1, <1>9
  <2>2. /\ TaskOf(j.msg) \in PCPKinds
        /\ TaskOf(j.msg) = "BLOCK" <=> j.msg \in {"BLOCKDTB"}
        /\ TaskOf(j.msg) = "UNLOCK" <=> j.msg \in {"IODONE", "EOQUANTUM"}
        /\ TaskOf(j.msg) = "END" <=> j.msg \in {"IOERROR", "EOFORABORT"}
    BY <2>1 DEF TaskOf, PCPKinds
  <2>3. PICK t : t = TaskOf(j.msg)
    OBVIOUS
  <2>4. \A u : Pending(Append(PCPtasks, t), u) = Pending(PCPtasks, u) + (IF t = u THEN 1 ELSE 0)
    <3>1. PCPtasks \in Seq(PCPKinds) /\ t \in PCPKinds
      BY <1>6, <2>2, <2>3 DEF TasksType, PCPKinds
    <3>2. QED  BY <3>1, PendingAppend
  <2>5. /\ Pending(PCPtasks, "BLOCK")' = Pending(PCPtasks, "BLOCK") + (IF t = "BLOCK" THEN 1 ELSE 0)
        /\ Pending(PCPtasks, "UNLOCK")' = Pending(PCPtasks, "UNLOCK") + (IF t = "UNLOCK" THEN 1 ELSE 0)
        /\ Pending(PCPtasks, "END")' = Pending(PCPtasks, "END") + (IF t = "END" THEN 1 ELSE 0)
    <3>1. \A u : Pending(PCPtasks', u) = Pending(PCPtasks, u) + (IF t = u THEN 1 ELSE 0)
      BY <2>1, <2>3, <2>4
    <3>2. QED  BY <3>1 DEF Pending
  <2>6. DatumBlock'
    BY <1>2, <1>3, <1>4, <1>6, <1>7, <2>2, <2>3, <2>5 DEF DatumBlock
  <2>7. DatumUnlock'
    BY <1>2, <1>3, <1>4, <1>6, <1>7, <2>2, <2>3, <2>5 DEF DatumUnlock
  <2>8. DatumEnd'
    <3>1. PICK p, q, e : /\ p = Pending(PCPtasks, "END") /\ q = Posting({"IOERROR", "EOFORABORT"})
                         /\ e = Cardinality(Ending)
      OBVIOUS
    <3>2. p \in Nat /\ q \in Nat /\ e \in Nat /\ Len(toBeEnded) = p + q + e
      BY <1>3, <1>6, <1>7, <3>1 DEF DatumEnd
    <3>3. PICK i : i = IF t = "END" THEN 1 ELSE 0
      OBVIOUS
    <3>4. i \in Int /\ p + q + e = (p + i) + (q - i) + e
      BY <3>2, <3>3
    <3>5. Pending(PCPtasks, "END")' = p + i /\ Posting({"IOERROR", "EOFORABORT"})' = q - i
      BY <1>4, <2>2, <2>3, <2>5, <3>1, <3>3
    <3>6. Cardinality(Ending)' = e /\ Len(toBeEnded') = p + q + e
      BY <1>2, <1>5, <3>1, <3>2
    <3>7. QED  BY <3>4, <3>5, <3>6 DEF DatumEnd
  <2>9. DatumInitialize' /\ DatumCreate'
    <3>1. /\ Pending(PLPtasks, "INITIALIZE")' = Pending(PLPtasks, "INITIALIZE")
          /\ Pending(PLPtasks, "CREATE")' = Pending(PLPtasks, "CREATE")
      BY <2>1 DEF Pending
    <3>2. /\ Posting({"DUMMY"})' = Posting({"DUMMY"})
          /\ Posting({"EJECUTAR"})' = Posting({"EJECUTAR"})
      BY <1>1, <1>3, <1>4, <1>9
    <3>3. QED  BY <1>2, <1>7, <3>1, <3>2 DEF DatumInitialize, DatumCreate
  <2>10. QED  BY <2>6, <2>7, <2>8, <2>9, DatumIsNext
<1>10. QED  BY <1>8, <1>9

\* A message that comes owes nothing yet.
LEMMA DatumArrives ==
  ASSUME EveryTaskHasItsDatum, UNCHANGED <<data, tasks>>, NEW k, jobs' = jobs \cup {k},
         k.at = "start", k.msg # "FINALIZAR"
  PROVE  EveryTaskHasItsDatum'
<1>1. \A ms : PostingOf(ms)' = PostingOf(ms)
  BY DEF PostingOf
<1>2. Posting({"BLOCKDTB"})' = Posting({"BLOCKDTB"})
      /\ Posting({"IODONE", "EOQUANTUM"})' = Posting({"IODONE", "EOQUANTUM"})
      /\ Posting({"IOERROR", "EOFORABORT"})' = Posting({"IOERROR", "EOFORABORT"})
      /\ Posting({"DUMMY"})' = Posting({"DUMMY"})
      /\ Posting({"EJECUTAR"})' = Posting({"EJECUTAR"})
  BY DEF Posting
<1>3. Ending' = Ending
  BY DEF Ending
<1>4. /\ Pending(PCPtasks, "BLOCK")' = Pending(PCPtasks, "BLOCK")
      /\ Pending(PCPtasks, "UNLOCK")' = Pending(PCPtasks, "UNLOCK")
      /\ Pending(PCPtasks, "END")' = Pending(PCPtasks, "END")
      /\ Pending(PLPtasks, "INITIALIZE")' = Pending(PLPtasks, "INITIALIZE")
      /\ Pending(PLPtasks, "CREATE")' = Pending(PLPtasks, "CREATE")
  BY DEF Pending, tasks
<1>5. DatumBlock /\ DatumUnlock /\ DatumEnd /\ DatumInitialize /\ DatumCreate
  BY DatumIs
<1>6. DatumBlock' /\ DatumUnlock' /\ DatumEnd' /\ DatumInitialize' /\ DatumCreate'
  BY <1>2, <1>3, <1>4, <1>5 DEF DatumBlock, DatumUnlock, DatumEnd, DatumInitialize, DatumCreate, data
<1>7. QED  BY <1>6, DatumIsNext

\* What a command pushes, and what it announces.
LEMMA DatumTyped ==
  ASSUME TypeOK, IsFiniteSet(jobs), Numbers, EveryTaskHasItsDatum, Console
  PROVE  EveryTaskHasItsDatum'
<1>1. \A ms : Posting(ms) \in Nat
  BY PostingIs
<1>2. /\ \A u : Pending(PCPtasks, u) \in Nat /\ Pending(PLPtasks, u) \in Nat
      /\ Cardinality(Ending) \in Nat /\ scripts \in Nat /\ IsFiniteSet(Ending)
  BY CountsAre, EndingIs
<1>3. DatumBlock /\ DatumUnlock /\ DatumEnd /\ DatumInitialize /\ DatumCreate
  BY DatumIs
<1>4. tasks' = tasks
  BY DEF Console, CommandEjecutar, CommandFinalizar
<1>5. /\ Pending(PCPtasks, "BLOCK")' = Pending(PCPtasks, "BLOCK")
      /\ Pending(PCPtasks, "UNLOCK")' = Pending(PCPtasks, "UNLOCK")
      /\ Pending(PCPtasks, "END")' = Pending(PCPtasks, "END")
      /\ Pending(PLPtasks, "INITIALIZE")' = Pending(PLPtasks, "INITIALIZE")
      /\ Pending(PLPtasks, "CREATE")' = Pending(PLPtasks, "CREATE")
  BY <1>4 DEF Pending, tasks
<1>6. \A j \in jobs : j.n \in Nat /\ j.id \in Nat
  BY IdRange DEF TypeOK, OutsideType, Jobs
<1>7. CASE CommandEjecutar
  <2>1. PICK k : /\ k = [msg |-> "EJECUTAR", id |-> nextID + scripts, cpu |-> NoCPU, n |-> 0,
                        at |-> "post"]
                 /\ jobs' = jobs \cup {k}
    BY <1>7 DEF CommandEjecutar
  <2>2. k.msg = "EJECUTAR" /\ k.at = "post" /\ k.id = nextID + scripts
    BY <2>1
  <2>3. k \notin jobs
    <3>1. \A j \in jobs : j.msg = "EJECUTAR" => j.id < nextID + scripts
      BY DEF Numbers, NumbersJobs
    <3>2. PICK a : a = nextID + scripts
      OBVIOUS
    <3>3. \A j \in jobs : j.msg = "EJECUTAR" => j.id < a
      BY <3>1, <3>2
    <3>4. k \in jobs => FALSE
      BY <1>6, <2>2, <3>2, <3>3
    <3>5. QED  BY <3>4
  <2>4. /\ toBeBlocked' = toBeBlocked /\ toBeUnlocked' = toBeUnlocked /\ toBeEnded' = toBeEnded
        /\ dummiedQueue' = dummiedQueue /\ scripts' = scripts + 1
    BY <1>7 DEF CommandEjecutar
  <2>5. /\ Posting({"BLOCKDTB"})' = Posting({"BLOCKDTB"}) + (IF k.msg \in {"BLOCKDTB"} THEN 1 ELSE 0)
        /\ Posting({"IODONE", "EOQUANTUM"})'
             = Posting({"IODONE", "EOQUANTUM"}) + (IF k.msg \in {"IODONE", "EOQUANTUM"} THEN 1 ELSE 0)
        /\ Posting({"IOERROR", "EOFORABORT"})'
             = Posting({"IOERROR", "EOFORABORT"}) + (IF k.msg \in {"IOERROR", "EOFORABORT"} THEN 1 ELSE 0)
        /\ Posting({"DUMMY"})' = Posting({"DUMMY"}) + (IF k.msg \in {"DUMMY"} THEN 1 ELSE 0)
        /\ Posting({"EJECUTAR"})' = Posting({"EJECUTAR"}) + (IF k.msg \in {"EJECUTAR"} THEN 1 ELSE 0)
    BY <2>1, <2>2, <2>3, PostingTyped
  <2>6. /\ Posting({"BLOCKDTB"})' = Posting({"BLOCKDTB"})
        /\ Posting({"IODONE", "EOQUANTUM"})' = Posting({"IODONE", "EOQUANTUM"})
        /\ Posting({"IOERROR", "EOFORABORT"})' = Posting({"IOERROR", "EOFORABORT"})
        /\ Posting({"DUMMY"})' = Posting({"DUMMY"})
        /\ Posting({"EJECUTAR"})' = Posting({"EJECUTAR"}) + 1
    BY <1>1, <2>2, <2>5
  <2>7. Ending' = Ending
    BY <2>1, <2>2 DEF Ending
  <2>8. DatumBlock' /\ DatumUnlock' /\ DatumEnd' /\ DatumInitialize'
    BY <1>3, <1>5, <2>4, <2>6, <2>7 DEF DatumBlock, DatumUnlock, DatumEnd, DatumInitialize
  <2>9. DatumCreate'
    <3>1. PICK p, q : p = Pending(PLPtasks, "CREATE") /\ q = Posting({"EJECUTAR"})
      OBVIOUS
    <3>2. p \in Nat /\ q \in Nat /\ scripts <= p + q
      BY <1>1, <1>2, <1>3, <3>1 DEF DatumCreate
    <3>3. scripts + 1 <= p + (q + 1)
      BY <1>2, <3>2
    <3>4. QED  BY <1>5, <2>4, <2>6, <3>1, <3>3 DEF DatumCreate
  <2>10. QED  BY <2>8, <2>9, DatumIsNext
<1>8. CASE \E id \in 0..MaxDTB : CommandFinalizar(id)
  <2>1. PICK id \in 0..MaxDTB : CommandFinalizar(id)
    BY <1>8
  <2>2. PICK k : k = [msg |-> "FINALIZAR", id |-> id, cpu |-> NoCPU, n |-> finalizars, at |-> "start"]
    OBVIOUS
  <2>3. /\ k.msg = "FINALIZAR" /\ k.at = "start" /\ k.n = finalizars /\ jobs' = jobs \cup {k}
        /\ toBeBlocked' = toBeBlocked /\ toBeUnlocked' = toBeUnlocked
        /\ toBeEnded' = Append(toBeEnded, id)
        /\ dummiedQueue' = dummiedQueue /\ scripts' = scripts
    BY <2>1, <2>2 DEF CommandFinalizar
  <2>4. k \notin jobs
    <3>1. \A j \in jobs : j.msg = "FINALIZAR" => j.n > finalizars
      BY DEF Numbers, NumbersJobs
    <3>2. k \in jobs => FALSE
      BY <1>6, <2>3, <3>1
    <3>3. QED  BY <3>2
  <2>5. /\ Posting({"BLOCKDTB"})' = Posting({"BLOCKDTB"})
        /\ Posting({"IODONE", "EOQUANTUM"})' = Posting({"IODONE", "EOQUANTUM"})
        /\ Posting({"IOERROR", "EOFORABORT"})' = Posting({"IOERROR", "EOFORABORT"})
        /\ Posting({"DUMMY"})' = Posting({"DUMMY"})
        /\ Posting({"EJECUTAR"})' = Posting({"EJECUTAR"})
    BY <2>3, PostingArrives
  <2>6. Cardinality(Ending)' = Cardinality(Ending) + 1
    <3>1. PICK E : E = Ending
      OBVIOUS
    <3>2. Ending' = E \cup {k} /\ k \notin E /\ IsFiniteSet(E)
      BY <1>2, <2>3, <2>4, <3>1 DEF Ending
    <3>3. Cardinality(E \cup {k}) = Cardinality(E) + 1
      BY <3>2, FS_AddElement
    <3>4. QED  BY <3>1, <3>2, <3>3
  <2>7. Len(toBeEnded) \in Nat /\ Len(toBeEnded') = Len(toBeEnded) + 1
    BY <2>3, DataLengths DEF Ids
  <2>8. DatumBlock' /\ DatumUnlock' /\ DatumInitialize' /\ DatumCreate'
    BY <1>3, <1>5, <2>3, <2>5 DEF DatumBlock, DatumUnlock, DatumInitialize, DatumCreate
  <2>9. DatumEnd'
    <3>1. PICK p, q, e : /\ p = Pending(PCPtasks, "END") /\ q = Posting({"IOERROR", "EOFORABORT"})
                         /\ e = Cardinality(Ending)
      OBVIOUS
    <3>2. p \in Nat /\ q \in Nat /\ e \in Nat /\ Len(toBeEnded) = p + q + e
      BY <1>1, <1>2, <1>3, <3>1 DEF DatumEnd
    <3>3. Len(toBeEnded') = p + q + (e + 1)
      BY <2>7, <3>2
    <3>4. QED  BY <1>5, <2>5, <2>6, <3>1, <3>3 DEF DatumEnd
  <2>10. QED  BY <2>8, <2>9, DatumIsNext
<1>9. QED  BY <1>7, <1>8 DEF Console

\* How a command goes on.
LEMMA DatumCommand ==
  ASSUME TypeOK, IsFiniteSet(jobs), Numbers, NoTwins, EveryTaskHasItsDatum,
         NEW j \in jobs, ConsoleJob(j)
  PROVE  EveryTaskHasItsDatum'
<1>1. \A ms : Posting(ms) \in Nat
  BY PostingIs
<1>2. /\ \A u : Pending(PCPtasks, u) \in Nat /\ Pending(PLPtasks, u) \in Nat
      /\ Cardinality(Ending) \in Nat /\ scripts \in Nat /\ IsFiniteSet(Ending) /\ TasksType
  BY CountsAre, EndingIs DEF TypeOK
<1>3. DatumBlock /\ DatumUnlock /\ DatumEnd /\ DatumInitialize /\ DatumCreate
  BY DatumIs
<1>4. /\ toBeBlocked' = toBeBlocked /\ toBeUnlocked' = toBeUnlocked /\ toBeEnded' = toBeEnded
      /\ dummiedQueue' = dummiedQueue /\ scripts' = scripts
  BY DEF ConsoleJob, CommandEjecutarPosts, CommandFinalizarTakesCPU, CommandFinalizarFails,
         CommandFinalizarPosts, data
<1>5. PICK E : E = Ending
  OBVIOUS
<1>6. CASE CommandEjecutarPosts(j)
  <2>1. /\ j.msg = "EJECUTAR" /\ j.at = "post" /\ Finished(j)
        /\ PCPtasks' = PCPtasks /\ PLPtasks' = Append(PLPtasks, "CREATE") /\ "CREATE" \in PLPKinds
    BY <1>6 DEF CommandEjecutarPosts, AddPLPTask, Numbers, NumbersJobs, PLPKinds
  <2>2. /\ Posting({"BLOCKDTB"})' = Posting({"BLOCKDTB"}) - (IF j.msg \in {"BLOCKDTB"} THEN 1 ELSE 0)
        /\ Posting({"IODONE", "EOQUANTUM"})'
             = Posting({"IODONE", "EOQUANTUM"}) - (IF j.msg \in {"IODONE", "EOQUANTUM"} THEN 1 ELSE 0)
        /\ Posting({"IOERROR", "EOFORABORT"})'
             = Posting({"IOERROR", "EOFORABORT"}) - (IF j.msg \in {"IOERROR", "EOFORABORT"} THEN 1 ELSE 0)
        /\ Posting({"DUMMY"})' = Posting({"DUMMY"}) - (IF j.msg \in {"DUMMY"} THEN 1 ELSE 0)
        /\ Posting({"EJECUTAR"})' = Posting({"EJECUTAR"}) - (IF j.msg \in {"EJECUTAR"} THEN 1 ELSE 0)
    BY <2>1, PostingFinished
  <2>3. /\ Posting({"BLOCKDTB"})' = Posting({"BLOCKDTB"})
        /\ Posting({"IODONE", "EOQUANTUM"})' = Posting({"IODONE", "EOQUANTUM"})
        /\ Posting({"IOERROR", "EOFORABORT"})' = Posting({"IOERROR", "EOFORABORT"})
        /\ Posting({"DUMMY"})' = Posting({"DUMMY"})
        /\ Posting({"EJECUTAR"})' = Posting({"EJECUTAR"}) - 1
    BY <1>1, <2>1, <2>2
  <2>4. /\ Pending(PLPtasks, "INITIALIZE")' = Pending(PLPtasks, "INITIALIZE")
        /\ Pending(PLPtasks, "CREATE")' = Pending(PLPtasks, "CREATE") + 1
    <3>1. /\ Pending(PLPtasks, "INITIALIZE")' = Pending(PLPtasks, "INITIALIZE") + 0
          /\ Pending(PLPtasks, "CREATE")' = Pending(PLPtasks, "CREATE") + 1
      BY <1>2, <2>1, PLPPending
    <3>2. QED  BY <1>2, <3>1
  <2>5. /\ Pending(PCPtasks, "BLOCK")' = Pending(PCPtasks, "BLOCK")
        /\ Pending(PCPtasks, "UNLOCK")' = Pending(PCPtasks, "UNLOCK")
        /\ Pending(PCPtasks, "END")' = Pending(PCPtasks, "END")
    BY <2>1 DEF Pending
  <2>6. Ending' = Ending
    BY <2>1 DEF Ending, Finished
  <2>7. DatumBlock' /\ DatumUnlock' /\ DatumEnd' /\ DatumInitialize'
    BY <1>3, <1>4, <2>3, <2>4, <2>5, <2>6 DEF DatumBlock, DatumUnlock, DatumEnd, DatumInitialize
  <2>8. DatumCreate'
    <3>1. PICK p, q : p = Pending(PLPtasks, "CREATE") /\ q = Posting({"EJECUTAR"})
      OBVIOUS
    <3>2. p \in Nat /\ q \in Nat /\ scripts <= p + q
      BY <1>1, <1>2, <1>3, <3>1 DEF DatumCreate
    <3>3. scripts <= (p + 1) + (q - 1)
      BY <1>2, <3>2
    <3>4. QED  BY <1>4, <2>3, <2>4, <3>1, <3>3 DEF DatumCreate
  <2>9. QED  BY <2>7, <2>8, DatumIsNext
<1>7. CASE CommandFinalizarTakesCPU(j)
  <2>1. PICK c \in IdleCPUs : jobs' = (jobs \ {j}) \cup {[j EXCEPT !.at = "post", !.cpu = c]}
    BY <1>7 DEF CommandFinalizarTakesCPU
  <2>2. PICK k : k = [j EXCEPT !.at = "post", !.cpu = c]
    OBVIOUS
  <2>3. /\ Key(k) = Key(j) /\ k.msg = "FINALIZAR" /\ j.msg = "FINALIZAR" /\ k.at # j.at
        /\ tasks' = tasks /\ jobs' = (jobs \ {j}) \cup {k}
    BY <1>7, <2>1, <2>2 DEF CommandFinalizarTakesCPU, Key, TypeOK, OutsideType, Jobs
  <2>4. k \notin jobs
    BY <2>3 DEF NoTwins
  <2>5. Cardinality(Ending)' = Cardinality(Ending)
    <3>1. Ending' = (E \ {j}) \cup {k} /\ k \notin E /\ j \in E /\ IsFiniteSet(E)
      BY <1>2, <1>5, <2>3, <2>4 DEF Ending
    <3>2. PICK F : F = E \ {j}
      OBVIOUS
    <3>3. IsFiniteSet(F) /\ Cardinality(F) = Cardinality(E) - 1 /\ k \notin F
      BY <3>1, <3>2, FS_RemoveElement
    <3>4. Cardinality(F \cup {k}) = Cardinality(F) + 1
      BY <3>3, FS_AddElement
    <3>5. Ending' = F \cup {k}
      BY <3>1, <3>2, Zenon
    <3>6. Cardinality(Ending') = Cardinality(F) + 1
      BY <3>4, <3>5, Zenon
    <3>7. QED  BY <1>2, <1>5, <3>3, <3>6
  <2>6. /\ PostingOf({"BLOCKDTB"})' = PostingOf({"BLOCKDTB"})
        /\ PostingOf({"IODONE", "EOQUANTUM"})' = PostingOf({"IODONE", "EOQUANTUM"})
        /\ PostingOf({"IOERROR", "EOFORABORT"})' = PostingOf({"IOERROR", "EOFORABORT"})
        /\ PostingOf({"DUMMY"})' = PostingOf({"DUMMY"})
        /\ PostingOf({"EJECUTAR"})' = PostingOf({"EJECUTAR"})
    BY <2>3 DEF PostingOf
  <2>7. /\ Posting({"BLOCKDTB"})' = Posting({"BLOCKDTB"})
        /\ Posting({"IODONE", "EOQUANTUM"})' = Posting({"IODONE", "EOQUANTUM"})
        /\ Posting({"IOERROR", "EOFORABORT"})' = Posting({"IOERROR", "EOFORABORT"})
        /\ Posting({"DUMMY"})' = Posting({"DUMMY"})
        /\ Posting({"EJECUTAR"})' = Posting({"EJECUTAR"})
    BY <2>6, PostingSame
  <2>8. /\ Pending(PCPtasks, "BLOCK")' = Pending(PCPtasks, "BLOCK")
        /\ Pending(PCPtasks, "UNLOCK")' = Pending(PCPtasks, "UNLOCK")
        /\ Pending(PCPtasks, "END")' = Pending(PCPtasks, "END")
        /\ Pending(PLPtasks, "INITIALIZE")' = Pending(PLPtasks, "INITIALIZE")
        /\ Pending(PLPtasks, "CREATE")' = Pending(PLPtasks, "CREATE")
    BY <2>3 DEF Pending, tasks
  <2>9. DatumBlock' /\ DatumUnlock' /\ DatumEnd' /\ DatumInitialize' /\ DatumCreate'
    BY <1>3, <1>4, <2>5, <2>7, <2>8
    DEF DatumBlock, DatumUnlock, DatumEnd, DatumInitialize, DatumCreate
  <2>10. QED  BY <2>9, DatumIsNext
<1>8. CASE CommandFinalizarFails(j)
  BY <1>8, DatumFrame DEF CommandFinalizarFails, outside
<1>9. CASE CommandFinalizarPosts(j)
  <2>1. /\ j.msg = "FINALIZAR" /\ j.at = "post" /\ Finished(j) /\ AddPCPTask("END")
        /\ PLPtasks' = PLPtasks /\ "END" \in PCPKinds
    BY <1>9 DEF CommandFinalizarPosts, PCPKinds
  <2>2. Pending(PCPtasks, "END")' = Pending(PCPtasks, "END") + 1
    BY <1>2, <2>1, PostsOne
  <2>3. /\ Pending(PCPtasks, "BLOCK")' = Pending(PCPtasks, "BLOCK")
        /\ Pending(PCPtasks, "UNLOCK")' = Pending(PCPtasks, "UNLOCK")
    <3>1. OnlyOthers("BLOCK") /\ OnlyOthers("UNLOCK")
      BY <2>1 DEF OnlyOthers, AddPCPTask
    <3>2. QED  BY <1>2, <3>1, OthersKeep
  <2>4. /\ Pending(PLPtasks, "INITIALIZE")' = Pending(PLPtasks, "INITIALIZE")
        /\ Pending(PLPtasks, "CREATE")' = Pending(PLPtasks, "CREATE")
    BY <2>1 DEF Pending
  <2>5. Cardinality(Ending)' = Cardinality(Ending) - 1
    <3>1. Ending' = E \ {j} /\ j \in E /\ IsFiniteSet(E)
      BY <1>2, <1>5, <2>1 DEF Ending, Finished
    <3>2. Cardinality(E \ {j}) = Cardinality(E) - 1
      BY <3>1, FS_RemoveElement
    <3>3. QED  BY <1>5, <3>1, <3>2
  <2>6. /\ PostingOf({"BLOCKDTB"})' = PostingOf({"BLOCKDTB"})
        /\ PostingOf({"IODONE", "EOQUANTUM"})' = PostingOf({"IODONE", "EOQUANTUM"})
        /\ PostingOf({"IOERROR", "EOFORABORT"})' = PostingOf({"IOERROR", "EOFORABORT"})
        /\ PostingOf({"DUMMY"})' = PostingOf({"DUMMY"})
        /\ PostingOf({"EJECUTAR"})' = PostingOf({"EJECUTAR"})
    BY <2>1 DEF PostingOf, Finished
  <2>7. /\ Posting({"BLOCKDTB"})' = Posting({"BLOCKDTB"})
        /\ Posting({"IODONE", "EOQUANTUM"})' = Posting({"IODONE", "EOQUANTUM"})
        /\ Posting({"IOERROR", "EOFORABORT"})' = Posting({"IOERROR", "EOFORABORT"})
        /\ Posting({"DUMMY"})' = Posting({"DUMMY"})
        /\ Posting({"EJECUTAR"})' = Posting({"EJECUTAR"})
    BY <2>6, PostingSame
  <2>8. DatumBlock' /\ DatumUnlock' /\ DatumInitialize' /\ DatumCreate'
    BY <1>3, <1>4, <2>3, <2>4, <2>7 DEF DatumBlock, DatumUnlock, DatumInitialize, DatumCreate
  <2>9. DatumEnd'
    <3>1. PICK p, q, e : /\ p = Pending(PCPtasks, "END") /\ q = Posting({"IOERROR", "EOFORABORT"})
                         /\ e = Cardinality(Ending)
      OBVIOUS
    <3>2. p \in Nat /\ q \in Nat /\ e \in Nat /\ Len(toBeEnded) = p + q + e
      BY <1>1, <1>2, <1>3, <3>1 DEF DatumEnd
    <3>3. Len(toBeEnded') = (p + 1) + q + (e - 1)
      BY <1>4, <3>2
    <3>4. QED  BY <2>2, <2>5, <2>7, <3>1, <3>3 DEF DatumEnd
  <2>10. QED  BY <2>8, <2>9, DatumIsNext
<1>10. QED  BY <1>6, <1>7, <1>8, <1>9 DEF ConsoleJob

\* With the places and numbers of the messages, each task has its datum.
TasksInv ==
    /\ SchedulerInv
    /\ Numbers /\ LoadIds /\ OneTurn /\ AnsweredOnce /\ NoTwins
    /\ EveryTaskHasItsDatum

\* Nothing is pending, nothing is in flight and nobody has a turn at first.
LEMMA TasksInit == Init => TasksInv
<1> SUFFICES ASSUME Init PROVE TasksInv
  OBVIOUS
<1>1. /\ jobs = {} /\ dam = {} /\ READY = {} /\ PCPtasks = <<>> /\ PLPtasks = <<>>
      /\ dummyIn["READY"] = 0 /\ \A c \in CPUs : running[c] = NotRunning
      /\ toBeBlocked = <<>> /\ toBeUnlocked = <<>> /\ toBeEnded = <<>> /\ dummiedQueue = <<>>
      /\ scripts = 0
  BY DEF Init, DummyLists
<1>2. SchedulerInv
  BY SchedulerInvInit
<1>3. Numbers /\ AnsweredOnce /\ NoTwins
  BY <1>1 DEF Numbers, NumbersDAM, NumbersJobs, AnsweredOnce, NoTwins
<1>4. /\ Pending(<<>>, "LOAD_DUMMY") = 0 /\ Pending(<<>>, "BLOCK") = 0 /\ Pending(<<>>, "UNLOCK") = 0
      /\ Pending(<<>>, "END") = 0 /\ Pending(<<>>, "INITIALIZE") = 0 /\ Pending(<<>>, "CREATE") = 0
  BY PendingNone
<1>5. OnDummy = {}
  BY <1>1 DEF OnDummy, NotRunning
<1>6. LoadIds
  BY <1>1, <1>4, <1>5 DEF LoadIds
<1>7. OneTurn
  <2>1. Turns = {}
    BY <1>1 DEF Turns, ReadyTurns, CPUTurns, DAMTurns, JobTurns, QueueTurns, NotRunning
  <2>2. QED  BY <1>1, <2>1 DEF OneTurn
<1>8. EveryTaskHasItsDatum
  <2>1. \A ms : {j \in jobs : j.msg \in ms /\ j.at = "post"} = {}
    BY <1>1
  <2>2. {j \in jobs : j.msg = "FINALIZAR"} = {}
    BY <1>1
  <2>3. Cardinality({}) = 0
    BY FS_EmptySet
  <2>4. \A ms : Posting(ms) = 0
    BY <2>1, <2>3 DEF Posting
  <2>5. Len(<<>>) = 0
    OBVIOUS
  <2>6. QED  BY <1>1, <1>4, <2>2, <2>3, <2>4, <2>5 DEF EveryTaskHasItsDatum
<1>9. QED  BY <1>2, <1>3, <1>6, <1>7, <1>8 DEF TasksInv

\* Every step keeps a datum for each task.
LEMMA DatumNext ==
  ASSUME TypeOK, TypeOK', IsFiniteSet(jobs), Numbers, NoTwins, EveryTaskHasItsDatum, [Next]_vars
  PROVE  EveryTaskHasItsDatum'
<1>1. CASE UNCHANGED vars
  BY <1>1, DatumFrame DEF vars, outside
<1>2. CASE Next /\ PLP
  BY <1>2, DatumPLP
<1>3. CASE Next /\ PCP
  BY <1>3, DatumPCP
<1>4. CASE Console
  BY <1>4, DatumTyped
<1>5. CASE \E j \in jobs : Handler(j) \/ ConsoleJob(j)
  <2>1. PICK j \in jobs : Handler(j) \/ ConsoleJob(j)
    BY <1>5
  <2>2. j.at \in {"start", "post"}
    BY DEF TypeOK, OutsideType, Jobs
  <2>3. CASE Handler(j) /\ j.at = "start"
    BY <2>3, DatumPushes
  <2>4. CASE Handler(j) /\ j.at = "post"
    BY <2>4, DatumPosts
  <2>5. CASE ConsoleJob(j)
    BY <2>5, DatumCommand
  <2>6. QED  BY <2>1, <2>2, <2>3, <2>4, <2>5
<1>6. CASE \E c \in CPUs : CPUSpeaks(c) \/ CPUConnects(c) \/ CPUDisconnects(c)
  <2>1. PICK c \in CPUs : CPUSpeaks(c) \/ CPUConnects(c) \/ CPUDisconnects(c)
    BY <1>6
  <2>2. CASE CPUConnects(c) \/ CPUDisconnects(c)
    BY <2>2, DatumFrame DEF CPUConnects, CPUDisconnects, outside
  <2>3. CASE CPUSpeaks(c)
    <3>1. PICK m \in {"BLOCKDUMMY", "BLOCKDTB", "EOQUANTUM", "EOFORABORT"} : \E n : CPUSends(c, m, n)
      BY <2>3, Zenon DEF CPUSpeaks, CPURunsDummy, CPURequestsIO, CPUEndsQuantum, CPUEndsDTB
    <3>2. PICK n : CPUSends(c, m, n)
      BY <3>1
    <3>3. UNCHANGED <<data, tasks>>
      BY <3>2 DEF CPUSends
    <3>4. CASE c \in deaf
      <4>1. jobs' = jobs
        BY <3>2, <3>4 DEF CPUSends
      <4>2. QED  BY <3>3, <4>1, DatumFrame
    <3>5. CASE c \notin deaf
      <4>1. PICK k : k = Message(m, running[c].id, c, n)
        OBVIOUS
      <4>2. jobs' = jobs \cup {k}
        BY <3>2, <3>5, <4>1 DEF CPUSends
      <4>3. k.at = "start" /\ k.msg # "FINALIZAR"
        BY <4>1 DEF Message
      <4>4. QED  BY <3>3, <4>2, <4>3, DatumArrives, ZenonT(30)
    <3>6. QED  BY <3>4, <3>5
  <2>4. QED  BY <2>1, <2>2, <2>3
<1>7. CASE \E r \in dam : DAMAnswers(r)
  <2>1. PICK r \in dam : DAMAnswers(r)
    BY <1>7
  <2>2. PICK m \in {"DUMMY", "IODONE", "IOERROR"} : jobs' = jobs \cup {Message(m, r.id, NoCPU, r.n)}
    BY <2>1 DEF DAMAnswers
  <2>3. PICK k : k = Message(m, r.id, NoCPU, r.n)
    OBVIOUS
  <2>4. jobs' = jobs \cup {k} /\ UNCHANGED <<data, tasks>>
    BY <2>1, <2>2, <2>3 DEF DAMAnswers
  <2>5. k.at = "start" /\ k.msg # "FINALIZAR"
    BY <2>3 DEF Message
  <2>6. QED  BY <2>4, <2>5, DatumArrives, ZenonT(30)
<1>8. QED  BY <1>1, <1>2, <1>3, <1>4, <1>5, <1>6, <1>7 DEF Next

\* The invariant is inductive.
LEMMA TasksNext ==
  ASSUME ~Overtaking, TasksInv, [Next]_vars
  PROVE  TasksInv'
<1>1. TypeOK /\ OnePlace /\ Fresh /\ LoadsInv /\ IsFiniteSet(jobs)
  BY DEF TasksInv, SchedulerInv, LoadsInv
<1>2. SchedulerInv'
  BY SchedulerInvNext DEF TasksInv
<1>3. TypeOK' /\ LoadsInv'
  BY <1>2 DEF SchedulerInv
<1>4. Numbers'
  BY <1>1, <1>3, NumbersNext DEF TasksInv
<1>5. LoadIds'
  BY <1>1, <1>3, LoadIdsNext DEF TasksInv
<1>6. OneTurn'
  BY <1>1, OneTurnNext DEF TasksInv
<1>7. AnsweredOnce' /\ NoTwins'
  BY <1>1, AnsweredNext, TwinsNext DEF TasksInv
<1>8. EveryTaskHasItsDatum'
  BY <1>1, <1>3, DatumNext DEF TasksInv
<1>9. QED  BY <1>2, <1>4, <1>5, <1>6, <1>7, <1>8 DEF TasksInv

\* For each task of the planners, posted or announced, its queue of data holds
\* the datum it will pop.
THEOREM DatumInvariant == ASSUME ~Overtaking PROVE Spec => []EveryTaskHasItsDatum
<1>1. TasksInv /\ [Next]_vars => TasksInv'
  BY TasksNext
<1>2. TasksInv => EveryTaskHasItsDatum
  BY DEF TasksInv
<1>3. QED  BY TasksInit, <1>1, <1>2, PTL DEF Spec

-----------------------------------------------------------------------------
\* The balance of what waits for a CPU and of the tasks of the planner.

\* What waits for a CPU or is about to: the DTBs in READY and those that a
\* pending task or a post to come will put there.
NReady == Cardinality(READY)
NDummy == dummyIn["READY"]
NLoaded == Len(dummiedQueue)
NUnlocks == Pending(PCPtasks, "UNLOCK")
NLoads == Pending(PCPtasks, "LOAD_DUMMY")
NUnlocking == Posting({"IODONE", "EOQUANTUM"})
Wanting == NReady + NDummy + NLoaded + NUnlocks + NLoads + NUnlocking

\* The tasks of the short-term planner, taken, pending or to come.
Telling == {"DUMMY", "IODONE", "IOERROR", "EOFORABORT", "BLOCKDUMMY", "BLOCKDTB", "EOQUANTUM"}
NTasks == Len(PCPtasks)
NInits == Pending(PLPtasks, "INITIALIZE")
NTaken == IF pcp.at = "wait" THEN 0 ELSE 1
NTelling == Posting(Telling)
Planned == NTasks + NInits + NTaken + NTelling

NIdle == Cardinality(IdleCPUs)

\* Each DTB that waits, or each CPU that is idle, has a task of its own.
Dispatch == Wanting <= Planned \/ NIdle <= Planned

Amounts ==
    /\ NReady \in Nat /\ NDummy \in Nat /\ NLoaded \in Nat /\ NUnlocks \in Nat
    /\ NLoads \in Nat /\ NUnlocking \in Nat /\ NTasks \in Nat /\ NInits \in Nat
    /\ NTaken \in Nat /\ NTelling \in Nat /\ NIdle \in Nat

\* What is counted is finite.
LEMMA AmountsAre ==
  ASSUME TypeOK, IsFiniteSet(jobs), IsFiniteSet(CPUs)
  PROVE  Amounts /\ IsFiniteSet(READY) /\ IsFiniteSet(IdleCPUs)
<1>1. /\ NUnlocks \in Nat /\ NLoads \in Nat /\ NInits \in Nat /\ NUnlocking \in Nat
      /\ NTelling \in Nat /\ NLoaded \in Nat
  BY CountsAre DEF NUnlocks, NLoads, NInits, NUnlocking, NTelling, NLoaded
<1>2. IsFiniteSet(READY) /\ NReady \in Nat
  <2>1. READY \in SUBSET (1 .. MaxDTB) /\ MaxDTB \in Nat
    BY SchedulingAssumption DEF TypeOK, ListsType, DTBs, SchedulingAssumption
  <2>2. IsFiniteSet(1 .. MaxDTB)
    BY <2>1, FS_Interval
  <2>3. QED  BY <2>1, <2>2, FS_Subset, FS_CardinalityType DEF NReady
<1>3. IsFiniteSet(IdleCPUs) /\ NIdle \in Nat
  <2>1. IdleCPUs \in SUBSET CPUs
    BY DEF TypeOK, HolderType, IdleCPUs
  <2>2. QED  BY <2>1, FS_Subset, FS_CardinalityType DEF NIdle
<1>4. NTasks \in Nat
  BY DEF TypeOK, TasksType, NTasks
<1>5. NDummy \in Nat /\ NTaken \in Nat
  BY DEF TypeOK, DummyType, DummyLists, NDummy, NTaken
<1>6. QED  BY <1>1, <1>2, <1>3, <1>4, <1>5 DEF Amounts

\* The invariant is about as many dispatches as both sides allow.
LEMMA DispatchIs ==
  ASSUME TypeOK, IsFiniteSet(jobs), IsFiniteSet(CPUs), Dispatch
  PROVE  NoLostDispatch
<1>1. Amounts
  BY AmountsAre
<1>2. NTelling <= Cardinality({j \in jobs : j.at = "post" /\ j.msg # "EJECUTAR"})
  <2>1. PICK P : P = {j \in jobs : j.at = "post" /\ j.msg # "EJECUTAR"}
    OBVIOUS
  <2>2. P \in SUBSET jobs /\ PostingOf(Telling) \in SUBSET P
    BY <2>1 DEF PostingOf, Telling
  <2>3. IsFiniteSet(P)
    BY <2>2, FS_Subset
  <2>4. Cardinality(PostingOf(Telling)) <= Cardinality(P)
    BY <2>2, <2>3, FS_Subset
  <2>5. NTelling = Cardinality(PostingOf(Telling))
    BY DEF NTelling, Posting, PostingOf
  <2>6. QED  BY <2>1, <2>4, <2>5
<1>3. PICK n : n = Cardinality({j \in jobs : j.at = "post" /\ j.msg # "EJECUTAR"})
  OBVIOUS
<1>4. n \in Nat
  <2>1. {j \in jobs : j.at = "post" /\ j.msg # "EJECUTAR"} \in SUBSET jobs
    OBVIOUS
  <2>2. QED  BY <1>3, <2>1, FS_Subset, FS_CardinalityType
<1>5. MinNat(NReady + NDummy, NIdle) <= NTasks + NInits + NTaken + n
  BY <1>1, <1>2, <1>3, <1>4 DEF Amounts, Dispatch, Wanting, Planned, MinNat
<1>6. QED  BY <1>3, <1>5 DEF NoLostDispatch, NReady, NDummy, NIdle, NTasks, NInits, NTaken

\* The sums, in any state.
LEMMA SumsAre ==
  ASSUME Amounts
  PROVE  Wanting \in Nat /\ Planned \in Nat /\ NIdle \in Nat
  BY DEF Amounts, Wanting, Planned

\* A step that wants and frees no more than it plans.
LEMMA Balance ==
  ASSUME Amounts, Amounts', Dispatch, NEW k \in Int, -1 <= k, k <= 1,
         Wanting' <= Wanting + k, NIdle' <= NIdle + k, Planned' >= Planned + k
  PROVE  Dispatch'
<1>1. Wanting \in Nat /\ Planned \in Nat /\ NIdle \in Nat
  BY SumsAre
<1>2. (Amounts => Wanting \in Nat /\ Planned \in Nat /\ NIdle \in Nat)'
  BY SumsAre, PTL
<1>3. PICK w, p, i : w = Wanting' /\ p = Planned' /\ i = NIdle'
  OBVIOUS
<1>4. w \in Nat /\ p \in Nat /\ i \in Nat
  BY <1>2, <1>3
<1>5. w <= Wanting + k /\ i <= NIdle + k /\ p >= Planned + k
  BY <1>3
<1>6. w <= p \/ i <= p
  BY <1>1, <1>4, <1>5 DEF Dispatch
<1>7. QED  BY <1>3, <1>6 DEF Dispatch

\* What changes no count.
LEMMA DispatchFrame ==
  ASSUME Amounts, Amounts', Dispatch,
         UNCHANGED <<READY, dummyIn, dummiedQueue, PCPtasks, PLPtasks, pcp>>,
         NIdle' <= NIdle, NUnlocking' = NUnlocking, NTelling' = NTelling
  PROVE  Dispatch'
<1>1. /\ NReady' = NReady /\ NDummy' = NDummy /\ NLoaded' = NLoaded /\ NUnlocks' = NUnlocks
      /\ NLoads' = NLoads /\ NTasks' = NTasks /\ NInits' = NInits /\ NTaken' = NTaken
  BY DEF NReady, NDummy, NLoaded, NUnlocks, NLoads, NTasks, NInits, NTaken, Pending
<1>2. Wanting' = Wanting /\ Planned' = Planned
  BY <1>1 DEF Wanting, Planned
<1>3. PICK w, p, i, k : w = Wanting /\ p = Planned /\ i = NIdle /\ k = 0
  OBVIOUS
<1>4. w \in Nat /\ p \in Nat /\ i \in Nat
  BY <1>3, SumsAre
<1>5. w <= w + k /\ i + k = i /\ p >= p + k /\ -1 <= k /\ k <= 1 /\ k \in Int
  BY <1>3, <1>4
<1>6. Wanting' <= Wanting + k /\ NIdle' <= NIdle + k /\ Planned' >= Planned + k
  BY <1>2, <1>3, <1>5
<1>7. QED  BY <1>5, <1>6, Balance

\* The idle CPUs when one is taken or freed.
LEMMA IdleCount ==
  ASSUME IsFiniteSet(IdleCPUs), NIdle \in Nat
  PROVE  /\ UNCHANGED <<cpus, busy>> => NIdle' = NIdle
         /\ IdleCPUs' \subseteq IdleCPUs => NIdle' <= NIdle
         /\ \A c : IdleCPUs' \subseteq IdleCPUs \cup {c} => NIdle' <= NIdle + 1
         /\ \A c \in IdleCPUs : IdleCPUs' \subseteq IdleCPUs \ {c} => NIdle' <= NIdle - 1
<1>1. PICK I, J : I = IdleCPUs /\ J = IdleCPUs'
  OBVIOUS
<1>2. IsFiniteSet(I) /\ Cardinality(I) = NIdle /\ NIdle' = Cardinality(J) /\ NIdle \in Nat
  BY <1>1 DEF NIdle
<1>3. UNCHANGED <<cpus, busy>> => NIdle' = NIdle
  BY DEF NIdle, IdleCPUs
<1>4. J \subseteq I => Cardinality(J) <= Cardinality(I)
  BY <1>2, FS_Subset
<1>5. ASSUME NEW c, J \subseteq I \cup {c} PROVE Cardinality(J) <= Cardinality(I) + 1
  <2>1. PICK K : K = I \cup {c}
    OBVIOUS
  <2>2. IsFiniteSet(K) /\ Cardinality(K) = IF c \in I THEN Cardinality(I) ELSE Cardinality(I) + 1
    BY <1>2, <2>1, FS_AddElement
  <2>3. J \in SUBSET K
    BY <1>5, <2>1
  <2>4. Cardinality(J) <= Cardinality(K)
    BY <2>2, <2>3, FS_Subset
  <2>5. IsFiniteSet(J)
    BY <2>2, <2>3, FS_Subset
  <2>6. Cardinality(J) \in Nat /\ Cardinality(I) \in Nat
    BY <1>2, <2>5, FS_CardinalityType
  <2>7. QED  BY <2>2, <2>4, <2>6
<1>6. ASSUME NEW c \in I, J \subseteq I \ {c} PROVE Cardinality(J) <= Cardinality(I) - 1
  <2>1. PICK K : K = I \ {c}
    OBVIOUS
  <2>2. IsFiniteSet(K) /\ Cardinality(K) = Cardinality(I) - 1
    BY <1>2, <2>1, FS_RemoveElement
  <2>3. J \in SUBSET K
    BY <1>6, <2>1
  <2>4. QED  BY <2>2, <2>3, FS_Subset
<1>7. QED  BY <1>1, <1>2, <1>3, <1>4, <1>5, <1>6

\* As many DTBs are loaded as the queue of them is long, at most.
LEMMA LoadedCount ==
  ASSUME TypeOK
  PROVE  IsFiniteSet(Loaded) /\ Cardinality(Loaded) \in Nat /\ Cardinality(Loaded) <= NLoaded
<1>1. /\ dummiedQueue \in Seq(Ids) /\ NLoaded \in Nat /\ DOMAIN dummiedQueue = 1 .. NLoaded
  BY DEF TypeOK, DataType, NLoaded
<1>2. IsFiniteSet(1 .. NLoaded) /\ Cardinality(1 .. NLoaded) = NLoaded
  BY <1>1, FS_Interval
<1>3. PICK D, L : D = 1 .. NLoaded /\ L = Loaded
  OBVIOUS
<1>4. dummiedQueue \in [D -> L] /\ \A x \in L : \E i \in D : dummiedQueue[i] = x
  BY <1>1, <1>3 DEF Loaded
<1>5. dummiedQueue \in Surjection(D, L)
  BY <1>4 DEF Surjection
<1>6. IsFiniteSet(L) /\ Cardinality(L) <= Cardinality(D)
  BY <1>2, <1>3, <1>5, FS_Surjection
<1>7. QED  BY <1>2, <1>3, <1>6, FS_CardinalityType

\* ... as before, one more or one less on each side.
LEMMA BalanceEven ==
  ASSUME Amounts, Amounts', Dispatch, Wanting' <= Wanting, NIdle' <= NIdle, Planned' >= Planned
  PROVE  Dispatch'
<1>1. PICK w, p, i, k : w = Wanting /\ p = Planned /\ i = NIdle /\ k = 0
  OBVIOUS
<1>2. w \in Nat /\ p \in Nat /\ i \in Nat
  BY <1>1, SumsAre
<1>3. w + k = w /\ i + k = i /\ p + k = p /\ -1 <= k /\ k <= 1 /\ k \in Int
  BY <1>1, <1>2
<1>4. Wanting' <= Wanting + k /\ NIdle' <= NIdle + k /\ Planned' >= Planned + k
  BY <1>1, <1>3
<1>5. QED  BY <1>3, <1>4, Balance

\* One more on each side.
LEMMA BalanceMore ==
  ASSUME Amounts, Amounts', Dispatch, Wanting' <= Wanting + 1, NIdle' <= NIdle + 1,
         Planned' >= Planned + 1
  PROVE  Dispatch'
<1>1. PICK k : k = 1
  OBVIOUS
<1>2. -1 <= k /\ k <= 1 /\ k \in Int
  BY <1>1
<1>3. Wanting' <= Wanting + k /\ NIdle' <= NIdle + k /\ Planned' >= Planned + k
  BY <1>1
<1>4. QED  BY <1>2, <1>3, Balance

\* One less on each side.
LEMMA BalanceLess ==
  ASSUME Amounts, Amounts', Dispatch, Wanting' <= Wanting - 1, NIdle' <= NIdle - 1,
         Planned' >= Planned - 1
  PROVE  Dispatch'
<1>1. PICK w, p, i, k : w = Wanting /\ p = Planned /\ i = NIdle /\ k = -1
  OBVIOUS
<1>2. w \in Nat /\ p \in Nat /\ i \in Nat
  BY <1>1, SumsAre
<1>3. w + k = w - 1 /\ i + k = i - 1 /\ p + k = p - 1 /\ -1 <= k /\ k <= 1 /\ k \in Int
  BY <1>1, <1>2
<1>4. Wanting' <= Wanting + k /\ NIdle' <= NIdle + k /\ Planned' >= Planned + k
  BY <1>1, <1>3
<1>5. QED  BY <1>3, <1>4, Balance

\* A task that is posted.
LEMMA TaskPosted ==
  ASSUME TasksType, NEW t \in PCPKinds, AddPCPTask(t)
  PROVE  /\ NTasks \in Nat /\ NTasks' = NTasks + 1
         /\ NLoads' = NLoads + (IF t = "LOAD_DUMMY" THEN 1 ELSE 0)
         /\ NUnlocks' = NUnlocks + (IF t = "UNLOCK" THEN 1 ELSE 0)
<1>1. PCPtasks \in Seq(PCPKinds) /\ PCPtasks' = Append(PCPtasks, t)
  BY DEF TasksType, PCPKinds, AddPCPTask
<1>2. NTasks \in Nat /\ Len(Append(PCPtasks, t)) = NTasks + 1
  BY <1>1 DEF NTasks
<1>3. NTasks' = NTasks + 1
  BY <1>1, <1>2 DEF NTasks
<1>4. \A u : Pending(Append(PCPtasks, t), u) = Pending(PCPtasks, u) + (IF t = u THEN 1 ELSE 0)
  BY <1>1, PendingAppend
<1>5. NLoads' = Pending(PCPtasks', "LOAD_DUMMY") /\ NUnlocks' = Pending(PCPtasks', "UNLOCK")
  BY DEF NLoads, NUnlocks, Pending
<1>6. QED  BY <1>1, <1>2, <1>3, <1>4, <1>5 DEF NLoads, NUnlocks

\* A task the short-term planner takes, and whether it posts one to plan again.
LEMMA TaskTaken ==
  ASSUME TasksType, NEW t, PCPTakes(t)
  PROVE  /\ NTasks \in Nat /\ NTasks > 0 /\ pcp.at = "wait"
         /\ PCPReplans => NTasks' = NTasks
         /\ PCPtasks' = Tail(PCPtasks) => NTasks' = NTasks - 1
         /\ PCPReplans \/ PCPtasks' = Tail(PCPtasks) =>
               /\ NLoads' = NLoads - (IF t = "LOAD_DUMMY" THEN 1 ELSE 0)
               /\ NUnlocks' = NUnlocks - (IF t = "UNLOCK" THEN 1 ELSE 0)
<1>1. /\ PCPtasks \in Seq(PCPKinds) /\ PCPtasks # <<>> /\ Head(PCPtasks) = t /\ pcp.at = "wait"
      /\ "NORMAL" \in PCPKinds
  BY DEF TasksType, PCPKinds, PCPTakes
<1>2. /\ NTasks \in Nat /\ NTasks > 0 /\ Tail(PCPtasks) \in Seq(PCPKinds)
      /\ Len(Tail(PCPtasks)) = NTasks - 1 /\ Len(Append(Tail(PCPtasks), "NORMAL")) = NTasks
  BY <1>1 DEF NTasks
<1>3. /\ PCPReplans => NTasks' = NTasks
      /\ PCPtasks' = Tail(PCPtasks) => NTasks' = NTasks - 1
  BY <1>2 DEF NTasks, PCPReplans
<1>4. \A u : /\ Pending(PCPtasks, u) \in Nat /\ Pending(Tail(PCPtasks), u) \in Nat
             /\ Pending(PCPtasks, u) = Pending(Tail(PCPtasks), u) + (IF t = u THEN 1 ELSE 0)
  BY <1>1, PendingTail
<1>5. \A u : Pending(Append(Tail(PCPtasks), "NORMAL"), u)
               = Pending(PCPtasks, u) - (IF t = u THEN 1 ELSE 0) + (IF "NORMAL" = u THEN 1 ELSE 0)
  BY <1>1, PendingReplans
<1>6. NLoads' = Pending(PCPtasks', "LOAD_DUMMY") /\ NUnlocks' = Pending(PCPtasks', "UNLOCK")
  BY DEF NLoads, NUnlocks, Pending
<1>7. NLoads = Pending(PCPtasks, "LOAD_DUMMY") /\ NUnlocks = Pending(PCPtasks, "UNLOCK")
  BY DEF NLoads, NUnlocks
<1>8. ASSUME PCPtasks' = Tail(PCPtasks)
      PROVE  /\ NLoads' = NLoads - (IF t = "LOAD_DUMMY" THEN 1 ELSE 0)
             /\ NUnlocks' = NUnlocks - (IF t = "UNLOCK" THEN 1 ELSE 0)
  BY <1>4, <1>6, <1>7, <1>8
<1>9. ASSUME PCPReplans
      PROVE  /\ NLoads' = NLoads - (IF t = "LOAD_DUMMY" THEN 1 ELSE 0)
             /\ NUnlocks' = NUnlocks - (IF t = "UNLOCK" THEN 1 ELSE 0)
  <2>1. PCPtasks' = Append(Tail(PCPtasks), "NORMAL")
    BY <1>9 DEF PCPReplans
  <2>2. /\ NLoads' = NLoads - (IF t = "LOAD_DUMMY" THEN 1 ELSE 0) + 0
        /\ NUnlocks' = NUnlocks - (IF t = "UNLOCK" THEN 1 ELSE 0) + 0
    BY <1>5, <1>6, <1>7, <2>1
  <2>3. QED  BY <1>4, <1>7, <2>2
<1>10. QED  BY <1>1, <1>2, <1>3, <1>8, <1>9

\* The long-term planner: those it puts in READY were counted as loaded.
LEMMA DispatchPLP ==
  ASSUME TypeOK, IsFiniteSet(jobs), IsFiniteSet(CPUs), Amounts, Amounts', Dispatch, PLP
  PROVE  Dispatch'
<1>1. TasksType /\ IsFiniteSet(READY) /\ IsFiniteSet(IdleCPUs) /\ dummyIn \in [DummyLists -> Nat]
  BY AmountsAre DEF TypeOK, DummyType
<1>2. jobs' = jobs /\ UNCHANGED <<cpus, busy, pcp>>
  BY JobsAlone DEF PLP, PLPCannotSchedule, PLPTakesDummy, PLPAdmits, PLPCreates, PLPInitializes,
                   PLPInitializeFails, holder, threads
<1>3. NIdle' = NIdle /\ NTaken' = NTaken /\ NUnlocking' = NUnlocking /\ NTelling' = NTelling
  BY <1>2 DEF NIdle, IdleCPUs, NTaken, NUnlocking, NTelling, Posting
<1>4. NIdle \in Nat /\ NIdle <= NIdle /\ NIdle <= NIdle + 1 /\ Wanting \in Nat /\ Planned \in Nat
  BY SumsAre
<1>5. CASE PLPCannotSchedule \/ PLPTakesDummy \/ PLPCreates \/ PLPInitializeFails
  <2>1. /\ UNCHANGED <<READY, dummiedQueue, PCPtasks>>
        /\ \/ PLPtasks' = PLPtasks
           \/ /\ PLPtasks # <<>> /\ Head(PLPtasks) # "INITIALIZE"
              /\ PLPtasks' = Tail(PLPtasks) \/ PLPtasks' = Append(Tail(PLPtasks), "NORMAL")
    BY <1>5 DEF PLPCannotSchedule, PLPTakesDummy, PLPCreates, PLPInitializeFails, PLPTakes, lists,
                data, tasks
  <2>2. NInits' = NInits
    BY <1>1, <2>1, PLPDrops, PLPReplaces DEF NInits, Pending
  <2>3. NDummy' = NDummy
    BY <1>1, <1>5 DEF PLPCannotSchedule, PLPTakesDummy, PLPCreates, PLPInitializeFails, dummies,
                      NDummy, DummyOut, DummyLists
  <2>4. NReady' = NReady /\ NLoaded' = NLoaded /\ NTasks' = NTasks /\ NLoads' = NLoads
        /\ NUnlocks' = NUnlocks
    BY <2>1 DEF NReady, NLoaded, NTasks, NLoads, NUnlocks, Pending
  <2>5. Wanting' = Wanting /\ Planned' = Planned
    BY <1>3, <2>2, <2>3, <2>4 DEF Wanting, Planned
  <2>6. Wanting' <= Wanting /\ Planned' >= Planned /\ NIdle' <= NIdle
    BY <1>3, <1>4, <2>5
  <2>7. QED  BY <2>6, BalanceEven
<1>6. CASE PLPAdmits
  <2>1. /\ UNCHANGED <<READY, dummiedQueue, dummyIn, PLPtasks>> /\ AddPCPTask("LOAD_DUMMY")
        /\ "LOAD_DUMMY" \in PCPKinds
    BY <1>6 DEF PLPAdmits, data, PCPKinds
  <2>2. NTasks' = NTasks + 1 /\ NLoads' = NLoads + 1 /\ NUnlocks' = NUnlocks + 0
    BY <1>1, <2>1, TaskPosted
  <2>3. NReady' = NReady /\ NLoaded' = NLoaded /\ NDummy' = NDummy /\ NInits' = NInits
    BY <2>1 DEF NReady, NLoaded, NDummy, NInits, Pending
  <2>4. Wanting' = NReady + NDummy + NLoaded + (NUnlocks + 0) + (NLoads + 1) + NUnlocking
    BY <1>3, <2>2, <2>3 DEF Wanting
  <2>5. Planned' = (NTasks + 1) + NInits + NTaken + NTelling
    BY <1>3, <2>2, <2>3 DEF Planned
  <2>6. Wanting' = Wanting + 1 /\ Planned' = Planned + 1
    <3>1. PICK w, p : /\ w = NReady + NDummy + NLoaded + (NUnlocks + 0) + (NLoads + 1) + NUnlocking
                      /\ p = (NTasks + 1) + NInits + NTaken + NTelling
      OBVIOUS
    <3>2. w = Wanting + 1 /\ p = Planned + 1
      BY <3>1 DEF Amounts, Wanting, Planned
    <3>3. QED  BY <2>4, <2>5, <3>1, <3>2
  <2>7. Wanting' <= Wanting + 1 /\ Planned' >= Planned + 1 /\ NIdle' <= NIdle + 1
    BY <1>3, <1>4, <2>6
  <2>8. QED  BY <2>7, BalanceMore
<1>7. CASE PLPInitializes
  <2>1. /\ PLPtasks # <<>> /\ Head(PLPtasks) = "INITIALIZE"
        /\ PLPtasks' = Append(Tail(PLPtasks), "NORMAL")
        /\ READY' = READY \cup Loaded /\ dummiedQueue' = <<>> /\ dummyIn' = dummyIn
        /\ AddPCPTask("NORMAL") /\ "NORMAL" \in PCPKinds
    BY <1>7 DEF PLPInitializes, PLPTakes, dummies, PCPKinds
  <2>2. NInits' = NInits - 1
    <3>1. PLPtasks \in Seq(PLPKinds) /\ "NORMAL" \in PLPKinds
      BY <1>1 DEF TasksType, PLPKinds
    <3>2. Pending(Append(Tail(PLPtasks), "NORMAL"), "INITIALIZE")
            = Pending(PLPtasks, "INITIALIZE") - 1 + 0
      BY <2>1, <3>1, PendingReplans
    <3>3. NInits' = Pending(PLPtasks', "INITIALIZE")
      BY DEF NInits, Pending
    <3>4. NInits' = NInits - 1 + 0
      BY <2>1, <3>2, <3>3 DEF NInits
    <3>5. NInits - 1 + 0 = NInits - 1
      BY DEF Amounts
    <3>6. QED  BY <3>4, <3>5
  <2>3. NTasks' = NTasks + 1 /\ NLoads' = NLoads + 0 /\ NUnlocks' = NUnlocks + 0
    BY <1>1, <2>1, TaskPosted
  <2>4. PICK n : n = Cardinality(READY')
    OBVIOUS
  <2>5. n \in Nat /\ n <= NReady + NLoaded
    <3>1. PICK R, L : R = READY /\ L = Loaded
      OBVIOUS
    <3>2. /\ IsFiniteSet(R) /\ IsFiniteSet(L) /\ Cardinality(L) \in Nat /\ Cardinality(L) <= NLoaded
          /\ Cardinality(R) = NReady
      BY <1>1, <3>1, LoadedCount DEF NReady
    <3>3. /\ IsFiniteSet(R \cup L)
          /\ Cardinality(R \cup L) = Cardinality(R) + Cardinality(L) - Cardinality(R \cap L)
      BY <3>2, FS_Union
    <3>4. R \cap L \in SUBSET R
      OBVIOUS
    <3>5. IsFiniteSet(R \cap L)
      BY <3>2, <3>4, FS_Subset
    <3>6. Cardinality(R \cap L) \in Nat /\ Cardinality(R \cup L) \in Nat
      BY <3>3, <3>5, FS_CardinalityType
    <3>7. NReady \in Nat /\ NLoaded \in Nat
      BY DEF Amounts
    <3>8. Cardinality(R \cup L) <= NReady + NLoaded
      BY <3>2, <3>3, <3>6, <3>7
    <3>9. n = Cardinality(R \cup L)
      BY <2>1, <2>4, <3>1
    <3>10. QED  BY <3>6, <3>8, <3>9
  <2>6. NReady' = n
    BY <2>4 DEF NReady
  <2>7. NLoaded' = 0 /\ NDummy' = NDummy
    BY <2>1 DEF NLoaded, NDummy
  <2>8. Wanting' = n + NDummy + 0 + (NUnlocks + 0) + (NLoads + 0) + NUnlocking
    BY <1>3, <2>3, <2>6, <2>7 DEF Wanting
  <2>9. Planned' = (NTasks + 1) + (NInits - 1) + NTaken + NTelling
    BY <1>3, <2>2, <2>3 DEF Planned
  <2>10. Wanting' <= Wanting
    <3>1. PICK w : w = n + NDummy + 0 + (NUnlocks + 0) + (NLoads + 0) + NUnlocking
      OBVIOUS
    <3>2. w <= Wanting
      BY <2>5, <3>1 DEF Amounts, Wanting
    <3>3. QED  BY <2>8, <3>1, <3>2
  <2>11. Planned' = Planned
    <3>1. PICK p : p = (NTasks + 1) + (NInits - 1) + NTaken + NTelling
      OBVIOUS
    <3>2. p = Planned
      BY <3>1 DEF Amounts, Planned
    <3>3. QED  BY <2>9, <3>1, <3>2
  <2>12. Planned' >= Planned /\ NIdle' <= NIdle
    BY <1>3, <1>4, <2>11
  <2>13. QED  BY <2>10, <2>12, BalanceEven
<1>8. QED  BY <1>5, <1>6, <1>7 DEF PLP

\* The tasks that will put a DTB or the dummy in READY are some of the tasks.
LEMMA TasksSplit == TasksType => NUnlocks + NLoads <= NTasks
<1> SUFFICES ASSUME TasksType PROVE NUnlocks + NLoads <= NTasks
  OBVIOUS
<1>1. PICK U, L, D : /\ U = {i \in DOMAIN PCPtasks : PCPtasks[i] = "UNLOCK"}
                     /\ L = {i \in DOMAIN PCPtasks : PCPtasks[i] = "LOAD_DUMMY"}
                     /\ D = DOMAIN PCPtasks
  OBVIOUS
<1>2. D = 1 .. NTasks /\ NTasks \in Nat
  BY <1>1 DEF TasksType, NTasks
<1>3. IsFiniteSet(D) /\ Cardinality(D) = NTasks
  BY <1>2, FS_Interval
<1>4. U \in SUBSET D /\ L \in SUBSET D /\ U \cap L = {} /\ (U \cup L) \in SUBSET D
  BY <1>1
<1>5. IsFiniteSet(U) /\ IsFiniteSet(L)
  BY <1>3, <1>4, FS_Subset
<1>6. Cardinality(U) \in Nat /\ Cardinality(L) \in Nat
  BY <1>5, FS_CardinalityType
<1>7. Cardinality(U \cup L) = Cardinality(U) + Cardinality(L) - Cardinality(U \cap L)
  BY <1>5, FS_Union
<1>8. Cardinality(U \cap L) = 0
  <2>1. Cardinality({}) = 0
    BY FS_EmptySet
  <2>2. QED  BY <1>4, <2>1, Zenon
<1>9. Cardinality(U \cup L) <= Cardinality(D)
  BY <1>3, <1>4, FS_Subset
<1>10. NUnlocks = Cardinality(U) /\ NLoads = Cardinality(L)
  BY <1>1 DEF NUnlocks, NLoads, Pending
<1>11. QED  BY <1>3, <1>6, <1>7, <1>8, <1>9, <1>10

\* The posts of loads and those of operations are among the posts.
LEMMA PostsSplit ==
  ASSUME IsFiniteSet(jobs)
  PROVE  Posting({"DUMMY"}) \in Nat /\ Posting({"DUMMY"}) + NUnlocking <= NTelling
<1>1. PICK U, L, D : /\ U = PostingOf({"IODONE", "EOQUANTUM"}) /\ L = PostingOf({"DUMMY"})
                     /\ D = PostingOf(Telling)
  OBVIOUS
<1>2. U \in SUBSET D /\ L \in SUBSET D /\ U \cap L = {} /\ (U \cup L) \in SUBSET D
  BY <1>1 DEF PostingOf, Telling
<1>3. /\ IsFiniteSet(U) /\ IsFiniteSet(L) /\ IsFiniteSet(D)
      /\ NUnlocking = Cardinality(U) /\ Posting({"DUMMY"}) = Cardinality(L) /\ NTelling = Cardinality(D)
      /\ NUnlocking \in Nat /\ Posting({"DUMMY"}) \in Nat /\ NTelling \in Nat
  BY <1>1, PostingIs DEF NUnlocking, NTelling
<1>4. Cardinality(U \cup L) = Cardinality(U) + Cardinality(L) - Cardinality(U \cap L)
  BY <1>3, FS_Union
<1>5. Cardinality(U \cap L) = 0
  <2>1. Cardinality({}) = 0
    BY FS_EmptySet
  <2>2. QED  BY <1>2, <2>1, Zenon
<1>6. Cardinality(U \cup L) <= Cardinality(D)
  BY <1>2, <1>3, FS_Subset
<1>7. QED  BY <1>3, <1>4, <1>5, <1>6

\* When none is READY, each of those to come has its task.
LEMMA NoneReady ==
  TypeOK /\ IsFiniteSet(jobs) /\ IsFiniteSet(CPUs) /\ EveryTaskHasItsDatum
    /\ NReady = 0 /\ NDummy = 0 => Dispatch
<1> SUFFICES ASSUME TypeOK, IsFiniteSet(jobs), IsFiniteSet(CPUs), EveryTaskHasItsDatum,
                    NReady = 0, NDummy = 0
             PROVE  Dispatch
  OBVIOUS
<1>1. Amounts
  BY AmountsAre
<1>2. NUnlocks + NLoads <= NTasks
  BY TasksSplit DEF TypeOK
<1>3. Posting({"DUMMY"}) \in Nat /\ Posting({"DUMMY"}) + NUnlocking <= NTelling
  BY PostsSplit
<1>4. NLoaded <= NInits + Posting({"DUMMY"})
  BY DEF EveryTaskHasItsDatum, NLoaded, NInits
<1>5. PICK d : d = Posting({"DUMMY"})
  OBVIOUS
<1>6. d \in Nat /\ d + NUnlocking <= NTelling /\ NLoaded <= NInits + d
  BY <1>3, <1>4, <1>5
<1>7. QED  BY <1>1, <1>2, <1>6 DEF Dispatch, Wanting, Planned, Amounts

\* The short-term planner: what it takes it dispatches, or hands on.
LEMMA DispatchPCP ==
  ASSUME TypeOK, TypeOK', Fresh, IsFiniteSet(jobs), IsFiniteSet(CPUs), EveryTaskHasItsDatum,
         EveryTaskHasItsDatum', Amounts, Amounts', Dispatch, Next, PCP
  PROVE  Dispatch'
<1>1. /\ TasksType /\ IsFiniteSet(READY) /\ IsFiniteSet(IdleCPUs) /\ dummyIn \in [DummyLists -> Nat]
      /\ NIdle \in Nat /\ NReady \in Nat /\ NDummy \in Nat
  BY AmountsAre DEF TypeOK, DummyType, Amounts
<1>2. jobs' = jobs /\ dummiedQueue' = dummiedQueue /\ cpus' = cpus
      /\ (PLPtasks' = PLPtasks \/ PLPtasks' = Append(PLPtasks, "NORMAL"))
  BY JobsAlone
  DEF PCP, PCPDispatches, PCPDispatchesDTB, PCPDispatchesDummy, PCPCannotSchedule, PCPCanSchedule,
      PCPDispatchFails, PCPLoadsDummy, PCPFreesDummy, PCPFreedDummy, PCPBlocks, PCPBlockFails,
      PCPUnlocks, PCPUnlockFails, PCPEnds, PCPEnded, PCPEndFails, tasks, PLPNeeded, AddPLPTask,
      data, holder
<1>3. NUnlocking' = NUnlocking /\ NTelling' = NTelling /\ NLoaded' = NLoaded
  BY <1>2 DEF NUnlocking, NTelling, Posting, NLoaded
<1>4. NInits' = NInits
  <2>1. "NORMAL" \in PLPKinds
    BY DEF PLPKinds
  <2>2. NInits' = NInits \/ NInits' = NInits + 0
    BY <1>1, <1>2, <2>1, PLPPending DEF NInits
  <2>3. QED  BY <2>2 DEF Amounts
<1>5. NReady' = 0 /\ NDummy' = 0 => Dispatch'
  <2>1. (TypeOK /\ IsFiniteSet(jobs) /\ IsFiniteSet(CPUs) /\ EveryTaskHasItsDatum
          /\ NReady = 0 /\ NDummy = 0 => Dispatch)'
    BY NoneReady, PTL
  <2>2. IsFiniteSet(jobs')
    BY <1>2
  <2>3. QED  BY <2>1, <2>2
<1>6. ~PCPDispatches => UNCHANGED busy /\ NIdle' = NIdle
  BY <1>2
  DEF NIdle, IdleCPUs, PCP, PCPCannotSchedule, PCPCanSchedule,
      PCPDispatchFails, PCPLoadsDummy, PCPFreesDummy, PCPFreedDummy, PCPBlocks, PCPBlockFails,
      PCPUnlocks, PCPUnlockFails, PCPEnds, PCPEnded, PCPEndFails, holder
<1>7. NIdle <= NIdle /\ Wanting \in Nat /\ Planned \in Nat
  BY SumsAre
<1>8. ASSUME ~PCPDispatches,
             NEW w \in Nat, NEW p \in Nat, w <= Wanting, p = Planned, Wanting' = w, Planned' = p
      PROVE  Dispatch'
  <2>1. NIdle' <= NIdle /\ Wanting' <= Wanting /\ Planned' >= Planned
    BY <1>6, <1>7, <1>8
  <2>2. QED  BY <2>1, BalanceEven
<1>9. NTasks \in Nat /\ NLoads \in Nat /\ NUnlocks \in Nat /\ NTaken \in Nat
  BY DEF Amounts
<1>10. CASE PCPDispatchFails \/ PCPBlockFails \/ PCPUnlockFails \/ PCPEndFails
  <2>1. UNCHANGED <<READY, dummyIn, PCPtasks, PLPtasks, pcp, busy>>
    BY <1>10 DEF PCPDispatchFails, PCPBlockFails, PCPUnlockFails, PCPEndFails, lists, dummies, tasks,
                 threads, holder
  <2>2. NIdle' <= NIdle
    BY <1>2, <1>7, <2>1 DEF NIdle, IdleCPUs
  <2>3. QED  BY <1>2, <1>3, <2>1, <2>2, DispatchFrame
<1>11. CASE PCPCannotSchedule
  <2>1. UNCHANGED <<READY, dummyIn>> /\ (IdleCPUs' = {} \/ NoReadyDTBs)
    BY <1>2, <1>6, <1>11 DEF PCPCannotSchedule, lists, dummies, IdleCPUs, holder
  <2>2. CASE IdleCPUs' = {}
    <3>1. Cardinality({}) = 0
      BY FS_EmptySet
    <3>2. NIdle' = 0
      BY <2>2, <3>1 DEF NIdle
    <3>3. (Amounts => Planned \in Nat)'
      BY SumsAre, PTL
    <3>4. NIdle' <= Planned'
      BY <3>2, <3>3
    <3>5. QED  BY <3>4 DEF Dispatch
  <2>3. CASE NoReadyDTBs
    <3>1. READY' = {} /\ dummyIn'["READY"] = 0
      BY <2>1, <2>3 DEF NoReadyDTBs
    <3>2. Cardinality({}) = 0
      BY FS_EmptySet
    <3>3. NReady' = 0 /\ NDummy' = 0
      BY <3>1, <3>2 DEF NReady, NDummy
    <3>4. QED  BY <1>5, <3>3
  <2>4. QED  BY <2>1, <2>2, <2>3
<1>12. CASE PCPCanSchedule
  <2>1. /\ PCPTakes("NORMAL") /\ PCPtasks' = Tail(PCPtasks) /\ UNCHANGED <<READY, dummyIn>>
        /\ pcp'.at = "dispatch"
    BY <1>12 DEF PCPCanSchedule, lists, dummies, TypeOK, ThreadsType, Thread
  <2>2. /\ NTasks > 0 /\ NTaken = 0 /\ NTaken' = 1 /\ NTasks' = NTasks - 1
        /\ NLoads' = NLoads - 0 /\ NUnlocks' = NUnlocks - 0
    BY <1>1, <2>1, TaskTaken DEF NTaken
  <2>3. NReady' = NReady /\ NDummy' = NDummy
    BY <2>1 DEF NReady, NDummy
  <2>4. PICK w, p : /\ w = NReady + NDummy + NLoaded + (NUnlocks - 0) + (NLoads - 0) + NUnlocking
                    /\ p = (NTasks - 1) + NInits + 1 + NTelling
    OBVIOUS
  <2>5. Wanting' = w /\ Planned' = p
    BY <1>3, <1>4, <2>2, <2>3, <2>4 DEF Wanting, Planned
  <2>6. w \in Nat /\ p \in Nat /\ w <= Wanting /\ p = Planned
    BY <2>2, <2>4 DEF Amounts, Wanting, Planned
  <2>7. ~PCPDispatches
    BY <2>1 DEF PCPDispatches, PCPDispatchesDTB, PCPDispatchesDummy, PCPTakes
  <2>8. QED  BY <1>8, <2>5, <2>6, <2>7
<1>13. CASE PCPDispatches
  <2>1. PICK c \in IdleCPUs : PCPDispatchesDummy(c) \/ \E d \in READY : PCPDispatchesDTB(c, d)
    BY <1>13 DEF PCPDispatches
  <2>2. /\ busy' = busy \cup {c} /\ PCPtasks' = PCPtasks /\ pcp.at = "dispatch" /\ pcp'.at = "wait"
    BY <2>1 DEF PCPDispatchesDummy, PCPDispatchesDTB, tasks, Waiting
  <2>3. IdleCPUs' \subseteq IdleCPUs \ {c}
    BY <1>2, <2>2 DEF IdleCPUs
  <2>4. NIdle' <= NIdle - 1
    BY <1>1, <2>3, IdleCount
  <2>5. NTasks' = NTasks /\ NLoads' = NLoads /\ NUnlocks' = NUnlocks /\ NTaken = 1 /\ NTaken' = 0
    BY <2>2 DEF NTasks, NLoads, NUnlocks, Pending, NTaken
  <2>6. /\ NReady' \in {NReady, NReady - 1} /\ NDummy' \in {NDummy, NDummy - 1}
        /\ NReady' = NReady <=> NDummy' # NDummy
    <3>1. CASE PCPDispatchesDummy(c)
      <4>1. READY' = READY /\ dummyIn'["READY"] = dummyIn["READY"] - 1
        BY <1>1, <3>1 DEF PCPDispatchesDummy, lists, DummyInto, DummyOut, DummyLists
      <4>2. NReady' = NReady /\ NDummy' = NDummy - 1 /\ NDummy - 1 # NDummy
        BY <1>1, <4>1 DEF NReady, NDummy
      <4>3. QED  BY <4>2
    <3>2. CASE \E d \in READY : PCPDispatchesDTB(c, d)
      <4>1. PICK d \in READY : PCPDispatchesDTB(c, d)
        BY <3>2
      <4>2. READY' = READY \ {d} /\ dummyIn' = dummyIn
        BY <4>1 DEF PCPDispatchesDTB, dummies
      <4>3. PICK R : R = READY
        OBVIOUS
      <4>4. Cardinality(R \ {d}) = Cardinality(R) - 1
        BY <1>1, <4>3, FS_RemoveElement
      <4>5. NReady' = NReady - 1 /\ NDummy' = NDummy /\ NReady - 1 # NReady
        BY <1>1, <4>2, <4>3, <4>4 DEF NReady, NDummy
      <4>6. QED  BY <4>5
    <3>3. QED  BY <2>1, <3>1, <3>2
  <2>7. PICK r, d : r = NReady' /\ d = NDummy'
    OBVIOUS
  <2>8. PICK w, p : /\ w = r + d + NLoaded + NUnlocks + NLoads + NUnlocking
                    /\ p = NTasks + NInits + 0 + NTelling
    OBVIOUS
  <2>9. Wanting' = w /\ Planned' = p
    BY <1>3, <1>4, <2>5, <2>7, <2>8 DEF Wanting, Planned
  <2>10. r + d = NReady + NDummy - 1
    <3>1. PICK a, b : a = NReady /\ b = NDummy
      OBVIOUS
    <3>2. a \in Nat /\ b \in Nat /\ r \in {a, a - 1} /\ d \in {b, b - 1} /\ (r = a <=> d # b)
      BY <1>1, <2>6, <2>7, <3>1
    <3>3. QED  BY <3>1, <3>2
  <2>11. w <= Wanting - 1 /\ p >= Planned - 1
    <3>1. r \in Int /\ d \in Int
      BY <1>1, <2>6, <2>7
    <3>2. QED  BY <2>5, <2>8, <2>10, <3>1 DEF Amounts, Wanting, Planned
  <2>12. Wanting' <= Wanting - 1 /\ Planned' >= Planned - 1
    BY <2>9, <2>11
  <2>13. QED  BY <2>4, <2>12, BalanceLess
<1>14. CASE PCPLoadsDummy
  <2>1. /\ PCPTakes("LOAD_DUMMY") /\ PCPReplans /\ READY' = READY /\ pcp' = pcp
        /\ dummyIn'["READY"] = dummyIn["READY"] + 1
    BY <1>1, <1>14 DEF PCPLoadsDummy, lists, threads, DummyInto, DummyLists
  <2>2. NTasks' = NTasks /\ NLoads' = NLoads - 1 /\ NUnlocks' = NUnlocks - 0
    BY <1>1, <2>1, TaskTaken
  <2>3. NReady' = NReady /\ NDummy' = NDummy + 1 /\ NTaken' = NTaken
    BY <2>1 DEF NReady, NDummy, NTaken
  <2>4. PICK w, p : /\ w = NReady + (NDummy + 1) + NLoaded + (NUnlocks - 0) + (NLoads - 1) + NUnlocking
                    /\ p = NTasks + NInits + NTaken + NTelling
    OBVIOUS
  <2>5. Wanting' = w /\ Planned' = p
    BY <1>3, <1>4, <2>2, <2>3, <2>4 DEF Wanting, Planned
  <2>6. w \in Nat /\ p \in Nat /\ w <= Wanting /\ p = Planned
    BY <2>4 DEF Amounts, Wanting, Planned
  <2>7. ~PCPDispatches
    BY <2>1 DEF PCPDispatches, PCPDispatchesDTB, PCPDispatchesDummy, PCPTakes
  <2>8. QED  BY <1>8, <2>5, <2>6, <2>7
<1>15. CASE PCPFreesDummy \/ PCPEnds
  <2>1. PICK t \in {"FREE_DUMMY", "END"} : PCPTakes(t)
    BY <1>15 DEF PCPFreesDummy, PCPEnds
  <2>2. PCPtasks' = Tail(PCPtasks) /\ pcp'.at \in {"freeDummy", "exit"} /\ READY' \subseteq READY
    BY <1>1, <1>15 DEF PCPFreesDummy, PCPEnds, lists, TypeOK, ThreadsType, Thread, EndsDummy, EndsQueued,
                       EndsLoading
  <2>3. dummyIn'["READY"] \in Nat /\ dummyIn'["READY"] <= dummyIn["READY"]
    <3>1. CASE PCPFreesDummy
      BY <1>1, <3>1 DEF PCPFreesDummy, DummyOut, DummyLists
    <3>2. CASE PCPEnds /\ dummyIn' = dummyIn
      BY <1>1, <3>2 DEF DummyLists
    <3>3. CASE PCPEnds /\ dummyIn' # dummyIn
      <4>1. PICK i \in 1..3 : dummyIn' = DummyInto(DummyOut(dummyIn, SearchOrder[i]), "EXIT")
        BY <3>3 DEF PCPEnds, EndsDummy, EndsQueued, EndsLoading, dummies
      <4>2. SearchOrder[i] \in {"BLOCKED", "READY", "EXEC"}
        BY DEF SearchOrder
      <4>3. QED  BY <1>1, <4>1, <4>2 DEF DummyInto, DummyOut, DummyLists
    <3>4. QED  BY <1>15, <3>1, <3>2, <3>3
  <2>4. /\ NTasks > 0 /\ NTaken = 0 /\ NTaken' = 1 /\ NTasks' = NTasks - 1
        /\ NLoads' = NLoads - 0 /\ NUnlocks' = NUnlocks - 0
    BY <1>1, <2>1, <2>2, TaskTaken DEF NTaken
  <2>5. PICK r, d : r = NReady' /\ d = NDummy'
    OBVIOUS
  <2>6. r \in Nat /\ d \in Nat /\ r <= NReady /\ d <= NDummy
    <3>1. PICK R, S : R = READY /\ S = READY'
      OBVIOUS
    <3>2. S \in SUBSET R /\ IsFiniteSet(R)
      BY <1>1, <2>2, <3>1
    <3>3. Cardinality(S) <= Cardinality(R) /\ IsFiniteSet(S)
      BY <3>2, FS_Subset
    <3>4. Cardinality(S) \in Nat
      BY <3>3, FS_CardinalityType
    <3>5. r = Cardinality(S) /\ NReady = Cardinality(R)
      BY <2>5, <3>1 DEF NReady
    <3>6. QED  BY <2>3, <2>5, <3>3, <3>4, <3>5 DEF NDummy
  <2>7. PICK w, p : /\ w = r + d + NLoaded + (NUnlocks - 0) + (NLoads - 0) + NUnlocking
                    /\ p = (NTasks - 1) + NInits + 1 + NTelling
    OBVIOUS
  <2>8. Wanting' = w /\ Planned' = p
    BY <1>3, <1>4, <2>4, <2>5, <2>7 DEF Wanting, Planned
  <2>9. w \in Nat /\ p \in Nat /\ w <= Wanting /\ p = Planned
    BY <2>4, <2>6, <2>7 DEF Amounts, Wanting, Planned
  <2>10. ~PCPDispatches
    BY <2>1 DEF PCPDispatches, PCPDispatchesDTB, PCPDispatchesDummy, PCPTakes
  <2>11. QED  BY <1>8, <2>8, <2>9, <2>10
<1>16. CASE PCPFreedDummy \/ PCPEnded
  <2>1. /\ AddPCPTask("NORMAL") /\ "NORMAL" \in PCPKinds /\ pcp.at \in {"freeDummy", "exit"}
        /\ pcp'.at = "wait" /\ READY' = READY
    BY <1>16 DEF PCPFreedDummy, PCPEnded, lists, Waiting, PCPKinds
  <2>2. dummyIn'["READY"] = dummyIn["READY"]
    BY <1>1, <1>16 DEF PCPFreedDummy, PCPEnded, dummies, DummyInto, DummyLists
  <2>3. NTasks' = NTasks + 1 /\ NLoads' = NLoads + 0 /\ NUnlocks' = NUnlocks + 0
    BY <1>1, <2>1, TaskPosted
  <2>4. NTaken = 1 /\ NTaken' = 0 /\ NReady' = NReady /\ NDummy' = NDummy
    BY <2>1, <2>2 DEF NTaken, NReady, NDummy
  <2>5. PICK w, p : /\ w = NReady + NDummy + NLoaded + (NUnlocks + 0) + (NLoads + 0) + NUnlocking
                    /\ p = (NTasks + 1) + NInits + 0 + NTelling
    OBVIOUS
  <2>6. Wanting' = w /\ Planned' = p
    BY <1>3, <1>4, <2>3, <2>4, <2>5 DEF Wanting, Planned
  <2>7. w \in Nat /\ p \in Nat /\ w <= Wanting /\ p = Planned
    BY <2>4, <2>5 DEF Amounts, Wanting, Planned
  <2>8. ~PCPDispatches
    BY <2>1 DEF PCPDispatches, PCPDispatchesDTB, PCPDispatchesDummy
  <2>9. QED  BY <1>8, <2>6, <2>7, <2>8
<1>17. CASE PCPBlocks
  <2>1. /\ PCPTakes("BLOCK") /\ PCPReplans /\ READY' = READY /\ pcp' = pcp /\ dummyIn' = dummyIn
    BY <1>17, BlocksNoDummy DEF PCPBlocks, threads, dummies
  <2>2. NTasks' = NTasks /\ NLoads' = NLoads - 0 /\ NUnlocks' = NUnlocks - 0
    BY <1>1, <2>1, TaskTaken
  <2>3. NReady' = NReady /\ NDummy' = NDummy /\ NTaken' = NTaken
    BY <2>1 DEF NReady, NDummy, NTaken
  <2>4. PICK w, p : /\ w = NReady + NDummy + NLoaded + (NUnlocks - 0) + (NLoads - 0) + NUnlocking
                    /\ p = NTasks + NInits + NTaken + NTelling
    OBVIOUS
  <2>5. Wanting' = w /\ Planned' = p
    BY <1>3, <1>4, <2>2, <2>3, <2>4 DEF Wanting, Planned
  <2>6. w \in Nat /\ p \in Nat /\ w <= Wanting /\ p = Planned
    BY <2>4 DEF Amounts, Wanting, Planned
  <2>7. ~PCPDispatches
    BY <2>1 DEF PCPDispatches, PCPDispatchesDTB, PCPDispatchesDummy, PCPTakes
  <2>8. QED  BY <1>8, <2>5, <2>6, <2>7
<1>18. CASE PCPUnlocks
  <2>1. /\ PCPTakes("UNLOCK") /\ PCPReplans /\ pcp' = pcp /\ dummyIn' = dummyIn
        /\ READY' = READY \cup {FirstOf(toBeUnlocked)}
    BY <1>18 DEF PCPUnlocks, threads, dummies
  <2>2. NTasks' = NTasks /\ NLoads' = NLoads - 0 /\ NUnlocks' = NUnlocks - 1
    BY <1>1, <2>1, TaskTaken
  <2>3. NDummy' = NDummy /\ NTaken' = NTaken
    BY <2>1 DEF NDummy, NTaken
  <2>4. PICK r : r = NReady'
    OBVIOUS
  <2>5. r \in Nat /\ r <= NReady + 1
    <3>1. PICK R, x : R = READY /\ x = FirstOf(toBeUnlocked)
      OBVIOUS
    <3>2. /\ IsFiniteSet(R) /\ NReady = Cardinality(R) /\ NReady \in Nat
          /\ r = Cardinality(R \cup {x})
      BY <1>1, <2>1, <2>4, <3>1 DEF NReady
    <3>3. Cardinality(R \cup {x}) = IF x \in R THEN Cardinality(R) ELSE Cardinality(R) + 1
      BY <3>2, FS_AddElement
    <3>4. QED  BY <3>2, <3>3
  <2>6. PICK w, p : /\ w = r + NDummy + NLoaded + (NUnlocks - 1) + (NLoads - 0) + NUnlocking
                    /\ p = NTasks + NInits + NTaken + NTelling
    OBVIOUS
  <2>7. Wanting' = w /\ Planned' = p
    BY <1>3, <1>4, <2>2, <2>3, <2>4, <2>6 DEF Wanting, Planned
  <2>8. NUnlocks - 1 \in Nat
    <3>1. NUnlocks' \in Nat
      BY DEF Amounts
    <3>2. QED  BY <2>2, <3>1
  <2>9. w \in Nat /\ p \in Nat /\ w <= Wanting /\ p = Planned
    BY <2>5, <2>6, <2>8 DEF Amounts, Wanting, Planned
  <2>10. ~PCPDispatches
    BY <2>1 DEF PCPDispatches, PCPDispatchesDTB, PCPDispatchesDummy, PCPTakes
  <2>11. QED  BY <1>8, <2>7, <2>9, <2>10
<1>19. QED
  BY <1>10, <1>11, <1>12, <1>13, <1>14, <1>15, <1>16, <1>17, <1>18 DEF PCP

\* A handler frees a CPU, or wants one, with the announcement of a task ...
LEMMA DispatchPushes ==
  ASSUME TypeOK, IsFiniteSet(jobs), IsFiniteSet(CPUs), NoTwins, Amounts, Amounts', Dispatch,
         NEW j \in jobs, Handler(j), j.at = "start"
  PROVE  Dispatch'
<1>1. /\ Pushed(j) /\ j.msg \notin {"EJECUTAR", "FINALIZAR"} /\ UNCHANGED <<PCPtasks, PLPtasks>>
      /\ dummiedQueue' = IF j.msg = "DUMMY" THEN Append(dummiedQueue, j.id) ELSE dummiedQueue
  BY HandlerPushes
<1>2. /\ UNCHANGED <<READY, dummyIn, pcp, cpus>> /\ (busy' = busy \/ busy' = busy \ {j.cpu})
  BY DEF Handler, Comms_DAM_DummyFinished, Comms_DAM_OperationFinished, Comms_DAM_IOError,
         Comms_CPU_ErrorOrEOF, Comms_CPU_DummyAtDAM, Comms_CPU_DTBAtDAM, Comms_CPU_OutOfQuantum,
         FreeCPU, lists, dummies, threads
<1>3. j \in Jobs /\ OutsideType /\ IsFiniteSet(IdleCPUs) /\ NIdle \in Nat
  BY AmountsAre DEF TypeOK, OutsideType, Amounts
<1>4. PICK k : k = [j EXCEPT !.at = "post"]
  OBVIOUS
<1>5. Key(k) = Key(j) /\ k.at = "post" /\ k.msg = j.msg /\ j.id \in Ids
  BY <1>3, <1>4 DEF Key, Jobs
<1>6. [j EXCEPT !.at = "post"] \notin jobs
  BY <1>4, <1>5 DEF NoTwins
<1>7. j.msg \in Telling
  BY <1>1, <1>3 DEF Telling, Jobs, Messages
<1>8. /\ NTelling' = NTelling + (IF j.msg \in Telling THEN 1 ELSE 0)
      /\ NUnlocking' = NUnlocking + (IF j.msg \in {"IODONE", "EOQUANTUM"} THEN 1 ELSE 0)
  BY <1>1, <1>3, <1>6, PostingPushed DEF NTelling, NUnlocking
<1>9. NLoaded' = NLoaded + (IF j.msg = "DUMMY" THEN 1 ELSE 0)
  <2>1. Len(dummiedQueue) \in Nat /\ Len(Append(dummiedQueue, j.id)) = Len(dummiedQueue) + 1
    BY <1>5, DataLengths
  <2>2. QED  BY <1>1, <2>1 DEF NLoaded
<1>10. NIdle' <= NIdle + 1
  <2>1. IdleCPUs' \subseteq IdleCPUs \cup {j.cpu}
    BY <1>2 DEF IdleCPUs
  <2>2. QED  BY <1>3, <2>1, IdleCount
<1>11. /\ NReady' = NReady /\ NDummy' = NDummy /\ NUnlocks' = NUnlocks /\ NLoads' = NLoads
       /\ NTasks' = NTasks /\ NInits' = NInits /\ NTaken' = NTaken
  BY <1>1, <1>2 DEF NReady, NDummy, NUnlocks, NLoads, NTasks, NInits, NTaken, Pending
<1>12. PICK u, l : /\ u = (IF j.msg \in {"IODONE", "EOQUANTUM"} THEN 1 ELSE 0)
                   /\ l = (IF j.msg = "DUMMY" THEN 1 ELSE 0)
  OBVIOUS
<1>13. u \in Nat /\ l \in Nat /\ u + l <= 1
  BY <1>12
<1>14. PICK w, p : /\ w = NReady + NDummy + (NLoaded + l) + NUnlocks + NLoads + (NUnlocking + u)
                   /\ p = NTasks + NInits + NTaken + (NTelling + 1)
  OBVIOUS
<1>15. Wanting' = w /\ Planned' = p
  BY <1>7, <1>8, <1>9, <1>11, <1>12, <1>14 DEF Wanting, Planned
<1>16. w <= Wanting + 1 /\ p >= Planned + 1
  BY <1>13, <1>14 DEF Amounts, Wanting, Planned
<1>17. Wanting' <= Wanting + 1 /\ Planned' >= Planned + 1
  BY <1>15, <1>16
<1>18. QED  BY <1>10, <1>17, BalanceMore

\* ... and then posts it.
LEMMA DispatchPosts ==
  ASSUME TypeOK, IsFiniteSet(jobs), IsFiniteSet(CPUs), Amounts, Amounts', Dispatch,
         NEW j \in jobs, Handler(j), j.at = "post"
  PROVE  Dispatch'
<1>1. /\ Finished(j) /\ j.msg \notin {"EJECUTAR", "FINALIZAR"} /\ dummiedQueue' = dummiedQueue
      /\ \/ j.msg = "DUMMY" /\ PCPtasks' = PCPtasks /\ PLPtasks' = Append(PLPtasks, "INITIALIZE")
         \/ /\ j.msg \in {"BLOCKDUMMY", "BLOCKDTB", "IODONE", "EOQUANTUM", "IOERROR", "EOFORABORT"}
            /\ AddPCPTask(TaskOf(j.msg)) /\ PLPtasks' = PLPtasks
  BY HandlerPosts DEF data, AddPCPTask
<1>2. UNCHANGED <<READY, dummyIn, pcp, cpus, busy>>
  BY DEF Handler, Comms_DAM_DummyFinished, Comms_DAM_OperationFinished, Comms_DAM_IOError,
         Comms_CPU_ErrorOrEOF, Comms_CPU_DummyAtDAM, Comms_CPU_DTBAtDAM, Comms_CPU_OutOfQuantum,
         lists, dummies, threads
<1>3. j \in Jobs /\ TasksType /\ NIdle \in Nat
  BY DEF TypeOK, OutsideType, Amounts
<1>4. j.msg \in Telling
  BY <1>1, <1>3 DEF Telling, Jobs, Messages
<1>5. /\ NTelling' = NTelling - (IF j.msg \in Telling THEN 1 ELSE 0)
      /\ NUnlocking' = NUnlocking - (IF j.msg \in {"IODONE", "EOQUANTUM"} THEN 1 ELSE 0)
  BY <1>1, PostingFinished DEF NTelling, NUnlocking
<1>6. /\ NReady' = NReady /\ NDummy' = NDummy /\ NLoaded' = NLoaded /\ NTaken' = NTaken
      /\ NIdle' = NIdle
  BY <1>1, <1>2 DEF NReady, NDummy, NLoaded, NTaken, NIdle, IdleCPUs
<1>7. ASSUME NEW w \in Nat, NEW p \in Nat, w <= Wanting, p = Planned, Wanting' = w, Planned' = p
      PROVE  Dispatch'
  <2>1. NIdle' <= NIdle /\ Wanting' <= Wanting /\ Planned' >= Planned
    BY <1>3, <1>6, <1>7
  <2>2. QED  BY <2>1, BalanceEven
<1>8. CASE j.msg = "DUMMY"
  <2>1. NTasks' = NTasks /\ NLoads' = NLoads /\ NUnlocks' = NUnlocks
    BY <1>1, <1>8 DEF NTasks, NLoads, NUnlocks, Pending
  <2>2. "INITIALIZE" \in PLPKinds /\ PLPtasks' = Append(PLPtasks, "INITIALIZE")
    BY <1>1, <1>8 DEF PLPKinds
  <2>3. NInits' = NInits + 1
    BY <1>3, <2>2, PLPPending DEF NInits
  <2>4. NTelling' = NTelling - 1 /\ NUnlocking' = NUnlocking - 0
    BY <1>4, <1>5, <1>8
  <2>5. PICK w, p : /\ w = NReady + NDummy + NLoaded + NUnlocks + NLoads + (NUnlocking - 0)
                    /\ p = NTasks + (NInits + 1) + NTaken + (NTelling - 1)
    OBVIOUS
  <2>6. Wanting' = w /\ Planned' = p
    BY <1>6, <2>1, <2>3, <2>4, <2>5 DEF Wanting, Planned
  <2>7. w \in Nat /\ p \in Nat /\ w <= Wanting /\ p = Planned
    BY <2>5 DEF Amounts, Wanting, Planned
  <2>8. QED  BY <1>7, <2>6, <2>7
<1>9. CASE j.msg # "DUMMY"
  <2>1. PICK t : t = TaskOf(j.msg)
    OBVIOUS
  <2>2. /\ AddPCPTask(t) /\ PLPtasks' = PLPtasks /\ t \in PCPKinds /\ t # "LOAD_DUMMY"
        /\ (t = "UNLOCK" <=> j.msg \in {"IODONE", "EOQUANTUM"})
    BY <1>1, <1>9, <2>1 DEF TaskOf, PCPKinds
  <2>3. PICK u : u = (IF j.msg \in {"IODONE", "EOQUANTUM"} THEN 1 ELSE 0)
    OBVIOUS
  <2>4. NTasks' = NTasks + 1 /\ NLoads' = NLoads + 0 /\ NUnlocks' = NUnlocks + u
    BY <1>3, <2>2, <2>3, TaskPosted
  <2>5. NInits' = NInits
    BY <2>2 DEF NInits, Pending
  <2>6. NTelling' = NTelling - 1 /\ NUnlocking' = NUnlocking - u
    BY <1>4, <1>5, <2>3
  <2>7. PICK w, p : /\ w = NReady + NDummy + NLoaded + (NUnlocks + u) + (NLoads + 0) + (NUnlocking - u)
                    /\ p = (NTasks + 1) + NInits + NTaken + (NTelling - 1)
    OBVIOUS
  <2>8. Wanting' = w /\ Planned' = p
    BY <1>6, <2>4, <2>5, <2>6, <2>7 DEF Wanting, Planned
  <2>9. w \in Nat /\ p \in Nat /\ w <= Wanting /\ p = Planned
    <3>1. u \in Nat
      BY <2>3
    <3>2. QED  BY <2>7, <3>1 DEF Amounts, Wanting, Planned
  <2>10. QED  BY <1>7, <2>8, <2>9
<1>10. QED  BY <1>8, <1>9

\* The console: "finalizar" takes an idle CPU, and frees it with a task.
LEMMA DispatchConsole ==
  ASSUME TypeOK, IsFiniteSet(jobs), IsFiniteSet(CPUs), Amounts, Amounts', Dispatch,
         Console \/ \E j \in jobs : ConsoleJob(j)
  PROVE  Dispatch'
<1>1. /\ NIdle \in Nat /\ NUnlocking \in Nat /\ NTelling \in Nat /\ TasksType
      /\ IsFiniteSet(IdleCPUs) /\ NIdle <= NIdle /\ NInits \in Nat
  BY AmountsAre DEF Amounts, TypeOK
<1>2. CASE Console
  <2>1. UNCHANGED <<READY, dummyIn, dummiedQueue, PCPtasks, PLPtasks, pcp, cpus, busy>>
    BY <1>2 DEF Console, CommandEjecutar, CommandFinalizar, lists, dummies, tasks, threads, holder
  <2>2. NIdle' <= NIdle
    BY <1>1, <2>1 DEF NIdle, IdleCPUs
  <2>3. PICK k : jobs' = jobs \cup {k} /\ k.msg \in {"EJECUTAR", "FINALIZAR"}
    <3>1. CASE CommandEjecutar
      <4>1. PICK k : k = [msg |-> "EJECUTAR", id |-> nextID + scripts, cpu |-> NoCPU, n |-> 0,
                          at |-> "post"]
        OBVIOUS
      <4>2. jobs' = jobs \cup {k} /\ k.msg = "EJECUTAR"
        BY <3>1, <4>1 DEF CommandEjecutar
      <4>3. QED  BY <4>2
    <3>2. CASE \E id \in 0..MaxDTB : CommandFinalizar(id)
      <4>1. PICK id \in 0..MaxDTB : CommandFinalizar(id)
        BY <3>2
      <4>2. PICK k : k = [msg |-> "FINALIZAR", id |-> id, cpu |-> NoCPU, n |-> finalizars,
                          at |-> "start"]
        OBVIOUS
      <4>3. jobs' = jobs \cup {k} /\ k.msg = "FINALIZAR"
        BY <4>1, <4>2 DEF CommandFinalizar
      <4>4. QED  BY <4>3
    <3>3. QED  BY <1>2, <3>1, <3>2 DEF Console
  <2>4. /\ PostingOf({"IODONE", "EOQUANTUM"})' = PostingOf({"IODONE", "EOQUANTUM"})
        /\ PostingOf(Telling)' = PostingOf(Telling)
    BY <2>3 DEF PostingOf, Telling
  <2>5. NUnlocking' = NUnlocking /\ NTelling' = NTelling
    BY <2>4, PostingSame DEF NUnlocking, NTelling
  <2>6. QED  BY <2>1, <2>2, <2>5, DispatchFrame
<1>3. CASE \E j \in jobs : ConsoleJob(j)
  <2>1. PICK j \in jobs : ConsoleJob(j)
    BY <1>3
  <2>2. UNCHANGED <<READY, dummyIn, dummiedQueue, pcp, cpus>>
    BY <2>1 DEF ConsoleJob, CommandEjecutarPosts, CommandFinalizarTakesCPU, CommandFinalizarFails,
                CommandFinalizarPosts, lists, dummies, threads, holder, data
  <2>3. j.msg \in {"EJECUTAR", "FINALIZAR"} /\ jobs' \subseteq jobs \cup {k \in jobs' : k.msg = "FINALIZAR"}
        /\ jobs \ {j} \subseteq jobs'
    <3>1. CASE CommandFinalizarTakesCPU(j)
      <4>1. PICK c \in IdleCPUs : jobs' = (jobs \ {j}) \cup {[j EXCEPT !.at = "post", !.cpu = c]}
        BY <3>1 DEF CommandFinalizarTakesCPU
      <4>2. PICK k : k = [j EXCEPT !.at = "post", !.cpu = c]
        OBVIOUS
      <4>3. j \in Jobs /\ j.msg = "FINALIZAR"
        BY <3>1 DEF CommandFinalizarTakesCPU, TypeOK, OutsideType
      <4>4. k.msg = "FINALIZAR"
        BY <4>2, <4>3 DEF Jobs
      <4>5. jobs' = (jobs \ {j}) \cup {k}
        BY <4>1, <4>2
      <4>6. QED  BY <4>3, <4>4, <4>5
    <3>2. CASE CommandEjecutarPosts(j) \/ CommandFinalizarFails(j) \/ CommandFinalizarPosts(j)
      BY <3>2 DEF CommandEjecutarPosts, CommandFinalizarFails, CommandFinalizarPosts, Finished, outside
    <3>3. QED  BY <2>1, <3>1, <3>2 DEF ConsoleJob
  <2>4. /\ PostingOf({"IODONE", "EOQUANTUM"})' = PostingOf({"IODONE", "EOQUANTUM"})
        /\ PostingOf(Telling)' = PostingOf(Telling)
    BY <2>3 DEF PostingOf, Telling
  <2>5. NUnlocking' = NUnlocking /\ NTelling' = NTelling
    BY <2>4, PostingSame DEF NUnlocking, NTelling
  <2>6. NReady' = NReady /\ NDummy' = NDummy /\ NLoaded' = NLoaded /\ NTaken' = NTaken
    BY <2>2 DEF NReady, NDummy, NLoaded, NTaken
  <2>7. CASE CommandEjecutarPosts(j)
    <3>1. UNCHANGED <<PCPtasks, busy>> /\ PLPtasks' = Append(PLPtasks, "CREATE") /\ "CREATE" \in PLPKinds
      BY <2>7 DEF CommandEjecutarPosts, AddPLPTask, holder, PLPKinds
    <3>2. NInits' = NInits
      <4>1. NInits' = NInits + 0
        BY <1>1, <3>1, PLPPending DEF NInits
      <4>2. QED  BY <1>1, <4>1
    <3>3. NTasks' = NTasks /\ NLoads' = NLoads /\ NUnlocks' = NUnlocks /\ NIdle' = NIdle
      BY <2>2, <3>1 DEF NTasks, NLoads, NUnlocks, Pending, NIdle, IdleCPUs
    <3>4. Wanting' = Wanting /\ Planned' = Planned /\ Wanting \in Nat /\ Planned \in Nat
      BY <2>5, <2>6, <3>2, <3>3, SumsAre DEF Wanting, Planned
    <3>5. Wanting' <= Wanting /\ Planned' >= Planned /\ NIdle' <= NIdle
      BY <1>1, <3>3, <3>4
    <3>6. QED  BY <3>5, BalanceEven
  <2>8. CASE CommandFinalizarTakesCPU(j) \/ CommandFinalizarFails(j)
    <3>1. UNCHANGED <<PCPtasks, PLPtasks>> /\ IdleCPUs' \subseteq IdleCPUs
      BY <2>2, <2>8 DEF CommandFinalizarTakesCPU, CommandFinalizarFails, IdleCPUs, tasks, holder
    <3>2. NIdle' <= NIdle
      BY <1>1, <3>1, IdleCount
    <3>3. QED  BY <2>2, <2>5, <3>1, <3>2, DispatchFrame
  <2>9. CASE CommandFinalizarPosts(j)
    <3>1. /\ AddPCPTask("END") /\ "END" \in PCPKinds /\ PLPtasks' = PLPtasks
          /\ busy' = busy \ {j.cpu}
      BY <2>9 DEF CommandFinalizarPosts, FreeCPU, PCPKinds
    <3>2. NTasks' = NTasks + 1 /\ NLoads' = NLoads + 0 /\ NUnlocks' = NUnlocks + 0
      BY <1>1, <3>1, TaskPosted
    <3>3. IdleCPUs' \subseteq IdleCPUs \cup {j.cpu}
      BY <2>2, <3>1 DEF IdleCPUs
    <3>4. NIdle' <= NIdle + 1
      BY <1>1, <3>3, IdleCount
    <3>5. NInits' = NInits
      BY <3>1 DEF NInits, Pending
    <3>6. PICK w, p : /\ w = NReady + NDummy + NLoaded + (NUnlocks + 0) + (NLoads + 0) + NUnlocking
                      /\ p = (NTasks + 1) + NInits + NTaken + NTelling
      OBVIOUS
    <3>7. Wanting' = w /\ Planned' = p
      BY <2>5, <2>6, <3>2, <3>5, <3>6 DEF Wanting, Planned
    <3>8. w <= Wanting + 1 /\ p >= Planned + 1
      BY <3>6 DEF Amounts, Wanting, Planned
    <3>9. Wanting' <= Wanting + 1 /\ Planned' >= Planned + 1
      BY <3>7, <3>8
    <3>10. QED  BY <3>4, <3>9, BalanceMore
  <2>10. QED  BY <2>1, <2>7, <2>8, <2>9 DEF ConsoleJob
<1>4. QED  BY <1>2, <1>3

\* The CPUs and the DAM: what they send is announced to nobody yet.
LEMMA DispatchOutside ==
  ASSUME TypeOK, IsFiniteSet(jobs), IsFiniteSet(CPUs), CPUs = InitialCPUs, Amounts, Amounts', Dispatch,
         \/ \E c \in CPUs : CPUSpeaks(c) \/ CPUConnects(c) \/ CPUDisconnects(c)
         \/ \E r \in dam : DAMAnswers(r)
  PROVE  Dispatch'
<1>1. IsFiniteSet(IdleCPUs) /\ NIdle \in Nat /\ NIdle <= NIdle
  BY AmountsAre DEF Amounts
<1>2. \A c \in CPUs : ~CPUConnects(c)
  BY DEF CPUConnects
<1>3. /\ UNCHANGED <<READY, dummyIn, dummiedQueue, PCPtasks, PLPtasks, pcp>>
      /\ IdleCPUs' \subseteq IdleCPUs
  BY <1>2
  DEF CPUSpeaks, CPURunsDummy, CPURequestsIO, CPUEndsQuantum, CPUEndsDTB, CPUSends, CPUDisconnects,
      DAMAnswers, lists, dummies, tasks, threads, data, holder, IdleCPUs
<1>4. NIdle' <= NIdle
  BY <1>1, <1>3, IdleCount
<1>5. jobs' = jobs \/ \E k : jobs' = jobs \cup {k} /\ k.at = "start"
  <2>1. CASE \E c \in CPUs : CPUSpeaks(c)
    <3>1. PICK c \in CPUs : CPUSpeaks(c)
      BY <2>1
    <3>2. PICK m : \E n : CPUSends(c, m, n)
      BY <3>1, Zenon DEF CPUSpeaks, CPURunsDummy, CPURequestsIO, CPUEndsQuantum, CPUEndsDTB
    <3>3. PICK n : CPUSends(c, m, n)
      BY <3>2
    <3>4. PICK k : k = Message(m, running[c].id, c, n)
      OBVIOUS
    <3>5. k.at = "start" /\ (jobs' = jobs \/ jobs' = jobs \cup {k})
      BY <3>3, <3>4 DEF CPUSends, Message
    <3>6. QED  BY <3>5
  <2>2. CASE \E c \in CPUs : CPUDisconnects(c)
    BY <2>2 DEF CPUDisconnects
  <2>3. CASE \E r \in dam : DAMAnswers(r)
    <3>1. PICK r \in dam : DAMAnswers(r)
      BY <2>3
    <3>2. PICK m : jobs' = jobs \cup {Message(m, r.id, NoCPU, r.n)}
      BY <3>1 DEF DAMAnswers
    <3>3. PICK k : k = Message(m, r.id, NoCPU, r.n)
      OBVIOUS
    <3>4. k.at = "start" /\ jobs' = jobs \cup {k}
      BY <3>2, <3>3 DEF Message
    <3>5. QED  BY <3>4
  <2>4. QED  BY <1>2, <2>1, <2>2, <2>3
<1>6. /\ PostingOf({"IODONE", "EOQUANTUM"})' = PostingOf({"IODONE", "EOQUANTUM"})
      /\ PostingOf(Telling)' = PostingOf(Telling)
  BY <1>5 DEF PostingOf
<1>7. NUnlocking' = NUnlocking /\ NTelling' = NTelling
  BY <1>6, PostingSame DEF NUnlocking, NTelling
<1>8. QED  BY <1>3, <1>4, <1>7, DispatchFrame

\* Every step keeps a task for each dispatch to come.
LEMMA DispatchNext ==
  ASSUME ~Overtaking, CPUs = InitialCPUs, IsFiniteSet(CPUs), TasksInv, TasksInv', Dispatch, [Next]_vars
  PROVE  Dispatch'
<1>1. /\ TypeOK /\ Fresh /\ IsFiniteSet(jobs) /\ Numbers /\ NoTwins /\ EveryTaskHasItsDatum
      /\ Amounts
  BY AmountsAre DEF TasksInv, SchedulerInv, LoadsInv
<1>2. TypeOK' /\ EveryTaskHasItsDatum' /\ IsFiniteSet(jobs')
  BY DEF TasksInv, SchedulerInv, LoadsInv
<1>3. Amounts'
  <2>1. (TypeOK /\ IsFiniteSet(jobs) /\ IsFiniteSet(CPUs) => Amounts)'
    BY AmountsAre, PTL
  <2>2. QED  BY <1>2, <2>1
<1>4. CASE UNCHANGED vars
  <2>1. UNCHANGED <<READY, dummyIn, dummiedQueue, PCPtasks, PLPtasks, pcp, cpus, busy, jobs>>
    BY <1>4 DEF vars, lists, dummies, data, tasks, threads, holder, outside
  <2>2. NIdle' <= NIdle /\ NUnlocking' = NUnlocking /\ NTelling' = NTelling
    BY <1>1, <2>1 DEF NIdle, IdleCPUs, NUnlocking, NTelling, Posting, Amounts
  <2>3. QED  BY <1>1, <1>3, <2>1, <2>2, DispatchFrame
<1>5. CASE Next
  <2>1. CASE PLP
    BY <1>1, <1>3, <2>1, DispatchPLP
  <2>2. CASE PCP
    BY <1>1, <1>2, <1>3, <1>5, <2>2, DispatchPCP
  <2>3. CASE Console \/ \E j \in jobs : ConsoleJob(j)
    BY <1>1, <1>3, <2>3, DispatchConsole
  <2>4. CASE \E j \in jobs : Handler(j)
    <3>1. PICK j \in jobs : Handler(j)
      BY <2>4
    <3>2. j.at \in {"start", "post"}
      BY <1>1 DEF TypeOK, OutsideType, Jobs
    <3>3. CASE j.at = "start"
      BY <1>1, <1>3, <3>1, <3>3, DispatchPushes
    <3>4. CASE j.at = "post"
      BY <1>1, <1>3, <3>1, <3>4, DispatchPosts
    <3>5. QED  BY <3>2, <3>3, <3>4
  <2>5. CASE \/ \E c \in CPUs : CPUSpeaks(c) \/ CPUConnects(c) \/ CPUDisconnects(c)
             \/ \E r \in dam : DAMAnswers(r)
    BY <1>1, <1>3, <2>5, DispatchOutside
  <2>6. QED  BY <1>5, <2>1, <2>2, <2>3, <2>4, <2>5 DEF Next
<1>6. QED  BY <1>4, <1>5

\* Nothing waits at first.
LEMMA DispatchInit == ASSUME IsFiniteSet(CPUs) PROVE Init => Dispatch
<1> SUFFICES ASSUME Init PROVE Dispatch
  OBVIOUS
<1>1. TypeOK /\ IsFiniteSet(jobs) /\ EveryTaskHasItsDatum
  BY TasksInit DEF TasksInv, SchedulerInv, LoadsInv
<1>2. READY = {} /\ dummyIn["READY"] = 0
  BY DEF Init, DummyLists
<1>3. Cardinality({}) = 0
  BY FS_EmptySet
<1>4. NReady = 0 /\ NDummy = 0
  BY <1>2, <1>3 DEF NReady, NDummy
<1>5. QED  BY <1>1, <1>4, NoneReady

\* No DTB in READY waits beside an idle CPU with no task that will dispatch it, when
\* the CPUs are those of the start and the DAM's answers do not overtake.
THEOREM DispatchInvariant ==
  ASSUME ~Overtaking, CPUs = InitialCPUs, IsFiniteSet(CPUs)
  PROVE  Spec => []NoLostDispatch
<1>1. TasksInv /\ Dispatch /\ [Next]_vars => TasksInv' /\ Dispatch'
  BY TasksNext, DispatchNext
<1>2. TasksInv /\ Dispatch => NoLostDispatch
  BY DispatchIs DEF TasksInv, SchedulerInv, LoadsInv
<1>3. QED  BY TasksInit, DispatchInit, <1>1, <1>2, PTL DEF Spec

-----------------------------------------------------------------------------
\* The place of what is asked.

\* What is under way for a DTB: it executes, or the DAM works for it, or an answer
\* or the datum of a task speaks of it.
CPUClaims == {<<running[c].id, "cpu", c>> : c \in {b \in CPUs : running[b].kind = "dtb"}}
DAMClaims == {<<r.id, "dam", r>> : r \in dam}
Reporting == {"DUMMY", "IODONE", "IOERROR", "EOQUANTUM", "EOFORABORT"}
JobClaims == {<<j.id, "job", j>> : j \in {k \in jobs : k.at = "start" /\ k.msg \in Reporting}}
Queued(q, place) == {<<q[i], place, 0>> : i \in DOMAIN q}
UnlockClaims == Queued(toBeUnlocked, "unlock")
EndClaims == Queued(toBeEnded, "end")
LoadedClaims == Queued(dummiedQueue, "loaded")
Claims == CPUClaims \cup DAMClaims \cup JobClaims \cup UnlockClaims \cup EndClaims \cup LoadedClaims

\* Where the DTB is meanwhile.
Where(t) ==
    CASE t[2] = "cpu"    -> EXEC
      [] t[2] = "dam"    -> IF t[3].op = "io" THEN EXEC \cup BLOCKED ELSE beingDummied
      [] t[2] = "unlock" -> EXEC \cup BLOCKED
      [] t[2] = "end"    -> (EXEC \cup BLOCKED \cup beingDummied) \ {dummy.id}
      [] t[2] = "loaded" -> beingDummied \ {dummy.id}
      [] t[2] = "job"    -> CASE t[3].msg = "IODONE"  -> BLOCKED
                              [] t[3].msg = "DUMMY"   -> beingDummied \ {dummy.id}
                              [] t[3].msg = "IOERROR" -> (BLOCKED \cup beingDummied) \ {dummy.id}
                              [] OTHER                -> EXEC
      [] OTHER           -> {}

\* What asks for a DTB to be blocked: it executes still, and the DAM works for it.
BlockJobs == {<<j.id, "job", j>> : j \in {k \in jobs : k.at = "start" /\ k.msg = "BLOCKDTB"}}
BlockData == Queued(toBeBlocked, "block")
Blocks == BlockJobs \cup BlockData
Asked(S, d) == \E r \in S : r.op = "io" /\ r.id = d

\* One thing is under way for a DTB at a time.
Exclusive(S) == \A s, t \in S : s[1] = t[1] => s[2] = t[2] /\ s[3] = t[3]
Once(q) == \A i, k \in DOMAIN q : q[i] = q[k] => i = k

ClaimsHold ==
    /\ Exclusive(Claims) /\ Once(toBeUnlocked) /\ Once(toBeEnded)
    /\ \A t \in Claims : t[1] \in Where(t)
BlocksHold ==
    /\ Exclusive(Blocks) /\ Once(toBeBlocked)
    /\ \A b \in Blocks : b[1] \in EXEC /\ Asked(dam, b[1])
\* The dummy loads a DTB of beingDummied, and asks the DAM once to load it.
LoadsOnce ==
    /\ dummy.id # 0 => dummy.id \in beingDummied
    /\ \A r \in dam : r.op = "load" /\ r.id = dummy.id =>
          Pending(PCPtasks, "LOAD_DUMMY") = 0 /\ dummyIn["READY"] = 0 /\ OnDummy = {}
\* Nobody types "finalizar", and a CPU that was seen idle stays idle.
Quiet == finalizars = 0 /\ \A j \in jobs : j.msg # "FINALIZAR"
Spare == pcp.at = "dispatch" => IdleCPUs # {}

TargetsInv == ClaimsHold /\ BlocksHold /\ LoadsOnce /\ Quiet /\ Spare /\ TargetsAreFound

\* The claims stay exclusive when one passes from a place to another ...
LEMMA ClaimPasses ==
  ASSUME NEW C, \A t \in C : t = <<t[1], t[2], t[3]>>, Exclusive(C),
         NEW x \in C, NEW y, y[1] = x[1],
         NEW D, \A t \in D : (t \in C /\ t # x) \/ t = y
  PROVE  Exclusive(D)
<1> SUFFICES ASSUME NEW s \in D, NEW t \in D, s[1] = t[1] PROVE s[2] = t[2] /\ s[3] = t[3]
  BY DEF Exclusive
<1>1. \A u, v \in C : u[1] = v[1] => u = v
  <2> SUFFICES ASSUME NEW u \in C, NEW v \in C, u[1] = v[1] PROVE u = v
    OBVIOUS
  <2>1. u[2] = v[2] /\ u[3] = v[3]
    BY DEF Exclusive
  <2>2. u = <<u[1], u[2], u[3]>> /\ v = <<v[1], v[2], v[3]>>
    OBVIOUS
  <2>3. QED  BY <2>1, <2>2
<1>2. CASE s = y /\ t = y
  BY <1>2
<1>3. CASE s = y /\ t # y
  <2>1. t \in C /\ t # x /\ t[1] = x[1]
    BY <1>3
  <2>2. QED  BY <1>1, <2>1
<1>4. CASE s # y /\ t = y
  <2>1. s \in C /\ s # x /\ s[1] = x[1]
    BY <1>4
  <2>2. QED  BY <1>1, <2>1
<1>5. CASE s # y /\ t # y
  BY <1>5 DEF Exclusive
<1>6. QED  BY <1>2, <1>3, <1>4, <1>5

\* ... when one comes to a DTB that had none ...
LEMMA ClaimComes ==
  ASSUME NEW C, Exclusive(C), NEW y, \A t \in C : t[1] # y[1],
         NEW D, \A t \in D : t \in C \/ t = y
  PROVE  Exclusive(D)
  BY DEF Exclusive

\* ... and when some go.
LEMMA ClaimsGo ==
  ASSUME NEW C, Exclusive(C), NEW D, \A t \in D : t \in C
  PROVE  Exclusive(D)
  BY DEF Exclusive

\* The claims are triples; those of different places differ.
LEMMA ClaimsAre ==
  /\ \A t \in Claims \cup Blocks : t = <<t[1], t[2], t[3]>>
  /\ \A t \in CPUClaims : t[2] = "cpu"
  /\ \A t \in DAMClaims : t[2] = "dam"
  /\ \A t \in JobClaims : t[2] = "job"
  /\ \A t \in UnlockClaims : t[2] = "unlock"
  /\ \A t \in EndClaims : t[2] = "end"
  /\ \A t \in LoadedClaims : t[2] = "loaded"
  /\ \A t \in BlockJobs : t[2] = "job"
  /\ \A t \in BlockData : t[2] = "block"
  BY DEF Claims, CPUClaims, DAMClaims, JobClaims, UnlockClaims, EndClaims, LoadedClaims,
         Blocks, BlockJobs, BlockData, Queued

\* The claims and the blocks, place by place, in a state and in the next.
LEMMA ClaimsIn ==
  /\ \A t : t \in Claims <=> \/ t \in CPUClaims \/ t \in DAMClaims \/ t \in JobClaims
                             \/ t \in UnlockClaims \/ t \in EndClaims \/ t \in LoadedClaims
  /\ \A t : t \in Claims' <=> \/ t \in CPUClaims' \/ t \in DAMClaims' \/ t \in JobClaims'
                              \/ t \in UnlockClaims' \/ t \in EndClaims' \/ t \in LoadedClaims'
  /\ \A t : t \in Blocks <=> t \in BlockJobs \/ t \in BlockData
  /\ \A t : t \in Blocks' <=> t \in BlockJobs' \/ t \in BlockData'
  BY DEF Claims, Blocks

\* The claims of the places that a step leaves alone.
LEMMA ClaimsFrame ==
  /\ running' = running => CPUClaims' = CPUClaims
  /\ dam' \subseteq dam => \A t \in DAMClaims' : t \in DAMClaims
  /\ jobs' \subseteq jobs => \A t \in JobClaims' : t \in JobClaims
  /\ jobs' \subseteq jobs => \A t \in BlockJobs' : t \in BlockJobs
  /\ toBeUnlocked' = toBeUnlocked => UnlockClaims' = UnlockClaims
  /\ toBeEnded' = toBeEnded => EndClaims' = EndClaims
  /\ dummiedQueue' = dummiedQueue => LoadedClaims' = LoadedClaims
  /\ toBeBlocked' = toBeBlocked => BlockData' = BlockData
  BY DEF CPUClaims, DAMClaims, JobClaims, UnlockClaims, EndClaims, LoadedClaims, BlockJobs, BlockData,
         Queued

\* A DTB that a step does not move is where it was.
LEMMA WhereStays ==
  ASSUME NEW M, NEW t, t[1] \notin M, t[1] \in Where(t),
         \A d : d \notin M => /\ d \in EXEC => d \in EXEC'
                              /\ d \in BLOCKED => d \in BLOCKED'
                              /\ d \in beingDummied => d \in beingDummied'
                              /\ d = dummy'.id /\ d \in EXEC \cup BLOCKED \cup beingDummied
                                    => d = dummy.id
  PROVE  t[1] \in Where(t)'
  BY DEF Where

\* Where a claim may be, at all.
LEMMA WhereIs ==
  ASSUME ClaimsHold, NEW t \in Claims
  PROVE  /\ t[1] \in EXEC \cup BLOCKED \cup beingDummied
         /\ t[1] = dummy.id => t[1] \in EXEC \cup BLOCKED \/ (t \in DAMClaims /\ t[3].op # "io")
<1>1. t[1] \in Where(t)
  BY DEF ClaimsHold
<1>2. t \in CPUClaims \/ t \in DAMClaims \/ t \in JobClaims \/ t \in UnlockClaims \/ t \in EndClaims
      \/ t \in LoadedClaims
  BY ClaimsIn
<1>3. CASE t \in CPUClaims \cup UnlockClaims
  <2>1. Where(t) \subseteq EXEC \cup BLOCKED
    BY <1>3, ClaimsAre DEF Where
  <2>2. QED  BY <1>1, <2>1
<1>4. CASE t \in EndClaims \cup LoadedClaims
  <2>1. Where(t) \subseteq (EXEC \cup BLOCKED \cup beingDummied) \ {dummy.id}
    BY <1>4, ClaimsAre DEF Where
  <2>2. QED  BY <1>1, <2>1
<1>5. CASE t \in JobClaims
  <2>1. t[2] = "job"
    BY <1>5, ClaimsAre
  <2>2. Where(t) \subseteq EXEC \cup BLOCKED \/ Where(t) \subseteq (BLOCKED \cup beingDummied) \ {dummy.id}
    BY <2>1 DEF Where
  <2>3. QED  BY <1>1, <2>2
<1>6. CASE t \in DAMClaims
  <2>1. t[2] = "dam"
    BY <1>6, ClaimsAre
  <2>2. Where(t) = IF t[3].op = "io" THEN EXEC \cup BLOCKED ELSE beingDummied
    BY <2>1 DEF Where
  <2>3. QED  BY <1>1, <1>6, <2>2
<1>7. QED  BY <1>2, <1>3, <1>4, <1>5, <1>6

\* The data of a queue when its first is popped ...
LEMMA QueuedPops ==
  ASSUME NEW S, NEW q \in Seq(S), q # <<>>, Once(q), NEW place
  PROVE  /\ <<Head(q), place, 0>> \in Queued(q, place)
         /\ \A t \in Queued(Tail(q), place) : t \in Queued(q, place) /\ t[1] # Head(q)
         /\ Once(Tail(q))
<1>1. Len(q) \in Nat /\ Len(q) > 0 /\ DOMAIN q = 1 .. Len(q) /\ Head(q) = q[1]
  OBVIOUS
<1>2. /\ DOMAIN Tail(q) = 1 .. (Len(q) - 1)
      /\ \A i \in 1 .. (Len(q) - 1) : Tail(q)[i] = q[i + 1]
  BY <1>1
<1>3. \A i \in DOMAIN Tail(q) : i + 1 \in DOMAIN q /\ i + 1 # 1 /\ Tail(q)[i] = q[i + 1]
  BY <1>1, <1>2
<1>4. 1 \in DOMAIN q
  BY <1>1
<1>5. ASSUME NEW t \in Queued(Tail(q), place)
      PROVE  t \in Queued(q, place) /\ t[1] # Head(q)
  <2>1. PICK i \in DOMAIN Tail(q) : t = <<Tail(q)[i], place, 0>>
    BY DEF Queued
  <2>2. t = <<q[i + 1], place, 0>> /\ i + 1 \in DOMAIN q /\ i + 1 # 1
    BY <1>3, <2>1
  <2>3. QED  BY <1>1, <1>4, <2>2 DEF Queued, Once
<1>6. Once(Tail(q))
  <2> SUFFICES ASSUME NEW i \in DOMAIN Tail(q), NEW k \in DOMAIN Tail(q), Tail(q)[i] = Tail(q)[k]
               PROVE  i = k
    BY DEF Once
  <2>1. i + 1 = k + 1
    BY <1>3 DEF Once
  <2>2. QED  BY <1>2, <2>1
<1>7. QED  BY <1>1, <1>4, <1>5, <1>6 DEF Queued

\* ... and when one is pushed.
LEMMA QueuedPushes ==
  ASSUME NEW S, NEW q \in Seq(S), NEW d \in S, NEW place
  PROVE  /\ \A t \in Queued(Append(q, d), place) : t \in Queued(q, place) \/ t = <<d, place, 0>>
         /\ Once(q) /\ (\A t \in Queued(q, place) : t[1] # d) => Once(Append(q, d))
<1>1. /\ Len(q) \in Nat /\ DOMAIN q = 1 .. Len(q)
      /\ DOMAIN Append(q, d) = 1 .. (Len(q) + 1)
      /\ \A i \in 1 .. Len(q) : Append(q, d)[i] = q[i]
      /\ Append(q, d)[Len(q) + 1] = d
  OBVIOUS
<1>2. \A i \in DOMAIN Append(q, d) : \/ i \in DOMAIN q /\ Append(q, d)[i] = q[i]
                                     \/ i = Len(q) + 1 /\ i \notin DOMAIN q /\ Append(q, d)[i] = d
  BY <1>1
<1>3. \A i \in DOMAIN q : <<q[i], place, 0>> \in Queued(q, place)
  BY DEF Queued
<1>4. ASSUME NEW t \in Queued(Append(q, d), place)
      PROVE  t \in Queued(q, place) \/ t = <<d, place, 0>>
  <2>1. PICK i \in DOMAIN Append(q, d) : t = <<Append(q, d)[i], place, 0>>
    BY DEF Queued
  <2>2. QED  BY <1>2, <1>3, <2>1
<1>5. ASSUME Once(q), \A t \in Queued(q, place) : t[1] # d
      PROVE  Once(Append(q, d))
  <2>1. \A i \in DOMAIN q : q[i] # d
    <3> SUFFICES ASSUME NEW i \in DOMAIN q PROVE q[i] # d
      OBVIOUS
    <3>1. PICK t : t = <<q[i], place, 0>>
      OBVIOUS
    <3>2. t \in Queued(q, place) /\ t[1] = q[i]
      BY <1>3, <3>1
    <3>3. QED  BY <1>5, <3>2
  <2>2. QED  BY <1>2, <1>5, <2>1 DEF Once
<1>6. QED  BY <1>4, <1>5

\* All the DTBs but these stay in their lists, and the dummy loads none of them but
\* the one that it loaded.
Stays(M) ==
    \A d : d \notin M => /\ d \in EXEC => d \in EXEC'
                         /\ d \in BLOCKED => d \in BLOCKED'
                         /\ d \in beingDummied => d \in beingDummied'
                         /\ d = dummy'.id /\ d \in EXEC \cup BLOCKED \cup beingDummied
                              => d = dummy.id

\* The claims of a step that takes some away.
LEMMA ClaimsLess ==
  ASSUME ClaimsHold, NEW M, Stays(M), Once(toBeUnlocked'), Once(toBeEnded'),
         \A t \in Claims' : t \in Claims /\ t[1] \notin M
  PROVE  ClaimsHold'
<1>1. Exclusive(Claims')
  BY ClaimsGo DEF ClaimsHold
<1>2. ASSUME NEW t \in Claims'
      PROVE  t[1] \in Where(t)'
  <2>1. t[1] \notin M /\ t[1] \in Where(t)
    BY DEF ClaimsHold
  <2>2. QED  BY <2>1, WhereStays DEF Stays
<1>3. QED  BY <1>1, <1>2 DEF ClaimsHold, Exclusive, Once

\* ... that moves one from a place to another ...
LEMMA ClaimMoves ==
  ASSUME ClaimsHold, Stays({}), Once(toBeUnlocked'), Once(toBeEnded'),
         NEW x \in Claims, NEW y, y[1] = x[1], y[1] \in Where(y)',
         \A t \in Claims' : (t \in Claims /\ t # x) \/ t = y
  PROVE  ClaimsHold'
<1>1. Exclusive(Claims')
  <2>1. Exclusive(Claims) /\ \A t \in Claims : t = <<t[1], t[2], t[3]>>
    BY ClaimsAre DEF ClaimsHold
  <2>2. QED  BY <2>1, ClaimPasses
<1>2. ASSUME NEW t \in Claims'
      PROVE  t[1] \in Where(t)'
  <2>1. CASE t = y
    BY <2>1
  <2>2. CASE t \in Claims
    <3>1. t[1] \notin {} /\ t[1] \in Where(t)
      BY <2>2 DEF ClaimsHold
    <3>2. QED  BY <3>1, WhereStays DEF Stays
  <2>3. QED  BY <2>1, <2>2
<1>3. QED  BY <1>1, <1>2 DEF ClaimsHold, Exclusive, Once

\* ... and that gives one to a DTB that had none.
LEMMA ClaimAdds ==
  ASSUME ClaimsHold, NEW y, Stays({y[1]}), Once(toBeUnlocked'), Once(toBeEnded'),
         \A t \in Claims : t[1] # y[1], y[1] \in Where(y)',
         \A t \in Claims' : t \in Claims \/ t = y
  PROVE  ClaimsHold'
<1>1. Exclusive(Claims')
  <2>1. Exclusive(Claims)
    BY DEF ClaimsHold
  <2>2. QED  BY <2>1, ClaimComes
<1>2. ASSUME NEW t \in Claims'
      PROVE  t[1] \in Where(t)'
  <2>1. CASE t = y
    BY <2>1
  <2>2. CASE t \in Claims
    <3>1. t[1] \notin {y[1]} /\ t[1] \in Where(t)
      BY <2>2 DEF ClaimsHold
    <3>2. QED  BY <3>1, WhereStays DEF Stays
  <2>3. QED  BY <2>1, <2>2
<1>3. QED  BY <1>1, <1>2 DEF ClaimsHold, Exclusive, Once

\* All the DTBs but these go on executing, and the DAM goes on working for them.
WaitsOn(M) ==
    \A d : d \notin M => /\ d \in EXEC => d \in EXEC'
                         /\ Asked(dam, d) => Asked(dam', d)

\* The blocks of a step that takes some away ...
LEMMA BlocksLess ==
  ASSUME BlocksHold, NEW M, Once(toBeBlocked'), WaitsOn(M),
         \A b \in Blocks' : b \in Blocks /\ b[1] \notin M
  PROVE  BlocksHold'
<1>1. Exclusive(Blocks')
  BY ClaimsGo DEF BlocksHold
<1>2. ASSUME NEW b \in Blocks'
      PROVE  b[1] \in EXEC' /\ Asked(dam', b[1])
  <2>1. b[1] \notin M /\ b[1] \in EXEC /\ Asked(dam, b[1])
    BY DEF BlocksHold
  <2>2. QED  BY <2>1 DEF WaitsOn
<1>3. QED  BY <1>1, <1>2 DEF BlocksHold, Exclusive, Once

\* ... that moves one ...
LEMMA BlockMoves ==
  ASSUME BlocksHold, Once(toBeBlocked'), EXEC' = EXEC, dam' = dam,
         NEW x \in Blocks, NEW y, y[1] = x[1],
         \A t \in Blocks' : (t \in Blocks /\ t # x) \/ t = y
  PROVE  BlocksHold'
<1>1. Exclusive(Blocks')
  <2>1. Exclusive(Blocks) /\ \A t \in Blocks : t = <<t[1], t[2], t[3]>>
    BY ClaimsAre DEF BlocksHold
  <2>2. QED  BY <2>1, ClaimPasses
<1>2. ASSUME NEW b \in Blocks'
      PROVE  b[1] \in EXEC' /\ Asked(dam', b[1])
  <2>1. b[1] \in EXEC /\ Asked(dam, b[1])
    BY DEF BlocksHold
  <2>2. QED  BY <2>1 DEF Asked
<1>3. QED  BY <1>1, <1>2 DEF BlocksHold, Exclusive, Once

\* ... and that adds one.
LEMMA BlockAdds ==
  ASSUME BlocksHold, Once(toBeBlocked'), EXEC' = EXEC, dam \subseteq dam', NEW y,
         \A t \in Blocks : t[1] # y[1], y[1] \in EXEC, Asked(dam', y[1]),
         \A t \in Blocks' : t \in Blocks \/ t = y
  PROVE  BlocksHold'
<1>1. Exclusive(Blocks')
  <2>1. Exclusive(Blocks)
    BY DEF BlocksHold
  <2>2. QED  BY <2>1, ClaimComes
<1>2. ASSUME NEW b \in Blocks'
      PROVE  b[1] \in EXEC' /\ Asked(dam', b[1])
  <2>1. CASE b = y
    BY <2>1
  <2>2. CASE b \in Blocks
    <3>1. b[1] \in EXEC /\ Asked(dam, b[1])
      BY <2>2 DEF BlocksHold
    <3>2. QED  BY <3>1 DEF Asked
  <2>3. QED  BY <2>1, <2>2
<1>3. QED  BY <1>1, <1>2 DEF BlocksHold, Exclusive, Once

\* A step that moves no DTB and sends no message.
LEMMA TargetsFrame ==
  ASSUME ClaimsHold, BlocksHold, Stays({}), WaitsOn({}), running' = running, dam' = dam,
         UNCHANGED <<dummiedQueue, toBeBlocked, toBeUnlocked, toBeEnded>>, jobs' \subseteq jobs
  PROVE  ClaimsHold' /\ BlocksHold'
<1>1. /\ CPUClaims' = CPUClaims /\ UnlockClaims' = UnlockClaims /\ EndClaims' = EndClaims
      /\ LoadedClaims' = LoadedClaims /\ BlockData' = BlockData
      /\ \A t \in DAMClaims' : t \in DAMClaims
      /\ \A t \in JobClaims' : t \in JobClaims
      /\ \A t \in BlockJobs' : t \in BlockJobs
  BY ClaimsFrame
<1>2. ASSUME NEW t \in Claims' PROVE t \in Claims /\ t[1] \notin {}
  BY <1>1, ClaimsIn, Zenon
<1>3. ASSUME NEW b \in Blocks' PROVE b \in Blocks /\ b[1] \notin {}
  BY <1>1, ClaimsIn, Zenon
<1>4. Once(toBeUnlocked') /\ Once(toBeEnded') /\ Once(toBeBlocked')
  BY DEF ClaimsHold, BlocksHold
<1>5. ClaimsHold'
  BY <1>2, <1>4, ClaimsLess
<1>6. BlocksHold'
  BY <1>3, <1>4, BlocksLess
<1>7. QED  BY <1>5, <1>6

\* The DTBs stay where the lists and the id of the dummy do.
LEMMA AllStay ==
  ASSUME UNCHANGED <<EXEC, BLOCKED, dam>>, beingDummied \subseteq beingDummied', dummy'.id = dummy.id
  PROVE  Stays({}) /\ WaitsOn({})
  BY DEF Stays, WaitsOn, Asked

\* The claims of the CPUs when one gets something to execute, or ends with it.
LEMMA CPUClaimsNext ==
  ASSUME TypeOK, NEW c \in CPUs, NEW e, running' = [running EXCEPT ![c] = e]
  PROVE  \A t \in CPUClaims' : \/ t \in CPUClaims /\ t # <<running[c].id, "cpu", c>>
                               \/ t = <<e.id, "cpu", c>> /\ e.kind = "dtb"
<1>1. running \in [CPUs -> [kind : {"idle", "dtb", "dummy"}, id : Ids]]
  BY DEF TypeOK, OutsideType
<1>2. QED  BY <1>1 DEF CPUClaims

\* The claims of the messages when one comes ...
LEMMA JobClaimsCome ==
  ASSUME NEW k, jobs' \subseteq jobs \cup {k}
  PROVE  /\ \A t \in JobClaims' : t \in JobClaims \/ (t = <<k.id, "job", k>> /\ k.msg \in Reporting)
         /\ \A t \in BlockJobs' : t \in BlockJobs \/ (t = <<k.id, "job", k>> /\ k.msg = "BLOCKDTB")
  BY DEF JobClaims, BlockJobs

\* ... and when the handler of one has pushed its datum.
LEMMA JobClaimsGo ==
  ASSUME NEW j, NEW k, k.at = "post", jobs' \subseteq (jobs \ {j}) \cup {k}
  PROVE  /\ \A t \in JobClaims' : t \in JobClaims /\ t # <<j.id, "job", j>>
         /\ \A t \in BlockJobs' : t \in BlockJobs /\ t # <<j.id, "job", j>>
  BY DEF JobClaims, BlockJobs

\* Two claims of a DTB are one and the same, and so are two blocks.
LEMMA ClaimsAgree ==
  ASSUME ClaimsHold, BlocksHold
  PROVE  /\ \A s, t \in Claims : s[1] = t[1] => s[2] = t[2] /\ s[3] = t[3] /\ s = t
         /\ \A s, t \in Blocks : s[1] = t[1] => s[2] = t[2] /\ s[3] = t[3] /\ s = t
<1>1. ASSUME NEW S, S = Claims \/ S = Blocks, NEW s \in S, NEW t \in S, s[1] = t[1]
      PROVE  s[2] = t[2] /\ s[3] = t[3] /\ s = t
  <2>1. s[2] = t[2] /\ s[3] = t[3]
    BY <1>1 DEF ClaimsHold, BlocksHold, Exclusive
  <2>2. s = <<s[1], s[2], s[3]>> /\ t = <<t[1], t[2], t[3]>>
    BY <1>1, ClaimsAre
  <2>3. QED  BY <1>1, <2>1, <2>2
<1>2. QED  BY <1>1

\* The DTB that is asked to be blocked has one claim: the DAM works for it.
LEMMA BlocksAreAsked ==
  ASSUME ClaimsHold, BlocksHold, NEW b \in Blocks, NEW t \in Claims, t[1] = b[1]
  PROVE  t[2] = "dam" /\ t[3].op = "io"
<1>1. PICK r \in dam : r.op = "io" /\ r.id = b[1]
  BY DEF BlocksHold, Asked
<1>2. PICK s : s = <<r.id, "dam", r>>
  OBVIOUS
<1>3. s \in DAMClaims /\ s[1] = b[1] /\ s[2] = "dam" /\ s[3] = r
  BY <1>1, <1>2 DEF DAMClaims
<1>4. s \in Claims
  BY <1>3, ClaimsIn
<1>5. t = s
  BY <1>3, <1>4, ClaimsAgree
<1>6. QED  BY <1>1, <1>3, <1>5

\* The claims of the places that neither planner touches.
LEMMA OutsideClaims ==
  ASSUME running' = running, dam' = dam, jobs' = jobs
  PROVE  CPUClaims' = CPUClaims /\ DAMClaims' = DAMClaims /\ JobClaims' = JobClaims
         /\ BlockJobs' = BlockJobs
  BY DEF CPUClaims, DAMClaims, JobClaims, BlockJobs

\* The long-term planner: the DTBs it initializes have no claim but their datum.
LEMMA TargetsPLP ==
  ASSUME TypeOK, OnePlace, ClaimsHold, BlocksHold, PLP
  PROVE  ClaimsHold' /\ BlocksHold' /\ failure' = failure
<1>1. running' = running /\ dam' = dam /\ jobs' = jobs
  BY DEF PLP, PLPCannotSchedule, PLPTakesDummy, PLPAdmits, PLPCreates, PLPInitializes,
         PLPInitializeFails, outside
<1>2. ASSUME NEW i \in DOMAIN dummiedQueue
      PROVE  <<dummiedQueue[i], "loaded", 0>> \in LoadedClaims
  BY DEF LoadedClaims, Queued
<1>3. Loaded \subseteq beingDummied
  <2> SUFFICES ASSUME NEW i \in DOMAIN dummiedQueue PROVE dummiedQueue[i] \in beingDummied
    BY DEF Loaded
  <2>1. PICK t : t = <<dummiedQueue[i], "loaded", 0>>
    OBVIOUS
  <2>2. t \in Claims /\ t[1] = dummiedQueue[i] /\ t[2] = "loaded"
    BY <1>2, <2>1, ClaimsIn
  <2>3. t[1] \in Where(t) /\ Where(t) = beingDummied \ {dummy.id}
    BY <2>2 DEF ClaimsHold, Where
  <2>4. QED  BY <2>2, <2>3
<1>4. CASE PLPInitializes
  <2>1. /\ dummiedQueue' = <<>> /\ beingDummied' = beingDummied \ Loaded
        /\ UNCHANGED <<EXEC, BLOCKED, dummy, toBeBlocked, toBeUnlocked, toBeEnded, failure>>
    BY <1>4 DEF PLPInitializes, dummies
  <2>2. Stays(Loaded) /\ WaitsOn({})
    BY <1>1, <2>1 DEF Stays, WaitsOn, Asked
  <2>3. LoadedClaims' = {}
    BY <2>1 DEF LoadedClaims, Queued
  <2>4. UnlockClaims' = UnlockClaims /\ EndClaims' = EndClaims /\ BlockData' = BlockData
    BY <2>1, ClaimsFrame
  <2>5. ASSUME NEW t \in Claims' PROVE t \in Claims /\ t[1] \notin Loaded
    <3>1. t \in Claims /\ t[2] # "loaded"
      BY <1>1, <2>3, <2>4, OutsideClaims, ClaimsIn, ClaimsAre
    <3>2. ASSUME NEW i \in DOMAIN dummiedQueue, t[1] = dummiedQueue[i] PROVE FALSE
      <4>1. PICK s : s = <<dummiedQueue[i], "loaded", 0>>
        OBVIOUS
      <4>2. s \in Claims /\ s[1] = t[1] /\ s[2] = "loaded"
        BY <1>2, <3>2, <4>1, ClaimsIn
      <4>3. QED  BY <3>1, <4>2, ClaimsAgree
    <3>3. QED  BY <3>1, <3>2 DEF Loaded
  <2>6. ASSUME NEW b \in Blocks' PROVE b \in Blocks /\ b[1] \notin {}
    BY <1>1, <2>4, OutsideClaims, ClaimsIn
  <2>7. Once(toBeUnlocked') /\ Once(toBeEnded') /\ Once(toBeBlocked')
    BY <2>1 DEF ClaimsHold, BlocksHold
  <2>8. ClaimsHold'
    BY <2>2, <2>5, <2>7, ClaimsLess
  <2>9. BlocksHold'
    BY <2>2, <2>6, <2>7, BlocksLess
  <2>10. QED  BY <2>1, <2>8, <2>9
<1>5. CASE PLPAdmits
  <2>1. /\ dummy'.id = plp.dtb /\ beingDummied' = beingDummied \cup {plp.dtb}
        /\ UNCHANGED <<EXEC, BLOCKED, data, failure>> /\ plp.at = "admit"
    BY <1>5 DEF PLPAdmits, TypeOK, DummyType
  <2>2. plp.dtb \notin EXEC \cup BLOCKED \cup beingDummied
    BY <2>1 DEF OnePlace, InHand
  <2>3. Stays({}) /\ WaitsOn({})
    BY <1>1, <2>1, <2>2 DEF Stays, WaitsOn, Asked
  <2>4. QED  BY <1>1, <2>1, <2>3, TargetsFrame DEF data
<1>6. CASE ~PLPInitializes /\ ~PLPAdmits
  <2>1. /\ UNCHANGED <<dummiedQueue, toBeBlocked, toBeUnlocked, toBeEnded>>
        /\ UNCHANGED <<EXEC, BLOCKED, beingDummied, failure>> /\ dummy'.id = dummy.id
    BY <1>3, <1>6 DEF PLP, PLPCannotSchedule, PLPTakesDummy, PLPCreates, PLPInitializeFails, data, lists,
                      dummies, TypeOK, DummyType
  <2>2. Stays({}) /\ WaitsOn({})
    BY <1>1, <2>1, AllStay
  <2>3. QED  BY <1>1, <2>1, <2>2, TargetsFrame
<1>7. QED  BY <1>4, <1>5, <1>6

\* A DTB that is dispatched had no claim, for it was READY.
LEMMA TargetsDispatch ==
  ASSUME TypeOK, OnePlace, ClaimsHold, BlocksHold, PCPDispatches
  PROVE  ClaimsHold' /\ BlocksHold'
<1>1. PICK c \in IdleCPUs : PCPDispatchesDummy(c) \/ \E d \in READY : PCPDispatchesDTB(c, d)
  BY DEF PCPDispatches
<1>2. c \in CPUs
  BY DEF IdleCPUs, TypeOK, HolderType
<1>3. /\ UNCHANGED <<dummiedQueue, toBeBlocked, toBeUnlocked, toBeEnded, BLOCKED, beingDummied, dam, jobs>>
      /\ dummy'.id = dummy.id
  BY <1>1 DEF PCPDispatchesDummy, PCPDispatchesDTB, data, lists, dummies, TypeOK, DummyType
<1>4. /\ UnlockClaims' = UnlockClaims /\ EndClaims' = EndClaims /\ LoadedClaims' = LoadedClaims
      /\ BlockData' = BlockData /\ DAMClaims' = DAMClaims /\ JobClaims' = JobClaims
      /\ BlockJobs' = BlockJobs
  BY <1>3 DEF UnlockClaims, EndClaims, LoadedClaims, BlockData, DAMClaims, JobClaims, BlockJobs
<1>5. Once(toBeUnlocked') /\ Once(toBeEnded') /\ Once(toBeBlocked')
  BY <1>3 DEF ClaimsHold, BlocksHold
<1>6. CASE PCPDispatchesDummy(c)
  <2>1. EXEC' = EXEC /\ running' = [running EXCEPT ![c] = [kind |-> "dummy", id |-> dummy.id]]
    BY <1>6 DEF PCPDispatchesDummy, lists
  <2>2. PICK e : e = [kind |-> "dummy", id |-> dummy.id]
    OBVIOUS
  <2>3. e.kind # "dtb" /\ running' = [running EXCEPT ![c] = e]
    BY <2>1, <2>2
  <2>4. \A t \in CPUClaims' : t \in CPUClaims
    BY <1>2, <2>3, CPUClaimsNext
  <2>5. Stays({}) /\ WaitsOn({})
    BY <1>3, <2>1, AllStay
  <2>6. ASSUME NEW t \in Claims' PROVE t \in Claims /\ t[1] \notin {}
    BY <1>4, <2>4, ClaimsIn
  <2>7. ASSUME NEW b \in Blocks' PROVE b \in Blocks /\ b[1] \notin {}
    BY <1>4, ClaimsIn
  <2>8. ClaimsHold'
    BY <1>5, <2>5, <2>6, ClaimsLess
  <2>9. BlocksHold'
    BY <1>5, <2>5, <2>7, BlocksLess
  <2>10. QED  BY <2>8, <2>9
<1>7. CASE \E d \in READY : PCPDispatchesDTB(c, d)
  <2>1. PICK d \in READY : PCPDispatchesDTB(c, d)
    BY <1>7
  <2>2. EXEC' = EXEC \cup {d} /\ running' = [running EXCEPT ![c] = [kind |-> "dtb", id |-> d]]
    BY <2>1 DEF PCPDispatchesDTB
  <2>3. PICK e : e = [kind |-> "dtb", id |-> d]
    OBVIOUS
  <2>4. e.id = d /\ running' = [running EXCEPT ![c] = e]
    BY <2>2, <2>3
  <2>5. PICK y : y = <<d, "cpu", c>>
    OBVIOUS
  <2>6. \A t \in CPUClaims' : t \in CPUClaims \/ t = y
    BY <1>2, <2>4, <2>5, CPUClaimsNext
  <2>7. y[1] = d /\ y[2] = "cpu" /\ y[1] \in Where(y)'
    BY <2>2, <2>5 DEF Where
  <2>8. Stays({y[1]}) /\ WaitsOn({})
    BY <1>3, <2>2 DEF Stays, WaitsOn, Asked
  <2>9. ASSUME NEW t \in Claims PROVE t[1] # y[1]
    <3>1. t[1] \in EXEC \cup BLOCKED \cup beingDummied
      BY WhereIs
    <3>2. d \notin EXEC \cup BLOCKED \cup beingDummied
      BY DEF OnePlace
    <3>3. QED  BY <2>7, <3>1, <3>2
  <2>10. ASSUME NEW t \in Claims' PROVE t \in Claims \/ t = y
    BY <1>4, <2>6, ClaimsIn
  <2>11. ASSUME NEW b \in Blocks' PROVE b \in Blocks /\ b[1] \notin {}
    BY <1>4, ClaimsIn
  <2>12. ClaimsHold'
    BY <1>5, <2>7, <2>8, <2>9, <2>10, ClaimAdds
  <2>13. BlocksHold'
    BY <1>5, <2>8, <2>11, BlocksLess
  <2>14. QED  BY <2>12, <2>13
<1>8. QED  BY <1>1, <1>6, <1>7

\* A datum taken from its queue: its DTB is the first of it, and no other of it.
LEMMA DatumPopped ==
  ASSUME NEW q \in Seq(Ids), q # <<>>, Once(q), NEW place
  PROVE  /\ FirstOf(q) = Head(q) /\ Popped(q) = Tail(q) /\ FirstOf(q) \in Ids
         /\ \E x : /\ x = <<Head(q), place, 0>> /\ x \in Queued(q, place)
                   /\ x[1] = Head(q) /\ x[2] = place
         /\ \A t \in Queued(Tail(q), place) : t \in Queued(q, place) /\ t[1] # Head(q)
         /\ Once(Tail(q))
<1>1. PICK x : x = <<Head(q), place, 0>>
  OBVIOUS
<1>2. /\ x \in Queued(q, place) /\ Once(Tail(q))
      /\ \A t \in Queued(Tail(q), place) : t \in Queued(q, place) /\ t[1] # Head(q)
  BY <1>1, QueuedPops
<1>3. Head(q) \in Ids
  OBVIOUS
<1>4. QED  BY <1>1, <1>2, <1>3 DEF FirstOf, Popped

\* The DTB to be blocked executes, and the DAM works for it: it goes on to do so.
LEMMA TargetsBlocks ==
  ASSUME TypeOK, OnePlace, Fresh, ClaimsHold, BlocksHold, toBeBlocked # <<>>, PCPTakes("BLOCK")
  PROVE  /\ FirstOf(toBeBlocked) \in EXEC
         /\ PCPBlocks => ClaimsHold' /\ BlocksHold'
<1>1. PICK q : q = toBeBlocked
  OBVIOUS
<1>2. q \in Seq(Ids) /\ q # <<>> /\ Once(q) /\ BlockData = Queued(q, "block")
  BY <1>1 DEF TypeOK, DataType, BlocksHold, BlockData
<1>3. PICK x : x \in Queued(q, "block") /\ x[1] = Head(q) /\ x[2] = "block"
  BY <1>2, DatumPopped
<1>4. /\ FirstOf(q) = Head(q) /\ Popped(q) = Tail(q) /\ Once(Tail(q))
      /\ \A t \in Queued(Tail(q), "block") : t \in Queued(q, "block") /\ t[1] # Head(q)
  BY <1>2, DatumPopped
<1>5. x \in Blocks
  BY <1>2, <1>3, ClaimsIn
<1>6. x[1] \in EXEC
  BY <1>5 DEF BlocksHold
<1>7. PICK d : d = Head(q)
  OBVIOUS
<1>8. ASSUME PCPBlocks
      PROVE  ClaimsHold' /\ BlocksHold'
  <2>1. UNCHANGED dummies
    BY <1>8, BlocksNoDummy
  <2>2. d \notin BLOCKED
    BY <1>3, <1>6, <1>7 DEF OnePlace
  <2>3. EXEC' = EXEC \ {d} /\ BLOCKED' = BLOCKED \cup {d}
    <3>1. \/ EXEC' = EXEC \ {d} /\ BLOCKED' = BLOCKED \cup {d}
          \/ /\ DummyHasId("EXEC", d)
             /\ dummyIn' = DummyInto(DummyOut(dummyIn, "EXEC"), "BLOCKED")
             /\ dummy' = [dummy EXCEPT !.status = "BLOCKED"]
             /\ UNCHANGED <<EXEC, BLOCKED>>
      BY <1>1, <1>4, <1>7, <1>8 DEF PCPBlocks
    <3>2. d # dummy.id
      BY <1>3, <1>6, <1>7 DEF Fresh, FreshLists, Begun
    <3>3. QED  BY <3>1, <3>2 DEF DummyHasId
  <2>4. /\ UNCHANGED <<dummiedQueue, toBeUnlocked, toBeEnded, beingDummied, running, dam, jobs>>
        /\ toBeBlocked' = Tail(q)
    BY <1>1, <1>4, <1>8 DEF PCPBlocks, outside
  <2>5. /\ UnlockClaims' = UnlockClaims /\ EndClaims' = EndClaims /\ LoadedClaims' = LoadedClaims
        /\ BlockData' = Queued(Tail(q), "block")
    BY <2>4 DEF UnlockClaims, EndClaims, LoadedClaims, BlockData
  <2>6. CPUClaims' = CPUClaims /\ DAMClaims' = DAMClaims /\ JobClaims' = JobClaims
         /\ BlockJobs' = BlockJobs
    BY <2>4, OutsideClaims
  <2>7. Stays({d}) /\ WaitsOn({d})
    BY <2>1, <2>3, <2>4 DEF Stays, WaitsOn, Asked, dummies
  <2>8. BlocksHold'
    <3>1. ASSUME NEW b \in Blocks' PROVE b \in Blocks /\ b[1] \notin {d}
      <4>1. CASE b \in BlockData'
        BY <1>2, <1>4, <1>7, <2>5, <4>1, ClaimsIn
      <4>2. CASE b \in BlockJobs'
        <5>1. b \in Blocks /\ b[2] # "block"
          BY <2>6, <4>2, ClaimsIn, ClaimsAre
        <5>2. QED  BY <1>3, <1>5, <1>7, <5>1, ClaimsAgree
      <4>3. QED  BY <4>1, <4>2, ClaimsIn
    <3>2. Once(toBeBlocked')
      BY <1>4, <2>4
    <3>3. QED  BY <2>7, <3>1, <3>2, BlocksLess
  <2>9. ClaimsHold'
    <3>1. \A t : t \in Claims' <=> t \in Claims
      BY <2>5, <2>6, ClaimsIn
    <3>2. Exclusive(Claims')
      BY <3>1, ClaimsGo DEF ClaimsHold
    <3>3. ASSUME NEW t \in Claims' PROVE t[1] \in Where(t)'
      <4>1. t \in Claims /\ t[1] \in Where(t)
        BY <3>1 DEF ClaimsHold
      <4>2. CASE t[1] # d
        BY <2>7, <4>1, <4>2, WhereStays DEF Stays
      <4>3. CASE t[1] = d
        <5>1. t[2] = "dam" /\ t[3].op = "io"
          BY <1>3, <1>5, <1>7, <4>1, <4>3, BlocksAreAsked
        <5>2. QED  BY <2>3, <4>3, <5>1 DEF Where
      <4>4. QED  BY <4>2, <4>3
    <3>4. Once(toBeUnlocked') /\ Once(toBeEnded')
      BY <2>4 DEF ClaimsHold
    <3>5. QED  BY <3>2, <3>3, <3>4 DEF ClaimsHold, Exclusive, Once
  <2>10. QED  BY <2>8, <2>9
<1>9. QED  BY <1>1, <1>3, <1>4, <1>6, <1>8

\* The DTB to be unlocked has no other claim ...
LEMMA TargetsUnlocks ==
  ASSUME TypeOK, ClaimsHold, BlocksHold, toBeUnlocked # <<>>, PCPTakes("UNLOCK")
  PROVE  /\ FirstOf(toBeUnlocked) \in Unlockable
         /\ PCPUnlocks => ClaimsHold' /\ BlocksHold'
<1>1. PICK q : q = toBeUnlocked
  OBVIOUS
<1>2. q \in Seq(Ids) /\ q # <<>> /\ Once(q) /\ UnlockClaims = Queued(q, "unlock")
  BY <1>1 DEF TypeOK, DataType, ClaimsHold, UnlockClaims
<1>3. PICK x : x \in Queued(q, "unlock") /\ x[1] = Head(q) /\ x[2] = "unlock"
  BY <1>2, DatumPopped
<1>4. /\ FirstOf(q) = Head(q) /\ Popped(q) = Tail(q) /\ Once(Tail(q))
      /\ \A t \in Queued(Tail(q), "unlock") : t \in Queued(q, "unlock") /\ t[1] # Head(q)
  BY <1>2, DatumPopped
<1>5. x \in Claims
  BY <1>2, <1>3, ClaimsIn
<1>6. x[1] \in EXEC \cup BLOCKED
  <2>1. x[1] \in Where(x)
    BY <1>5 DEF ClaimsHold
  <2>2. QED  BY <1>3, <2>1 DEF Where
<1>7. PICK d : d = Head(q)
  OBVIOUS
<1>8. ASSUME PCPUnlocks
      PROVE  ClaimsHold' /\ BlocksHold'
  <2>1. /\ EXEC' = EXEC \ {d} /\ BLOCKED \ {d} \subseteq BLOCKED' /\ toBeUnlocked' = Tail(q)
        /\ UNCHANGED <<dummiedQueue, toBeBlocked, toBeEnded, beingDummied, running, dam, jobs, dummy>>
    BY <1>1, <1>4, <1>7, <1>8 DEF PCPUnlocks, outside, dummies
  <2>2. /\ BlockData' = BlockData /\ EndClaims' = EndClaims /\ LoadedClaims' = LoadedClaims
        /\ UnlockClaims' = Queued(Tail(q), "unlock")
    BY <2>1 DEF UnlockClaims, EndClaims, LoadedClaims, BlockData
  <2>3. CPUClaims' = CPUClaims /\ DAMClaims' = DAMClaims /\ JobClaims' = JobClaims
         /\ BlockJobs' = BlockJobs
    BY <2>1, OutsideClaims
  <2>4. Stays({d}) /\ WaitsOn({d})
    BY <2>1 DEF Stays, WaitsOn, Asked
  <2>5. ASSUME NEW t \in Claims' PROVE t \in Claims /\ t[1] \notin {d}
    <3>1. CASE t \in UnlockClaims'
      BY <1>2, <1>4, <1>7, <2>2, <3>1, ClaimsIn
    <3>2. CASE t \notin UnlockClaims'
      <4>1. t \in Claims /\ t[2] # "unlock"
        BY <2>2, <2>3, <3>2, ClaimsIn, ClaimsAre
      <4>2. QED  BY <1>3, <1>5, <1>7, <4>1, ClaimsAgree
    <3>3. QED  BY <3>1, <3>2
  <2>6. ASSUME NEW b \in Blocks' PROVE b \in Blocks /\ b[1] \notin {d}
    <3>1. b \in Blocks
      BY <2>2, <2>3, ClaimsIn
    <3>2. QED  BY <1>3, <1>5, <1>7, <3>1, BlocksAreAsked
  <2>7. Once(toBeUnlocked') /\ Once(toBeEnded') /\ Once(toBeBlocked')
    BY <1>4, <2>1 DEF ClaimsHold, BlocksHold
  <2>8. ClaimsHold'
    BY <2>4, <2>5, <2>7, ClaimsLess
  <2>9. BlocksHold'
    BY <2>4, <2>6, <2>7, BlocksLess
  <2>10. QED  BY <2>8, <2>9
<1>9. QED  BY <1>1, <1>3, <1>4, <1>6, <1>8 DEF Unlockable

\* ... nor has the one to be ended, which is not the one that the dummy loads.
LEMMA TargetsEnds ==
  ASSUME TypeOK, ClaimsHold, BlocksHold, toBeEnded # <<>>, PCPTakes("END")
  PROVE  /\ FirstOf(toBeEnded) \in EXEC \cup BLOCKED \cup beingDummied
         /\ PCPEnds => /\ ClaimsHold' /\ BlocksHold' /\ dummy' = dummy
                       /\ dummy.id \in beingDummied => dummy.id \in beingDummied'
<1>1. PICK q : q = toBeEnded
  OBVIOUS
<1>2. q \in Seq(Ids) /\ q # <<>> /\ Once(q) /\ EndClaims = Queued(q, "end")
  BY <1>1 DEF TypeOK, DataType, ClaimsHold, EndClaims
<1>3. PICK x : x \in Queued(q, "end") /\ x[1] = Head(q) /\ x[2] = "end"
  BY <1>2, DatumPopped
<1>4. /\ FirstOf(q) = Head(q) /\ Popped(q) = Tail(q) /\ Once(Tail(q))
      /\ \A t \in Queued(Tail(q), "end") : t \in Queued(q, "end") /\ t[1] # Head(q)
  BY <1>2, DatumPopped
<1>5. x \in Claims
  BY <1>2, <1>3, ClaimsIn
<1>6. x[1] \in (EXEC \cup BLOCKED \cup beingDummied) \ {dummy.id}
  <2>1. x[1] \in Where(x)
    BY <1>5 DEF ClaimsHold
  <2>2. QED  BY <1>3, <2>1 DEF Where
<1>7. PICK d : d = Head(q)
  OBVIOUS
<1>8. ASSUME PCPEnds
      PROVE  /\ ClaimsHold' /\ BlocksHold' /\ dummy' = dummy
             /\ dummy.id \in beingDummied => dummy.id \in beingDummied'
  <2>1. /\ UNCHANGED <<dummiedQueue, toBeBlocked, toBeUnlocked, running, dam, jobs>>
        /\ toBeEnded' = Tail(q) /\ (EndsDummy(d) \/ EndsQueued(d) \/ EndsLoading(d))
    BY <1>1, <1>4, <1>7, <1>8 DEF PCPEnds, outside
  <2>2. ~EndsDummy(d)
    BY <1>3, <1>6, <1>7 DEF EndsDummy, DummyHasId
  <2>3. /\ EXEC \ {d} \subseteq EXEC' /\ BLOCKED \ {d} \subseteq BLOCKED'
        /\ beingDummied \ {d} \subseteq beingDummied' /\ dummy' = dummy
    <3>1. CASE EndsQueued(d)
      BY <3>1 DEF EndsQueued, dummies
    <3>2. CASE EndsLoading(d)
      BY <3>2 DEF EndsLoading, dummies
    <3>3. QED  BY <2>1, <2>2, <3>1, <3>2
  <2>4. /\ BlockData' = BlockData /\ UnlockClaims' = UnlockClaims /\ LoadedClaims' = LoadedClaims
        /\ EndClaims' = Queued(Tail(q), "end")
    BY <2>1 DEF UnlockClaims, EndClaims, LoadedClaims, BlockData
  <2>5. CPUClaims' = CPUClaims /\ DAMClaims' = DAMClaims /\ JobClaims' = JobClaims
         /\ BlockJobs' = BlockJobs
    BY <2>1, OutsideClaims
  <2>6. Stays({d}) /\ WaitsOn({d})
    BY <2>1, <2>3 DEF Stays, WaitsOn, Asked
  <2>7. ASSUME NEW t \in Claims' PROVE t \in Claims /\ t[1] \notin {d}
    <3>1. CASE t \in EndClaims'
      BY <1>2, <1>4, <1>7, <2>4, <3>1, ClaimsIn
    <3>2. CASE t \notin EndClaims'
      <4>1. t \in Claims /\ t[2] # "end"
        BY <2>4, <2>5, <3>2, ClaimsIn, ClaimsAre
      <4>2. QED  BY <1>3, <1>5, <1>7, <4>1, ClaimsAgree
    <3>3. QED  BY <3>1, <3>2
  <2>8. ASSUME NEW b \in Blocks' PROVE b \in Blocks /\ b[1] \notin {d}
    <3>1. b \in Blocks
      BY <2>4, <2>5, ClaimsIn
    <3>2. QED  BY <1>3, <1>5, <1>7, <3>1, BlocksAreAsked
  <2>9. Once(toBeUnlocked') /\ Once(toBeEnded') /\ Once(toBeBlocked')
    BY <1>4, <2>1 DEF ClaimsHold, BlocksHold
  <2>10. ClaimsHold'
    BY <2>6, <2>7, <2>9, ClaimsLess
  <2>11. BlocksHold'
    BY <2>6, <2>8, <2>9, BlocksLess
  <2>12. QED  BY <1>3, <1>6, <1>7, <2>3, <2>10, <2>11
<1>9. QED  BY <1>1, <1>3, <1>4, <1>6, <1>8

\* A task that is pending has its datum.
LEMMA DataThere ==
  ASSUME TypeOK, IsFiniteSet(jobs), EveryTaskHasItsDatum
  PROVE  /\ PCPTakes("BLOCK") => toBeBlocked # <<>>
         /\ PCPTakes("UNLOCK") => toBeUnlocked # <<>>
         /\ PCPTakes("END") => toBeEnded # <<>>
<1>1. /\ \A ms : Posting(ms) \in Nat
      /\ \A u : Pending(PCPtasks, u) \in Nat
      /\ Cardinality(Ending) \in Nat
  BY CountsAre
<1>2. ASSUME NEW u, u # "NORMAL", PCPTakes(u)
      PROVE  Pending(PCPtasks, u) > 0
  <2>1. PCPtasks \in Seq(PCPKinds) /\ PCPtasks # <<>> /\ Head(PCPtasks) = u
    BY <1>2 DEF TypeOK, TasksType, PCPKinds, PCPTakes
  <2>2. /\ Pending(Tail(PCPtasks), u) \in Nat
        /\ Pending(PCPtasks, u) = Pending(Tail(PCPtasks), u) + (IF Head(PCPtasks) = u THEN 1 ELSE 0)
    BY <2>1, PendingTail
  <2>3. QED  BY <2>1, <2>2
<1>3. DatumBlock /\ DatumUnlock /\ DatumEnd
  BY DatumIs
<1>4. Len(<<>>) = 0
  OBVIOUS
<1>5. PCPTakes("BLOCK") => toBeBlocked # <<>>
  BY <1>1, <1>2, <1>3, <1>4 DEF DatumBlock
<1>6. PCPTakes("UNLOCK") => toBeUnlocked # <<>>
  BY <1>1, <1>2, <1>3, <1>4 DEF DatumUnlock
<1>7. PCPTakes("END") => toBeEnded # <<>>
  BY <1>1, <1>2, <1>3, <1>4 DEF DatumEnd
<1>8. QED  BY <1>5, <1>6, <1>7

\* The short-term planner finds what its tasks are about.
LEMMA TargetsPCP ==
  ASSUME TypeOK, OnePlace, Fresh, IsFiniteSet(jobs), EveryTaskHasItsDatum,
         ClaimsHold, BlocksHold, Spare, PCP
  PROVE  ClaimsHold' /\ BlocksHold' /\ failure' = failure
<1>1. /\ PCPTakes("BLOCK") => toBeBlocked # <<>>
      /\ PCPTakes("UNLOCK") => toBeUnlocked # <<>>
      /\ PCPTakes("END") => toBeEnded # <<>>
  BY DataThere
<1>2. CASE PCPDispatches
  <2>1. failure' = failure
    BY <1>2 DEF PCPDispatches, PCPDispatchesDTB, PCPDispatchesDummy
  <2>2. QED  BY <1>2, <2>1, TargetsDispatch
<1>3. CASE PCPBlocks
  <2>1. PCPTakes("BLOCK") /\ failure' = failure
    BY <1>3 DEF PCPBlocks
  <2>2. QED  BY <1>1, <1>3, <2>1, TargetsBlocks
<1>4. CASE PCPUnlocks
  <2>1. PCPTakes("UNLOCK") /\ failure' = failure
    BY <1>4 DEF PCPUnlocks
  <2>2. QED  BY <1>1, <1>4, <2>1, TargetsUnlocks
<1>5. CASE PCPEnds
  <2>1. PCPTakes("END") /\ failure' = failure
    BY <1>5 DEF PCPEnds
  <2>2. QED  BY <1>1, <1>5, <2>1, TargetsEnds
<1>6. ~PCPBlockFails
  <2>1. PCPBlockFails => PCPTakes("BLOCK") /\ FirstOf(toBeBlocked) \notin EXEC
    BY DEF PCPBlockFails
  <2>2. QED  BY <1>1, <2>1, TargetsBlocks
<1>7. ~PCPUnlockFails
  <2>1. PCPUnlockFails => PCPTakes("UNLOCK") /\ FirstOf(toBeUnlocked) \notin Unlockable
    BY DEF PCPUnlockFails
  <2>2. QED  BY <1>1, <2>1, TargetsUnlocks
<1>8. ~PCPEndFails
  <2> SUFFICES ASSUME PCPEndFails PROVE FALSE
    OBVIOUS
  <2>1. PICK d : d = FirstOf(toBeEnded)
    OBVIOUS
  <2>2. PCPTakes("END") /\ FoundAt(d) = {} /\ d \notin beingDummied
    BY <2>1 DEF PCPEndFails
  <2>3. d \in EXEC \cup BLOCKED
    BY <1>1, <2>1, <2>2, TargetsEnds
  <2>4. 1 \in FoundAt(d) \/ 3 \in FoundAt(d)
    <3>1. SearchOrder[1] = "BLOCKED" /\ SearchOrder[3] = "EXEC"
      BY DEF SearchOrder
    <3>2. d \in BLOCKED => Holds(SearchOrder[1], d)
      BY <3>1 DEF Holds
    <3>3. d \in EXEC => Holds(SearchOrder[3], d)
      BY <3>1 DEF Holds
    <3>4. \A i \in 1..3 : Holds(SearchOrder[i], d) => i \in FoundAt(d)
      BY DEF FoundAt
    <3>5. QED  BY <2>3, <3>2, <3>3, <3>4
  <2>5. QED  BY <2>2, <2>4
<1>9. ~PCPDispatchFails
  BY DEF PCPDispatchFails, Spare
<1>10. CASE PCPCannotSchedule \/ PCPCanSchedule \/ PCPLoadsDummy \/ PCPFreesDummy \/ PCPFreedDummy
            \/ PCPEnded
  <2>1. /\ UNCHANGED <<dummiedQueue, toBeBlocked, toBeUnlocked, toBeEnded, EXEC, BLOCKED, beingDummied>>
        /\ UNCHANGED <<running, dam, jobs, failure>>
    BY <1>10 DEF PCPCannotSchedule, PCPCanSchedule, PCPLoadsDummy, PCPFreesDummy, PCPFreedDummy, PCPEnded,
                 data, lists, outside
  <2>2. dummy'.id \in {0, dummy.id}
    BY <1>10 DEF PCPCannotSchedule, PCPCanSchedule, PCPLoadsDummy, PCPFreesDummy, PCPFreedDummy, PCPEnded,
                 dummies, TypeOK, DummyType
  <2>3. 0 \notin EXEC \cup BLOCKED \cup beingDummied
    BY DEF TypeOK, ListsType, DTBs
  <2>4. Stays({}) /\ WaitsOn({})
    BY <2>1, <2>2, <2>3 DEF Stays, WaitsOn, Asked
  <2>5. QED  BY <2>1, <2>4, TargetsFrame
<1>11. QED  BY <1>2, <1>3, <1>4, <1>5, <1>6, <1>7, <1>8, <1>9, <1>10 DEF PCP

\* A handler hands its message's claim, or block, over to the datum it pushes.
LEMMA TargetsPushes ==
  ASSUME TypeOK, OnePlace, Fresh, ClaimsHold, BlocksHold, NEW j \in jobs, Handler(j), j.at = "start"
  PROVE  ClaimsHold' /\ BlocksHold'
<1>1. /\ UNCHANGED <<EXEC, BLOCKED, beingDummied, dummy, running, dam>>
  BY DEF Handler, lists, dummies
<1>2. PICK k : k = [j EXCEPT !.at = "post"]
  OBVIOUS
<1>3. k.at = "post" /\ jobs' \subseteq (jobs \ {j}) \cup {k} /\ j.id \in Ids
  BY <1>2, HandlerPushes DEF Pushed, TypeOK, OutsideType, Jobs
<1>4. PICK x : x = <<j.id, "job", j>>
  OBVIOUS
<1>5. /\ \A t \in JobClaims' : t \in JobClaims /\ t # x
      /\ \A t \in BlockJobs' : t \in BlockJobs /\ t # x
  BY <1>3, <1>4, JobClaimsGo
<1>6. x[1] = j.id /\ x[2] = "job" /\ x[3] = j
  BY <1>4
<1>7. j.msg \in Reporting => x \in Claims /\ x[1] \in Where(x)
  BY <1>4, ClaimsIn DEF JobClaims, ClaimsHold
<1>8. j.msg = "BLOCKDTB" => x \in Blocks
  BY <1>4, ClaimsIn DEF BlockJobs
<1>9. Stays({}) /\ WaitsOn({})
  BY <1>1, AllStay
<1>10. CPUClaims' = CPUClaims /\ DAMClaims' = DAMClaims
  BY <1>1 DEF CPUClaims, DAMClaims
<1>11. /\ toBeUnlocked \in Seq(Ids) /\ toBeEnded \in Seq(Ids) /\ toBeBlocked \in Seq(Ids)
       /\ Once(toBeUnlocked) /\ Once(toBeEnded) /\ Once(toBeBlocked)
  BY DEF TypeOK, DataType, ClaimsHold, BlocksHold
<1>12. /\ j.msg = "BLOCKDTB" => toBeBlocked' = Append(toBeBlocked, j.id)
       /\ j.msg # "BLOCKDTB" => toBeBlocked' = toBeBlocked
       /\ j.msg \in {"IODONE", "EOQUANTUM"} => toBeUnlocked' = Append(toBeUnlocked, j.id)
       /\ j.msg \notin {"IODONE", "EOQUANTUM"} => toBeUnlocked' = toBeUnlocked
       /\ j.msg \in {"IOERROR", "EOFORABORT"} => toBeEnded' = Append(toBeEnded, j.id)
       /\ j.msg \notin {"IOERROR", "EOFORABORT"} => toBeEnded' = toBeEnded
       /\ j.msg = "DUMMY" => dummiedQueue' = Append(dummiedQueue, j.id)
       /\ j.msg # "DUMMY" => dummiedQueue' = dummiedQueue
  BY HandlerPushes
<1>13. BlocksHold'
  <2>1. CASE j.msg = "BLOCKDTB"
    <3>1. PICK y : y = <<j.id, "block", 0>>
      OBVIOUS
    <3>2. /\ \A t \in Queued(Append(toBeBlocked, j.id), "block") : t \in Queued(toBeBlocked, "block") \/ t = y
          /\ Once(toBeBlocked) /\ (\A t \in Queued(toBeBlocked, "block") : t[1] # j.id)
               => Once(Append(toBeBlocked, j.id))
      BY <1>3, <1>11, <3>1, QueuedPushes
    <3>3. \A t \in Queued(toBeBlocked, "block") : t[1] # j.id
      <4>1. \A t \in Queued(toBeBlocked, "block") : t \in Blocks /\ t[2] = "block"
        BY ClaimsIn, ClaimsAre DEF BlockData
      <4>2. QED  BY <1>6, <1>8, <2>1, <4>1, ClaimsAgree
    <3>4. Once(toBeBlocked')
      BY <1>11, <1>12, <2>1, <3>2, <3>3
    <3>5. \A t \in BlockData' : t \in BlockData \/ t = y
      BY <1>12, <2>1, <3>2 DEF BlockData
    <3>6. \A t \in Blocks' : (t \in Blocks /\ t # x) \/ t = y
      BY <1>5, <1>6, <3>5, ClaimsIn, ClaimsAre
    <3>7. y[1] = x[1]
      BY <1>6, <3>1
    <3>8. QED  BY <1>1, <1>8, <2>1, <3>4, <3>6, <3>7, BlockMoves
  <2>2. CASE j.msg # "BLOCKDTB"
    <3>1. BlockData' = BlockData /\ Once(toBeBlocked')
      BY <1>11, <1>12, <2>2 DEF BlockData
    <3>2. ASSUME NEW b \in Blocks' PROVE b \in Blocks /\ b[1] \notin {}
      BY <1>5, <3>1, ClaimsIn
    <3>3. QED  BY <1>9, <3>1, <3>2, BlocksLess
  <2>3. QED  BY <2>1, <2>2
<1>14. ASSUME NEW q, q = toBeUnlocked \/ q = toBeEnded, NEW place, place \in {"unlock", "end"},
              \A t \in Queued(q, place) : t \in Claims /\ t[2] # "job", j.msg \in Reporting
       PROVE  /\ \A t \in Queued(Append(q, j.id), place) : t \in Queued(q, place) \/ t = <<j.id, place, 0>>
              /\ Once(Append(q, j.id))
  <2>1. q \in Seq(Ids) /\ Once(q)
    BY <1>11, <1>14
  <2>2. /\ \A t \in Queued(Append(q, j.id), place) : t \in Queued(q, place) \/ t = <<j.id, place, 0>>
        /\ Once(q) /\ (\A t \in Queued(q, place) : t[1] # j.id) => Once(Append(q, j.id))
    BY <1>3, <2>1, QueuedPushes
  <2>3. \A t \in Queued(q, place) : t[1] # j.id
    BY <1>6, <1>7, <1>14, ClaimsAgree
  <2>4. QED  BY <2>1, <2>2, <2>3
<1>15. ClaimsHold'
  <2>1. CASE j.msg \in {"IODONE", "EOQUANTUM"}
    <3>1. PICK y : y = <<j.id, "unlock", 0>>
      OBVIOUS
    <3>2. j.msg \in Reporting
      BY <2>1 DEF Reporting
    <3>3. \A t \in Queued(toBeUnlocked, "unlock") : t \in Claims /\ t[2] # "job"
      BY ClaimsIn, ClaimsAre DEF UnlockClaims
    <3>4. Once(toBeUnlocked') /\ \A t \in UnlockClaims' : t \in UnlockClaims \/ t = y
      BY <1>12, <1>14, <2>1, <3>1, <3>2, <3>3 DEF UnlockClaims
    <3>5. EndClaims' = EndClaims /\ LoadedClaims' = LoadedClaims /\ Once(toBeEnded')
      BY <1>11, <1>12, <2>1 DEF EndClaims, LoadedClaims
    <3>6. \A t \in Claims' : (t \in Claims /\ t # x) \/ t = y
      BY <1>5, <1>6, <1>10, <3>4, <3>5, ClaimsIn, ClaimsAre
    <3>7. y[1] = x[1] /\ y[1] \in Where(y)'
      <4>1. x[1] \in EXEC \cup BLOCKED
        BY <1>6, <1>7, <2>1, <3>2 DEF Where
      <4>2. QED  BY <1>1, <1>6, <3>1, <4>1 DEF Where
    <3>8. QED  BY <1>7, <1>9, <3>2, <3>4, <3>5, <3>6, <3>7, ClaimMoves
  <2>2. CASE j.msg \in {"IOERROR", "EOFORABORT"}
    <3>1. PICK y : y = <<j.id, "end", 0>>
      OBVIOUS
    <3>2. j.msg \in Reporting
      BY <2>2 DEF Reporting
    <3>3. \A t \in Queued(toBeEnded, "end") : t \in Claims /\ t[2] # "job"
      BY ClaimsIn, ClaimsAre DEF EndClaims
    <3>4. Once(toBeEnded') /\ \A t \in EndClaims' : t \in EndClaims \/ t = y
      BY <1>12, <1>14, <2>2, <3>1, <3>2, <3>3 DEF EndClaims
    <3>5. UnlockClaims' = UnlockClaims /\ LoadedClaims' = LoadedClaims /\ Once(toBeUnlocked')
      BY <1>11, <1>12, <2>2 DEF UnlockClaims, LoadedClaims
    <3>6. \A t \in Claims' : (t \in Claims /\ t # x) \/ t = y
      BY <1>5, <1>6, <1>10, <3>4, <3>5, ClaimsIn, ClaimsAre
    <3>7. y[1] = x[1] /\ y[1] \in Where(y)'
      <4>1. x[1] \in EXEC \/ x[1] \in (BLOCKED \cup beingDummied) \ {dummy.id}
        BY <1>6, <1>7, <2>2, <3>2 DEF Where
      <4>2. dummy.id \notin EXEC
        BY DEF Fresh, FreshLists, Begun
      <4>3. QED  BY <1>1, <1>6, <3>1, <4>1, <4>2 DEF Where
    <3>8. QED  BY <1>7, <1>9, <3>2, <3>4, <3>5, <3>6, <3>7, ClaimMoves
  <2>3. CASE j.msg = "DUMMY"
    <3>1. PICK y : y = <<j.id, "loaded", 0>>
      OBVIOUS
    <3>2. j.msg \in Reporting
      BY <2>3 DEF Reporting
    <3>3. \A t \in LoadedClaims' : t \in LoadedClaims \/ t = y
      <4>1. dummiedQueue \in Seq(Ids) /\ dummiedQueue' = Append(dummiedQueue, j.id)
        BY <1>12, <2>3 DEF TypeOK, DataType
      <4>2. \A t \in Queued(Append(dummiedQueue, j.id), "loaded") :
              t \in Queued(dummiedQueue, "loaded") \/ t = y
        BY <1>3, <3>1, <4>1, QueuedPushes
      <4>3. QED  BY <4>1, <4>2 DEF LoadedClaims
    <3>4. /\ UnlockClaims' = UnlockClaims /\ EndClaims' = EndClaims
          /\ Once(toBeUnlocked') /\ Once(toBeEnded')
      BY <1>11, <1>12, <2>3 DEF UnlockClaims, EndClaims
    <3>5. \A t \in Claims' : (t \in Claims /\ t # x) \/ t = y
      BY <1>5, <1>6, <1>10, <3>3, <3>4, ClaimsIn, ClaimsAre
    <3>6. y[1] = x[1] /\ y[1] \in Where(y)'
      <4>1. x[1] \in beingDummied \ {dummy.id}
        BY <1>6, <1>7, <2>3, <3>2 DEF Where
      <4>2. QED  BY <1>1, <1>6, <3>1, <4>1 DEF Where
    <3>7. QED  BY <1>7, <1>9, <3>2, <3>4, <3>5, <3>6, ClaimMoves
  <2>4. CASE j.msg \notin {"IODONE", "EOQUANTUM", "IOERROR", "EOFORABORT", "DUMMY"}
    <3>1. /\ UnlockClaims' = UnlockClaims /\ EndClaims' = EndClaims /\ LoadedClaims' = LoadedClaims
          /\ Once(toBeUnlocked') /\ Once(toBeEnded')
      BY <1>11, <1>12, <2>4 DEF UnlockClaims, EndClaims, LoadedClaims
    <3>2. ASSUME NEW t \in Claims' PROVE t \in Claims /\ t[1] \notin {}
      BY <1>5, <1>10, <3>1, ClaimsIn
    <3>3. QED  BY <1>9, <3>1, <3>2, ClaimsLess
  <2>5. QED  BY <2>1, <2>2, <2>3, <2>4
<1>16. QED  BY <1>13, <1>15

\* A handler that posts its task, and the commands that start and end, claim nothing.
LEMMA TargetsPosts ==
  ASSUME TypeOK, ClaimsHold, BlocksHold, NEW j \in jobs, Handler(j), j.at = "post"
  PROVE  ClaimsHold' /\ BlocksHold'
<1>1. jobs' \subseteq jobs /\ UNCHANGED data
  BY HandlerPosts DEF Finished
<1>2. UNCHANGED <<EXEC, BLOCKED, beingDummied, dummy, running, dam>>
  BY DEF Handler, lists, dummies
<1>3. Stays({}) /\ WaitsOn({})
  BY <1>2, AllStay
<1>4. QED  BY <1>1, <1>2, <1>3, TargetsFrame DEF data

\* Without "finalizar", the only command is "ejecutar".
LEMMA TargetsCommands ==
  ASSUME TypeOK, ClaimsHold, BlocksHold, Quiet, Console \/ \E j \in jobs : ConsoleJob(j)
  PROVE  ClaimsHold' /\ BlocksHold' /\ failure' = failure
<1>1. /\ \A id : ~CommandFinalizar(id)
      /\ \A j \in jobs : ~CommandFinalizarTakesCPU(j) /\ ~CommandFinalizarFails(j) /\ ~CommandFinalizarPosts(j)
  <2>1. \A id : ~CommandFinalizar(id)
    BY DEF Quiet, CommandFinalizar
  <2>2. ASSUME NEW j \in jobs
        PROVE  ~CommandFinalizarTakesCPU(j) /\ ~CommandFinalizarFails(j) /\ ~CommandFinalizarPosts(j)
    <3>1. j.msg # "FINALIZAR"
      BY DEF Quiet
    <3>2. QED
      BY <3>1 DEF CommandFinalizarTakesCPU, CommandFinalizarFails, CommandFinalizarPosts
  <2>3. QED  BY <2>1, <2>2
<1>2. CASE CommandEjecutar
  <2>1. PICK k : /\ k = [msg |-> "EJECUTAR", id |-> nextID + scripts, cpu |-> NoCPU, n |-> 0,
                         at |-> "post"]
                 /\ jobs' \subseteq jobs \cup {k}
    BY <1>2 DEF CommandEjecutar
  <2>2. k.msg \notin Reporting /\ k.msg # "BLOCKDTB"
    BY <2>1 DEF Reporting
  <2>3. /\ \A t \in JobClaims' : t \in JobClaims
        /\ \A t \in BlockJobs' : t \in BlockJobs
    BY <2>1, <2>2, JobClaimsCome
  <2>4. /\ UNCHANGED <<dummiedQueue, toBeBlocked, toBeUnlocked, toBeEnded, EXEC, BLOCKED, beingDummied>>
        /\ UNCHANGED <<dummy, running, dam, failure>>
    BY <1>2 DEF CommandEjecutar, lists, dummies
  <2>5. /\ CPUClaims' = CPUClaims /\ UnlockClaims' = UnlockClaims /\ EndClaims' = EndClaims
        /\ LoadedClaims' = LoadedClaims /\ BlockData' = BlockData /\ DAMClaims' = DAMClaims
    BY <2>4 DEF CPUClaims, UnlockClaims, EndClaims, LoadedClaims, BlockData, DAMClaims
  <2>6. Stays({}) /\ WaitsOn({})
    BY <2>4, AllStay
  <2>7. ASSUME NEW t \in Claims' PROVE t \in Claims /\ t[1] \notin {}
    BY <2>3, <2>5, ClaimsIn
  <2>8. ASSUME NEW b \in Blocks' PROVE b \in Blocks /\ b[1] \notin {}
    BY <2>3, <2>5, ClaimsIn
  <2>9. Once(toBeUnlocked') /\ Once(toBeEnded') /\ Once(toBeBlocked')
    BY <2>4 DEF ClaimsHold, BlocksHold
  <2>10. ClaimsHold'
    BY <2>6, <2>7, <2>9, ClaimsLess
  <2>11. BlocksHold'
    BY <2>6, <2>8, <2>9, BlocksLess
  <2>12. QED  BY <2>4, <2>10, <2>11
<1>3. CASE \E j \in jobs : CommandEjecutarPosts(j)
  <2>1. /\ UNCHANGED <<EXEC, BLOCKED, beingDummied, dummy, running, dam, failure, data>>
        /\ jobs' \subseteq jobs
    BY <1>3 DEF CommandEjecutarPosts, lists, dummies, Finished
  <2>2. Stays({}) /\ WaitsOn({})
    BY <2>1, AllStay
  <2>3. QED  BY <2>1, <2>2, TargetsFrame DEF data
<1>4. QED  BY <1>1, <1>2, <1>3 DEF Console, ConsoleJob

\* A CPU hands the DTB it executed over to the DAM or to its message.
LEMMA TargetsCPU ==
  ASSUME TypeOK, OnePlace, Fresh, LoadIds, ClaimsHold, BlocksHold, LoadsOnce,
         NEW c \in CPUs, CPUSpeaks(c)
  PROVE  ClaimsHold' /\ BlocksHold'
<1>1. /\ running' = [running EXCEPT ![c] = NotRunning]
      /\ UNCHANGED <<dummiedQueue, toBeBlocked, toBeUnlocked, toBeEnded, EXEC, BLOCKED, beingDummied, dummy>>
  BY DEF CPUSpeaks, CPURunsDummy, CPURequestsIO, CPUEndsQuantum, CPUEndsDTB, CPUSends, lists, data, dummies
<1>2. /\ UnlockClaims' = UnlockClaims /\ EndClaims' = EndClaims /\ LoadedClaims' = LoadedClaims
      /\ BlockData' = BlockData
  BY <1>1, ClaimsFrame
<1>3. PICK d : d = running[c].id
  OBVIOUS
<1>4. PICK x : x = <<d, "cpu", c>>
  OBVIOUS
<1>5. \A t \in CPUClaims' : t \in CPUClaims /\ t # x
  <2>1. PICK e : e = NotRunning
    OBVIOUS
  <2>2. e.kind # "dtb" /\ running' = [running EXCEPT ![c] = e]
    BY <1>1, <2>1 DEF NotRunning
  <2>3. QED  BY <1>3, <1>4, <2>2, CPUClaimsNext
<1>6. x[1] = d /\ x[2] = "cpu"
  BY <1>4
<1>7. running[c].kind = "dtb" => x \in Claims /\ d \in EXEC
  <2>1. running[c].kind = "dtb" => x \in Claims
    BY <1>3, <1>4, ClaimsIn DEF CPUClaims
  <2>2. Where(x) = EXEC
    BY <1>6 DEF Where
  <2>3. QED  BY <1>6, <2>1, <2>2 DEF ClaimsHold
<1>8. ASSUME NEW m, NEW n, CPUSends(c, m, n)
      PROVE  \E k : k = Message(m, d, c, n) /\ jobs' \subseteq jobs \cup {k}
  BY <1>3, <1>8 DEF CPUSends
<1>9. Once(toBeUnlocked') /\ Once(toBeEnded') /\ Once(toBeBlocked')
  BY <1>1 DEF ClaimsHold, BlocksHold
<1>10. dam \subseteq dam' => Stays({}) /\ WaitsOn({})
  BY <1>1 DEF Stays, WaitsOn, Asked
<1>11. CASE CPURunsDummy(c)
  <2>1. PICK r : r = [op |-> "load", id |-> d, n |-> 0]
    OBVIOUS
  <2>2. CPUSends(c, "BLOCKDUMMY", 0) /\ dam' = dam \cup {r} /\ c \in OnDummy
    BY <1>3, <1>11, <2>1 DEF CPURunsDummy, OnDummy
  <2>3. PICK k : k = Message("BLOCKDUMMY", d, c, 0) /\ jobs' \subseteq jobs \cup {k}
    BY <1>8, <2>2
  <2>4. k.msg \notin Reporting /\ k.msg # "BLOCKDTB"
    BY <2>3 DEF Message, Reporting
  <2>5. /\ \A t \in JobClaims' : t \in JobClaims
        /\ \A t \in BlockJobs' : t \in BlockJobs
    BY <2>3, <2>4, JobClaimsCome
  <2>6. PICK y : y = <<d, "dam", r>>
    OBVIOUS
  <2>7. \A t \in DAMClaims' : t \in DAMClaims \/ t = y
    BY <2>1, <2>2, <2>6 DEF DAMClaims
  <2>8. d = dummy.id /\ d \in beingDummied
    BY <1>3, <2>2 DEF LoadIds, LoadsOnce
  <2>9. y[1] = d /\ y[1] \in Where(y)'
    <3>1. y[2] = "dam" /\ y[3].op = "load" /\ y[1] = d
      BY <2>1, <2>6
    <3>2. QED  BY <1>1, <2>8, <3>1 DEF Where
  <2>10. ASSUME NEW t \in Claims, t[1] = d PROVE FALSE
    <3>1. d \notin EXEC \cup BLOCKED
      BY <2>8 DEF OnePlace
    <3>2. t \in DAMClaims /\ t[3].op # "io"
      BY <2>8, <2>10, <3>1, WhereIs
    <3>3. PICK s \in dam : t = <<s.id, "dam", s>>
      BY <3>2 DEF DAMClaims
    <3>4. s.id = dummy.id /\ s.op = "load"
      BY <2>8, <2>10, <3>2, <3>3 DEF TypeOK, OutsideType
    <3>5. QED  BY <2>2, <3>4 DEF LoadsOnce
  <2>11. Stays({y[1]}) /\ WaitsOn({})
    BY <1>10, <2>2 DEF Stays
  <2>12. \A t \in Claims : t[1] # y[1]
    BY <2>9, <2>10
  <2>13. ASSUME NEW t \in Claims' PROVE t \in Claims \/ t = y
    BY <1>2, <1>5, <2>5, <2>7, ClaimsIn
  <2>14. ASSUME NEW b \in Blocks' PROVE b \in Blocks /\ b[1] \notin {}
    BY <1>2, <2>5, ClaimsIn
  <2>15. ClaimsHold'
    BY <1>9, <2>9, <2>11, <2>12, <2>13, ClaimAdds
  <2>16. BlocksHold'
    BY <1>9, <2>11, <2>14, BlocksLess
  <2>17. QED  BY <2>15, <2>16
<1>12. CASE CPURequestsIO(c)
  <2>1. PICK r : r = [op |-> "io", id |-> d, n |-> bursts[d]]
    OBVIOUS
  <2>2. CPUSends(c, "BLOCKDTB", bursts[d]) /\ dam' = dam \cup {r} /\ running[c].kind = "dtb"
    BY <1>3, <1>12, <2>1 DEF CPURequestsIO
  <2>3. PICK k : k = Message("BLOCKDTB", d, c, bursts[d]) /\ jobs' \subseteq jobs \cup {k}
    BY <1>8, <2>2
  <2>4. k.msg \notin Reporting /\ k.id = d
    BY <2>3 DEF Message, Reporting
  <2>5. PICK z : z = <<k.id, "job", k>>
    OBVIOUS
  <2>6. /\ \A t \in JobClaims' : t \in JobClaims
        /\ \A t \in BlockJobs' : t \in BlockJobs \/ t = z
    BY <2>3, <2>4, <2>5, JobClaimsCome
  <2>7. PICK y : y = <<d, "dam", r>>
    OBVIOUS
  <2>8. \A t \in DAMClaims' : t \in DAMClaims \/ t = y
    BY <2>1, <2>2, <2>7 DEF DAMClaims
  <2>9. y[1] = x[1] /\ y[1] \in Where(y)'
    <3>1. y[2] = "dam" /\ y[3].op = "io" /\ y[1] = d
      BY <2>1, <2>7
    <3>2. QED  BY <1>1, <1>6, <1>7, <2>2, <3>1 DEF Where
  <2>10. Stays({})
    BY <1>10, <2>2
  <2>11. ASSUME NEW t \in Claims' PROVE (t \in Claims /\ t # x) \/ t = y
    BY <1>2, <1>5, <1>6, <2>6, <2>8, ClaimsIn, ClaimsAre
  <2>12. ClaimsHold'
    BY <1>7, <1>9, <2>2, <2>9, <2>10, <2>11, ClaimMoves
  <2>13. \A t \in Blocks : t[1] # z[1]
    <3>1. z[1] = x[1]
      BY <1>6, <2>4, <2>5
    <3>2. x[2] # "dam" /\ x \in Claims
      BY <1>6, <1>7, <2>2
    <3>3. QED  BY <3>1, <3>2, BlocksAreAsked
  <2>14. z[1] \in EXEC /\ Asked(dam', z[1])
    <3>1. z[1] = d /\ r \in dam' /\ r.op = "io" /\ r.id = d
      BY <2>1, <2>2, <2>4, <2>5
    <3>2. QED  BY <1>7, <2>2, <3>1 DEF Asked
  <2>15. ASSUME NEW b \in Blocks' PROVE b \in Blocks \/ b = z
    BY <1>2, <2>6, ClaimsIn
  <2>16. dam \subseteq dam' /\ EXEC' = EXEC
    BY <1>1, <2>2
  <2>17. BlocksHold'
    BY <1>9, <2>13, <2>14, <2>15, <2>16, BlockAdds
  <2>18. QED  BY <2>12, <2>17
<1>13. CASE CPUEndsQuantum(c) \/ CPUEndsDTB(c)
  <2>1. /\ CPUSends(c, "EOQUANTUM", bursts[d]) \/ CPUSends(c, "EOFORABORT", bursts[d])
        /\ dam' = dam /\ running[c].kind = "dtb"
    BY <1>3, <1>13 DEF CPUEndsQuantum, CPUEndsDTB
  <2>2. PICK k : k.id = d /\ k.msg \in {"EOQUANTUM", "EOFORABORT"} /\ jobs' \subseteq jobs \cup {k}
    BY <1>8, <2>1 DEF Message
  <2>3. PICK y : y = <<k.id, "job", k>>
    OBVIOUS
  <2>4. /\ \A t \in JobClaims' : t \in JobClaims \/ t = y
        /\ \A t \in BlockJobs' : t \in BlockJobs
    BY <2>2, <2>3, JobClaimsCome
  <2>5. DAMClaims' = DAMClaims
    BY <2>1 DEF DAMClaims
  <2>6. y[1] = x[1] /\ y[1] \in Where(y)'
    <3>1. y[2] = "job" /\ y[3] = k /\ y[1] = d
      BY <2>2, <2>3
    <3>2. QED  BY <1>1, <1>6, <1>7, <2>1, <2>2, <3>1 DEF Where
  <2>7. Stays({}) /\ WaitsOn({})
    BY <1>10, <2>1
  <2>8. ASSUME NEW t \in Claims' PROVE (t \in Claims /\ t # x) \/ t = y
    BY <1>2, <1>5, <1>6, <2>4, <2>5, ClaimsIn, ClaimsAre
  <2>9. ASSUME NEW b \in Blocks' PROVE b \in Blocks /\ b[1] \notin {}
    BY <1>2, <2>4, ClaimsIn
  <2>10. ClaimsHold'
    BY <1>7, <1>9, <2>1, <2>6, <2>7, <2>8, ClaimMoves
  <2>11. BlocksHold'
    BY <1>9, <2>7, <2>9, BlocksLess
  <2>12. QED  BY <2>10, <2>11
<1>14. QED  BY <1>11, <1>12, <1>13 DEF CPUSpeaks

\* The DAM answers for a DTB that has left EXEC, or that the dummy loads no more.
LEMMA TargetsDAM ==
  ASSUME TypeOK, OnePlace, ~Overtaking, ClaimsHold, BlocksHold, LoadsOnce,
         NEW r \in dam, DAMAnswers(r)
  PROVE  ClaimsHold' /\ BlocksHold'
<1>1. /\ UNCHANGED <<dummiedQueue, toBeBlocked, toBeUnlocked, toBeEnded, EXEC, BLOCKED, beingDummied, dummy>>
      /\ running' = running /\ dam' = dam \ {r} /\ Settled(r)
  BY DEF DAMAnswers, lists, data, dummies
<1>2. /\ UnlockClaims' = UnlockClaims /\ EndClaims' = EndClaims /\ LoadedClaims' = LoadedClaims
      /\ BlockData' = BlockData /\ CPUClaims' = CPUClaims
  BY <1>1, ClaimsFrame
<1>3. PICK m \in {IF r.op = "load" THEN "DUMMY" ELSE "IODONE", "IOERROR"} :
         jobs' = jobs \cup {Message(m, r.id, NoCPU, r.n)}
  BY DEF DAMAnswers
<1>4. PICK k : k = Message(m, r.id, NoCPU, r.n)
  OBVIOUS
<1>5. k.id = r.id /\ k.msg = m /\ r.op \in {"load", "io"} /\ jobs' \subseteq jobs \cup {k}
  BY <1>3, <1>4 DEF Message, TypeOK, OutsideType
<1>6. PICK x : x = <<r.id, "dam", r>>
  OBVIOUS
<1>7. PICK y : y = <<k.id, "job", k>>
  OBVIOUS
<1>8. x \in DAMClaims /\ x \in Claims /\ x[1] = r.id /\ x[2] = "dam" /\ x[3] = r
  BY <1>6, ClaimsIn DEF DAMClaims
<1>9. \A t \in DAMClaims' : t \in DAMClaims /\ t # x
  BY <1>1, <1>6 DEF DAMClaims
<1>10. /\ \A t \in JobClaims' : t \in JobClaims \/ t = y
       /\ \A t \in BlockJobs' : t \in BlockJobs
  BY <1>3, <1>5, <1>7, JobClaimsCome
<1>11. Once(toBeUnlocked') /\ Once(toBeEnded') /\ Once(toBeBlocked')
  BY <1>1 DEF ClaimsHold, BlocksHold
<1>12. Stays({})
  BY <1>1 DEF Stays
<1>13. y[1] = x[1] /\ y[2] = "job" /\ y[3].msg = m
  BY <1>5, <1>7, <1>8
<1>14. x[1] \in Where(x)
  BY <1>8 DEF ClaimsHold
<1>15. y[1] \in Where(y)'
  <2>1. CASE r.op = "io"
    <3>1. x[1] \in BLOCKED
      BY <1>1, <1>8, <1>14, <2>1 DEF Where, Settled
    <3>2. dummy.id \notin BLOCKED
      BY DEF LoadsOnce, OnePlace, TypeOK, ListsType, DTBs
    <3>3. QED  BY <1>1, <1>3, <1>13, <2>1, <3>1, <3>2 DEF Where
  <2>2. CASE r.op = "load"
    <3>1. x[1] \in beingDummied \ {dummy.id}
      BY <1>1, <1>8, <1>14, <2>2 DEF Where, Settled
    <3>2. QED  BY <1>1, <1>3, <1>13, <2>2, <3>1 DEF Where
  <2>3. QED  BY <1>5, <2>1, <2>2
<1>16. ASSUME NEW t \in Claims' PROVE (t \in Claims /\ t # x) \/ t = y
  BY <1>2, <1>8, <1>9, <1>10, ClaimsIn, ClaimsAre
<1>17. ClaimsHold'
  BY <1>8, <1>11, <1>12, <1>13, <1>15, <1>16, ClaimMoves
<1>18. BlocksHold'
  <2>1. CASE r.op = "io"
    <3>1. WaitsOn({r.id})
      BY <1>1 DEF WaitsOn, Asked
    <3>2. r.id \notin EXEC
      BY <1>1, <2>1 DEF Settled
    <3>3. ASSUME NEW b \in Blocks' PROVE b \in Blocks /\ b[1] \notin {r.id}
      <4>1. b \in Blocks
        BY <1>2, <1>10, ClaimsIn
      <4>2. QED  BY <3>2, <4>1 DEF BlocksHold
    <3>4. QED  BY <1>11, <3>1, <3>3, BlocksLess
  <2>2. CASE r.op = "load"
    <3>1. WaitsOn({})
      BY <1>1, <2>2 DEF WaitsOn, Asked
    <3>2. ASSUME NEW b \in Blocks' PROVE b \in Blocks /\ b[1] \notin {}
      BY <1>2, <1>10, ClaimsIn
    <3>3. QED  BY <1>11, <3>1, <3>2, BlocksLess
  <2>3. QED  BY <1>5, <2>1, <2>2
<1>19. QED  BY <1>17, <1>18

\* Every step keeps the claims and the blocks, and none ends the process.
LEMMA ClaimsNext ==
  ASSUME ~Overtaking, FaultyCPUs = {}, TasksInv, TargetsInv, [Next]_vars
  PROVE  ClaimsHold' /\ BlocksHold' /\ failure' = failure
<1>1. TypeOK /\ OnePlace /\ Fresh /\ IsFiniteSet(jobs) /\ LoadIds /\ EveryTaskHasItsDatum
  BY DEF TasksInv, SchedulerInv, LoadsInv
<1>2. ClaimsHold /\ BlocksHold /\ LoadsOnce /\ Quiet /\ Spare
  BY DEF TargetsInv
<1>3. ASSUME UNCHANGED <<data, lists, dummy, running, dam, jobs, failure>>
      PROVE  ClaimsHold' /\ BlocksHold' /\ failure' = failure
  <2>1. /\ UNCHANGED <<dummiedQueue, toBeBlocked, toBeUnlocked, toBeEnded, EXEC, BLOCKED, beingDummied>>
        /\ UNCHANGED <<dummy, running, dam, jobs, failure>>
    BY <1>3 DEF data, lists
  <2>2. Stays({}) /\ WaitsOn({})
    BY <2>1, AllStay
  <2>3. QED  BY <1>2, <2>1, <2>2, TargetsFrame
<1>4. CASE UNCHANGED vars
  BY <1>3, <1>4 DEF vars, dummies, outside
<1>5. CASE PLP
  BY <1>1, <1>2, <1>5, TargetsPLP
<1>6. CASE PCP
  BY <1>1, <1>2, <1>6, TargetsPCP
<1>7. CASE Console \/ \E j \in jobs : ConsoleJob(j)
  BY <1>1, <1>2, <1>7, TargetsCommands
<1>8. ASSUME NEW j \in jobs, Handler(j)
      PROVE  ClaimsHold' /\ BlocksHold' /\ failure' = failure
  <2>1. j.at \in {"start", "post"}
    BY <1>1 DEF TypeOK, OutsideType, Jobs
  <2>2. failure' = failure
    BY <1>8 DEF Handler
  <2>3. CASE j.at = "start"
    BY <1>1, <1>2, <1>8, <2>2, <2>3, TargetsPushes
  <2>4. CASE j.at = "post"
    BY <1>1, <1>2, <1>8, <2>2, <2>4, TargetsPosts
  <2>5. QED  BY <2>1, <2>3, <2>4
<1>9. ASSUME NEW c \in CPUs, CPUSpeaks(c)
      PROVE  ClaimsHold' /\ BlocksHold' /\ failure' = failure
  <2>1. failure' = failure
    BY <1>9 DEF CPUSpeaks, CPURunsDummy, CPURequestsIO, CPUEndsQuantum, CPUEndsDTB, CPUSends
  <2>2. QED  BY <1>1, <1>2, <1>9, <2>1, TargetsCPU
<1>10. ASSUME NEW c \in CPUs, CPUConnects(c) \/ CPUDisconnects(c)
       PROVE  ClaimsHold' /\ BlocksHold' /\ failure' = failure
  <2>1. CPUConnects(c)
    BY <1>10 DEF CPUDisconnects
  <2>2. QED  BY <1>3, <2>1 DEF CPUConnects, dummies, outside
<1>11. ASSUME NEW r \in dam, DAMAnswers(r)
       PROVE  ClaimsHold' /\ BlocksHold' /\ failure' = failure
  <2>1. failure' = failure
    BY <1>11 DEF DAMAnswers
  <2>2. QED  BY <1>1, <1>2, <1>11, <2>1, TargetsDAM
<1>12. QED  BY <1>4, <1>5, <1>6, <1>7, <1>8, <1>9, <1>10, <1>11 DEF Next

\* Nobody types "finalizar", and the planner is the only one to take a CPU.
LEMMA QuietNext ==
  ASSUME MaxFinalizar = 0, FaultyCPUs = {}, TypeOK, TypeOK', Quiet, Spare, [Next]_vars
  PROVE  Quiet' /\ Spare'
<1>1. finalizars' = 0
  BY DEF TypeOK, OutsideType
<1>2. \A j \in jobs' : j.msg # "FINALIZAR"
  <2>1. CASE jobs' = jobs
    BY <2>1 DEF Quiet
  <2>2. CASE \E j \in jobs : Handler(j) \/ ConsoleJob(j)
    <3>1. PICK j \in jobs : Handler(j) \/ ConsoleJob(j)
      BY <2>2
    <3>2. PICK k : Key(k) = Key(j) /\ jobs' \subseteq (jobs \ {j}) \cup {k}
      BY <3>1, JobKept
    <3>3. k.msg = j.msg
      BY <3>2 DEF Key
    <3>4. QED  BY <3>2, <3>3 DEF Quiet
  <2>3. CASE Console
    <3>1. CommandEjecutar
      BY <2>3 DEF Console, CommandFinalizar, Quiet
    <3>2. QED  BY <3>1 DEF CommandEjecutar, Quiet
  <2>4. CASE \E c \in CPUs : CPUSpeaks(c)
    <3>1. PICK c \in CPUs, m \in {"BLOCKDUMMY", "BLOCKDTB", "EOQUANTUM", "EOFORABORT"} :
             \E n \in Nat : CPUSends(c, m, n)
      <4>1. PICK c \in CPUs : CPUSpeaks(c)
        BY <2>4
      <4>2. running[c].kind = "dtb" => bursts[running[c].id] \in Nat
        BY DEF TypeOK, OutsideType
      <4>3. QED
        BY <4>1, <4>2, Zenon DEF CPUSpeaks, CPURunsDummy, CPURequestsIO, CPUEndsQuantum, CPUEndsDTB
    <3>2. QED  BY <3>1 DEF CPUSends, Message, Quiet
  <2>5. CASE \E r \in dam : DAMAnswers(r)
    <3>1. PICK r \in dam, m \in {"DUMMY", "IODONE", "IOERROR"} :
             jobs' = jobs \cup {Message(m, r.id, NoCPU, r.n)}
      BY <2>5 DEF DAMAnswers
    <3>2. QED  BY <3>1 DEF Message, Quiet
  <2>6. CASE UNCHANGED vars \/ PLP \/ PCP \/ \E c \in CPUs : CPUConnects(c) \/ CPUDisconnects(c)
    BY <2>1, <2>6, JobsAlone
  <2>7. QED  BY <2>2, <2>3, <2>4, <2>5, <2>6 DEF Next
<1>3. Spare'
  <2>1. CASE PCP
    <3>1. CASE PCPCanSchedule
      BY <3>1 DEF PCPCanSchedule, holder, IdleCPUs, Spare
    <3>2. CASE ~PCPCanSchedule
      <4>1. ~PCPDispatchFails
        BY DEF PCPDispatchFails, Spare
      <4>2. PICK p : p = pcp
        OBVIOUS
      <4>3. p \in Thread({"dispatch", "freeDummy", "exit"})
        BY <4>2 DEF TypeOK, ThreadsType
      <4>4. CASE PCPFreesDummy
        <5>1. pcp' = [p EXCEPT !.at = "freeDummy"]
          BY <4>2, <4>4 DEF PCPFreesDummy
        <5>2. pcp'.at = "freeDummy"
          BY <4>3, <5>1 DEF Thread
        <5>3. QED  BY <5>2 DEF Spare
      <4>5. CASE PCPDispatches \/ PCPFreedDummy \/ PCPEnds \/ PCPEnded
        <5>1. pcp'.at \in {"wait", "exit"}
          BY <4>5 DEF PCPDispatches, PCPDispatchesDTB, PCPDispatchesDummy, PCPFreedDummy, PCPEnds,
                      PCPEnded, Waiting
        <5>2. QED  BY <5>1 DEF Spare
      <4>6. CASE PCPCannotSchedule \/ PCPLoadsDummy \/ PCPBlocks \/ PCPBlockFails \/ PCPUnlocks
                   \/ PCPUnlockFails \/ PCPEndFails
        <5>1. pcp' = pcp /\ pcp.at = "wait"
          BY <4>6 DEF PCPCannotSchedule, PCPLoadsDummy, PCPBlocks, PCPBlockFails, PCPUnlocks,
                      PCPUnlockFails, PCPEndFails, PCPTakes, threads
        <5>2. QED  BY <5>1 DEF Spare
      <4>7. QED  BY <2>1, <3>2, <4>1, <4>4, <4>5, <4>6 DEF PCP
    <3>3. QED  BY <3>1, <3>2
  <2>2. CASE ~PCP
    <3>1. pcp' = pcp /\ cpus \subseteq cpus' /\ busy' \subseteq busy
      <4>1. CASE UNCHANGED vars
        BY <4>1 DEF vars, threads, holder
      <4>2. CASE PLP
        BY <4>2 DEF PLP, PLPCannotSchedule, PLPTakesDummy, PLPAdmits, PLPCreates, PLPInitializes,
                    PLPInitializeFails, threads, holder
      <4>3. CASE Console
        BY <4>3 DEF Console, CommandEjecutar, CommandFinalizar, threads, holder
      <4>4. ASSUME NEW j \in jobs, Handler(j)
            PROVE  pcp' = pcp /\ cpus \subseteq cpus' /\ busy' \subseteq busy
        BY <4>4 DEF Handler, Comms_DAM_DummyFinished, Comms_DAM_OperationFinished, Comms_DAM_IOError,
                    Comms_CPU_ErrorOrEOF, Comms_CPU_DummyAtDAM, Comms_CPU_DTBAtDAM,
                    Comms_CPU_OutOfQuantum, FreeCPU, threads
      <4>5. ASSUME NEW j \in jobs, ConsoleJob(j)
            PROVE  pcp' = pcp /\ cpus \subseteq cpus' /\ busy' \subseteq busy
        <5>1. j.msg # "FINALIZAR"
          BY DEF Quiet
        <5>2. CommandEjecutarPosts(j)
          BY <4>5, <5>1 DEF ConsoleJob, CommandFinalizarTakesCPU, CommandFinalizarFails,
                            CommandFinalizarPosts
        <5>3. QED  BY <5>2 DEF CommandEjecutarPosts, threads, holder
      <4>6. ASSUME NEW c \in CPUs, CPUSpeaks(c) \/ CPUConnects(c) \/ CPUDisconnects(c)
            PROVE  pcp' = pcp /\ cpus \subseteq cpus' /\ busy' \subseteq busy
        BY <4>6 DEF CPUSpeaks, CPURunsDummy, CPURequestsIO, CPUEndsQuantum, CPUEndsDTB, CPUSends,
                    CPUConnects, CPUDisconnects, threads
      <4>7. ASSUME NEW r \in dam, DAMAnswers(r)
            PROVE  pcp' = pcp /\ cpus \subseteq cpus' /\ busy' \subseteq busy
        BY <4>7 DEF DAMAnswers, threads, holder
      <4>8. QED  BY <2>2, <4>1, <4>2, <4>3, <4>4, <4>5, <4>6, <4>7 DEF Next
    <3>2. QED  BY <3>1 DEF Spare, IdleCPUs
  <2>3. QED  BY <2>1, <2>2
<1>4. QED  BY <1>1, <1>2, <1>3 DEF Quiet

\* The DTB that the dummy loads stays in beingDummied meanwhile.
LEMMA LoadedStays ==
  ASSUME TypeOK, OnePlace, Fresh, IsFiniteSet(jobs), EveryTaskHasItsDatum, ClaimsHold, BlocksHold,
         LoadsOnce, [Next]_vars, ~PLPAdmits, ~PCPFreesDummy, dummy.id # 0
  PROVE  dummy.id \in beingDummied'
<1>1. dummy.id \in beingDummied
  BY DEF LoadsOnce
<1>2. CASE beingDummied' = beingDummied
  BY <1>1, <1>2
<1>3. CASE PLPInitializes
  <2>1. beingDummied' = beingDummied \ Loaded
    BY <1>3 DEF PLPInitializes
  <2>2. ASSUME NEW i \in DOMAIN dummiedQueue PROVE dummiedQueue[i] # dummy.id
    <3>1. PICK t : t = <<dummiedQueue[i], "loaded", 0>>
      OBVIOUS
    <3>2. t \in LoadedClaims /\ t[1] = dummiedQueue[i] /\ t[2] = "loaded"
      BY <3>1 DEF LoadedClaims, Queued
    <3>3. t[1] \in Where(t) /\ Where(t) = beingDummied \ {dummy.id}
      BY <3>2, ClaimsIn DEF ClaimsHold, Where
    <3>4. QED  BY <3>2, <3>3
  <2>3. QED  BY <1>1, <2>1, <2>2 DEF Loaded
<1>4. CASE PCPEnds
  <2>1. PCPTakes("END")
    BY <1>4 DEF PCPEnds
  <2>2. QED  BY <1>1, <1>4, <2>1, DataThere, TargetsEnds
<1>5. CASE PLP /\ ~PLPInitializes
  BY <1>2, <1>5 DEF PLP, PLPCannotSchedule, PLPTakesDummy, PLPCreates, PLPInitializeFails, lists
<1>6. CASE PCP /\ ~PCPEnds
  BY <1>2, <1>6
  DEF PCP, PCPDispatches, PCPDispatchesDTB, PCPDispatchesDummy, PCPCannotSchedule, PCPCanSchedule,
      PCPDispatchFails, PCPLoadsDummy, PCPFreedDummy, PCPBlocks, PCPBlockFails, PCPUnlocks,
      PCPUnlockFails, PCPEnded, PCPEndFails, lists
<1>7. CASE UNCHANGED vars \/ Console \/ \E j \in jobs : Handler(j) \/ ConsoleJob(j)
  BY <1>2, <1>7
  DEF Console, CommandEjecutar, CommandFinalizar, Handler, ConsoleJob, CommandEjecutarPosts,
      CommandFinalizarTakesCPU, CommandFinalizarFails, CommandFinalizarPosts, lists, vars
<1>8. CASE \/ \E c \in CPUs : CPUSpeaks(c) \/ CPUConnects(c) \/ CPUDisconnects(c)
           \/ \E r \in dam : DAMAnswers(r)
  BY <1>2, <1>8
  DEF CPUSpeaks, CPURunsDummy, CPURequestsIO, CPUEndsQuantum, CPUEndsDTB, CPUSends,
      CPUConnects, CPUDisconnects, DAMAnswers, lists
<1>9. QED  BY <1>3, <1>4, <1>5, <1>6, <1>7, <1>8 DEF Next

\* What the DAM is asked to load.
LEMMA LoadsAsked ==
  ASSUME [Next]_vars, NEW r \in dam', r.op = "load"
  PROVE  r \in dam \/ \E c \in CPUs : CPURunsDummy(c) /\ r.id = running[c].id
<1>1. CASE UNCHANGED vars \/ PLP \/ PCP \/ \E c \in CPUs : CPUConnects(c) \/ CPUDisconnects(c)
  BY <1>1, JobsAlone
<1>2. CASE Console \/ \E j \in jobs : Handler(j) \/ ConsoleJob(j)
  BY <1>2
  DEF Console, CommandEjecutar, CommandFinalizar, Handler, ConsoleJob, CommandEjecutarPosts,
      CommandFinalizarTakesCPU, CommandFinalizarFails, CommandFinalizarPosts, outside
<1>3. CASE \E q \in dam : DAMAnswers(q)
  BY <1>3 DEF DAMAnswers
<1>4. ASSUME NEW c \in CPUs, CPUSpeaks(c)
      PROVE  r \in dam \/ \E b \in CPUs : CPURunsDummy(b) /\ r.id = running[b].id
  <2>1. CASE CPURunsDummy(c)
    <3>1. PICK k : k = [op |-> "load", id |-> running[c].id, n |-> 0]
      OBVIOUS
    <3>2. dam' = dam \cup {k} /\ k.id = running[c].id
      BY <2>1, <3>1 DEF CPURunsDummy
    <3>3. QED  BY <2>1, <3>2
  <2>2. CASE CPURequestsIO(c)
    <3>1. PICK k : k = [op |-> "io", id |-> running[c].id, n |-> bursts[running[c].id]]
      OBVIOUS
    <3>2. dam' = dam \cup {k} /\ k.op # "load"
      BY <2>2, <3>1 DEF CPURequestsIO
    <3>3. QED  BY <3>2
  <2>3. CASE CPUEndsQuantum(c) \/ CPUEndsDTB(c)
    BY <2>3 DEF CPUEndsQuantum, CPUEndsDTB
  <2>4. QED  BY <1>4, <2>1, <2>2, <2>3 DEF CPUSpeaks
<1>5. QED  BY <1>1, <1>2, <1>3, <1>4 DEF Next

\* When a CPU runs the dummy, no other is to run it.
LEMMA LoadAlone ==
  ASSUME TypeOK, Fresh, LoadsInv, NEW c \in CPUs, CPURunsDummy(c)
  PROVE  Pending(PCPtasks, "LOAD_DUMMY") = 0 /\ dummyIn["READY"] = 0 /\ OnDummy = {c}
<1>1. IsFiniteSet(jobs) /\ IsFiniteSet(OnDummy) /\ c \in OnDummy
  BY DEF LoadsInv, OnDummy, CPURunsDummy
<1>2. PICK h, a, b, o, e, f :
        /\ h = Handed /\ a = Pending(PCPtasks, "LOAD_DUMMY") /\ b = dummyIn["READY"]
        /\ o = Cardinality(OnDummy) /\ e = Cardinality(ToldDummy) /\ f = Pending(PCPtasks, "FREE_DUMMY")
  OBVIOUS
<1>3. IsFiniteSet(ToldDummy) /\ e \in Nat
  BY <1>1, <1>2, CountPart DEF ToldDummy
<1>4. a \in Nat /\ f \in Nat
  BY <1>1, <1>2, CountsAre
<1>5. h \in Nat /\ b \in Nat
  BY <1>2 DEF Handed, TypeOK, DummyType, DummyLists
<1>6. /\ IsFiniteSet(OnDummy \ {c}) /\ Cardinality(OnDummy \ {c}) = o - 1
      /\ Cardinality(OnDummy \ {c}) \in Nat
  BY <1>1, <1>2, CountSwap
<1>7. h + a + b + o + e + f <= 1
  BY <1>2, DummyLoadsIs DEF LoadsInv, DummyLoadsOne
<1>8. o \in Nat
  BY <1>1, <1>2, CountPart
<1>9. a = 0 /\ b = 0 /\ o - 1 = 0
  BY <1>3, <1>4, <1>5, <1>6, <1>7, <1>8
<1>10. OnDummy \ {c} = {}
  BY <1>6, <1>9, CountZero
<1>11. QED  BY <1>1, <1>2, <1>9, <1>10

\* A load is asked for once: the dummy is given no other before it is answered.
LEMMA LoadsOnceNext ==
  ASSUME TasksInv, TypeOK', TargetsInv, [Next]_vars
  PROVE  LoadsOnce'
<1>1. /\ TypeOK /\ OnePlace /\ Fresh /\ IsFiniteSet(jobs) /\ LoadsInv /\ LoadIds
      /\ EveryTaskHasItsDatum /\ TasksType
  BY DEF TasksInv, SchedulerInv, LoadsInv, TypeOK
<1>2. ClaimsHold /\ BlocksHold /\ LoadsOnce
  BY DEF TargetsInv
<1>3. "LOAD_DUMMY" \in PCPKinds
  BY DEF PCPKinds
<1>4. CASE PLPAdmits
  <2>1. /\ dummy'.id = plp.dtb /\ beingDummied' = beingDummied \cup {plp.dtb} /\ dam' = dam
        /\ plp.dtb \in InHand /\ plp.dtb # 0
    BY <1>1, <1>4 DEF PLPAdmits, TypeOK, DummyType, ThreadsType, DTBs, InHand, outside
  <2>2. ASSUME NEW r \in dam', r.op = "load" PROVE r.id # dummy'.id
    <3>1. r.id \in Past \cup {0}
      BY <1>1, <2>1, <2>2 DEF Fresh, FreshDAM
    <3>2. plp.dtb \notin Past
      BY <1>1, <2>1 DEF OnePlace, Past
    <3>3. QED  BY <2>1, <3>1, <3>2
  <2>3. QED  BY <2>1, <2>2 DEF LoadsOnce
<1>5. CASE PCPFreesDummy
  <2>1. dummy'.id = 0 /\ dam' = dam
    BY <1>5 DEF PCPFreesDummy, outside
  <2>2. ASSUME NEW r \in dam', r.op = "load" PROVE r.id # 0
    <3>1. PICK t : t = <<r.id, "dam", r>>
      OBVIOUS
    <3>2. t \in DAMClaims /\ t[1] = r.id /\ t[2] = "dam" /\ t[3] = r
      BY <2>1, <3>1 DEF DAMClaims
    <3>3. t[1] \in Where(t) /\ Where(t) = beingDummied
      BY <1>2, <2>2, <3>2, ClaimsIn DEF ClaimsHold, Where
    <3>4. QED  BY <1>1, <3>2, <3>3 DEF TypeOK, ListsType, DTBs
  <2>3. QED  BY <2>1, <2>2 DEF LoadsOnce
<1>6. CASE ~PLPAdmits /\ ~PCPFreesDummy
  <2>1. dummy'.id = dummy.id
    <3>1. CASE PCPLoadsDummy
      BY <1>1, <3>1 DEF PCPLoadsDummy, TypeOK, DummyType
    <3>2. CASE \E c \in IdleCPUs : PCPDispatchesDummy(c)
      BY <1>1, <3>2 DEF PCPDispatchesDummy, TypeOK, DummyType
    <3>3. QED  BY <1>1, <1>6, <3>1, <3>2, LoadStays
  <2>2. dummy'.id # 0 => dummy'.id \in beingDummied'
    BY <1>1, <1>2, <1>6, <2>1, LoadedStays
  <2>3. ASSUME NEW r \in dam', r.op = "load", r.id = dummy'.id
        PROVE  Pending(PCPtasks, "LOAD_DUMMY")' = 0 /\ dummyIn'["READY"] = 0 /\ OnDummy' = {}
    <3>1. CASE r \in dam
      <4>1. Pending(PCPtasks, "LOAD_DUMMY") = 0 /\ dummyIn["READY"] = 0 /\ OnDummy = {}
        BY <1>2, <2>1, <2>3, <3>1 DEF LoadsOnce
      <4>2. ~PCPLoadsDummy
        <5>1. PCPLoadsDummy => PCPTakes("LOAD_DUMMY") /\ PCPReplans
          BY DEF PCPLoadsDummy
        <5>2. PCPLoadsDummy => /\ Pending(PCPtasks, "LOAD_DUMMY") \in Nat
                               /\ Pending(PCPtasks, "LOAD_DUMMY")' \in Nat
                               /\ Pending(PCPtasks, "LOAD_DUMMY")' = Pending(PCPtasks, "LOAD_DUMMY") - 1
          BY <1>1, <1>3, <5>1, TakesOne
        <5>3. QED  BY <4>1, <5>2
      <4>3. \A c \in IdleCPUs : ~PCPDispatchesDummy(c)
        BY <4>1 DEF PCPDispatchesDummy
      <4>4. /\ \A c \in OnDummy' : c \in OnDummy
            /\ Pending(PCPtasks, "LOAD_DUMMY")' = Pending(PCPtasks, "LOAD_DUMMY")
        BY <1>1, <1>6, <4>2, <4>3, LoadStays
      <4>5. dummyIn'["READY"] \in Nat /\ dummyIn'["READY"] <= dummyIn["READY"]
        BY <1>1, <4>2, ReadyNext
      <4>6. QED  BY <4>1, <4>4, <4>5
    <3>2. CASE r \notin dam
      <4>1. PICK c \in CPUs : CPURunsDummy(c)
        BY <2>3, <3>2, LoadsAsked
      <4>2. Pending(PCPtasks, "LOAD_DUMMY") = 0 /\ dummyIn["READY"] = 0 /\ OnDummy = {c}
        BY <1>1, <4>1, LoadAlone
      <4>3. /\ UNCHANGED <<PCPtasks, dummyIn>> /\ running' = [running EXCEPT ![c] = NotRunning]
        BY <4>1 DEF CPURunsDummy, CPUSends, tasks, dummies
      <4>4. Pending(PCPtasks, "LOAD_DUMMY")' = Pending(PCPtasks, "LOAD_DUMMY")
        BY <4>3 DEF Pending
      <4>5. OnDummy' = {}
        BY <1>1, <4>2, <4>3 DEF OnDummy, NotRunning, TypeOK, OutsideType
      <4>6. QED  BY <4>2, <4>3, <4>4, <4>5
    <3>3. QED  BY <3>1, <3>2
  <2>4. QED  BY <2>2, <2>3 DEF LoadsOnce
<1>7. QED  BY <1>4, <1>5, <1>6

\* Nothing is under way at first.
LEMMA TargetsInit == ASSUME MaxFinalizar = 0 PROVE Init => TargetsInv
<1> SUFFICES ASSUME Init PROVE TargetsInv
  OBVIOUS
<1>1. /\ jobs = {} /\ dam = {} /\ toBeBlocked = <<>> /\ toBeUnlocked = <<>> /\ toBeEnded = <<>>
      /\ dummiedQueue = <<>> /\ \A c \in CPUs : running[c].kind # "dtb"
      /\ pcp.at = "wait" /\ finalizars = 0 /\ failure = "none" /\ dummy.id = 0
  BY DEF Init, NotRunning, Waiting
<1>2. \A t : t \notin Claims
  BY <1>1 DEF Claims, CPUClaims, DAMClaims, JobClaims, UnlockClaims, EndClaims, LoadedClaims, Queued
<1>3. \A t : t \notin Blocks
  BY <1>1 DEF Blocks, BlockJobs, BlockData, Queued
<1>4. Once(toBeBlocked) /\ Once(toBeUnlocked) /\ Once(toBeEnded)
  BY <1>1 DEF Once
<1>5. ClaimsHold
  BY <1>2, <1>4 DEF ClaimsHold, Exclusive
<1>6. BlocksHold
  BY <1>3, <1>4 DEF BlocksHold, Exclusive
<1>7. LoadsOnce /\ Quiet /\ Spare /\ TargetsAreFound
  BY <1>1 DEF LoadsOnce, Quiet, Spare, TargetsAreFound
<1>8. QED  BY <1>5, <1>6, <1>7 DEF TargetsInv

\* Every step keeps the invariant.
LEMMA TargetsNext ==
  ASSUME ~Overtaking, MaxFinalizar = 0, FaultyCPUs = {}, TasksInv, TasksInv', TargetsInv, [Next]_vars
  PROVE  TargetsInv'
<1>1. TypeOK /\ TypeOK' /\ Quiet /\ Spare /\ TargetsAreFound
  BY DEF TasksInv, SchedulerInv, TargetsInv
<1>2. ClaimsHold' /\ BlocksHold' /\ failure' = failure
  BY ClaimsNext
<1>3. LoadsOnce'
  BY <1>1, LoadsOnceNext
<1>4. Quiet' /\ Spare'
  BY <1>1, QuietNext
<1>5. TargetsAreFound'
  BY <1>1, <1>2 DEF TargetsAreFound
<1>6. QED  BY <1>2, <1>3, <1>4, <1>5 DEF TargetsInv

\* Without a "finalizar", with no CPU that disconnects, and if SAFA handles the CPU's
\* message before the DAM's answer to it, every task of the planners finds the DTB it
\* is about in the list where the code looks for it, and a CPU to give it to: no
\* planner dereferences NULL and none ends the process.
THEOREM TargetsInvariant ==
  ASSUME ~Overtaking, MaxFinalizar = 0, FaultyCPUs = {}
  PROVE  Spec => []TargetsAreFound
<1>1. TasksInv /\ TargetsInv /\ [Next]_vars => TasksInv' /\ TargetsInv'
  BY TasksNext, TargetsNext
<1>2. TargetsInv => TargetsAreFound
  BY DEF TargetsInv
<1>3. QED  BY TasksInit, TargetsInit, <1>1, <1>2, PTL DEF Spec
=============================================================================
