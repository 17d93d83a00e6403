---------------------------- MODULE DTBLifecycle ----------------------------
(***************************************************************************)
(* What SAFA promises of its DTBs, without queues, planners or CPUs: the   *)
(* diagram of five states (plus DUMMYING) of SAFA/headerFiles/Scheduling.h.*)
(* DTBs are created and admitted in the order of their ids, every one is   *)
(* in one state, and none leaves EXIT.                                     *)
(***************************************************************************)
EXTENDS Integers

CONSTANT MaxDTB  \* BOUND: number of DTBs ever created

VARIABLE status  \* the state of every DTB, by id

Ids == 1..MaxDTB
InSystem == {"DUMMYING", "READY", "EXEC", "BLOCKED"}

In(s) == {d \in Ids : status[d] = s}

\* The DTBs of D change to state s, the others stay as they are.
Become(D, s) == status' = [d \in Ids |-> IF d \in D THEN s ELSE status[d]]

Init == status = [d \in Ids |-> "unborn"]

\* A batch of DTBs with consecutive ids is created.
Create ==
    \E last \in In("unborn") :
        Become({d \in In("unborn") : d <= last}, "NEW")

\* NEW is a FIFO: the oldest DTB is chosen for loading.
Admit ==
    \E d \in In("NEW") :
        /\ \A e \in In("NEW") : d <= e
        /\ Become({d}, "DUMMYING")

Load     == \E D \in SUBSET In("DUMMYING") : Become(D, "READY")
Dispatch == \E d \in In("READY") : Become({d}, "EXEC")
Block    == \E d \in In("EXEC") : Become({d}, "BLOCKED")
Unlock   == \E d \in In("EXEC") \cup In("BLOCKED") : Become({d}, "READY")
End      == \E d \in Ids : status[d] \in InSystem /\ Become({d}, "EXIT")

Next == Create \/ Admit \/ Load \/ Dispatch \/ Block \/ Unlock \/ End

Spec == Init /\ [][Next]_status

=============================================================================
