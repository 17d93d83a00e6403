----------------------------- MODULE MCReadyQueues -----------------------------
(* Instances of ReadyQueues for TLC: files of settings. *)
EXTENDS ReadyQueues

Of(a, q) == [algorithm |-> a, quantum |-> q]
Patient == {Of("RR", 2), Of("VRR", 1), Of("PROPIO", 2)}
AnyPolicy == {Of(a, 2) : a \in Algorithms}
RoundRobins == {Of("RR", 2), Of("VRR", 2)}
================================================================================
