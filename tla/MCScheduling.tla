---------------------------- MODULE MCScheduling ----------------------------
(* Instances of Scheduling for TLC: two CPUs by name. *)
EXTENDS Scheduling

CONSTANTS c1, c2
=============================================================================
