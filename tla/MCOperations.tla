------------------------------ MODULE MCOperations ------------------------------
(* Instances of Operations for TLC: DTBs and CPUs are model values. *)
EXTENDS Operations, TLC

\* DTBs and CPUs are interchangeable: sound for the invariants.
Symmetry == Permutations(DTBs) \cup Permutations(CPUs)
=============================================================================
