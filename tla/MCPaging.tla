------------------------------- MODULE MCPaging -------------------------------
(***************************************************************************)
(* Paging for TLC: the DTBs and the workers are model values.              *)
(***************************************************************************)
EXTENDS Paging, TLC

Symmetry == Permutations(DTBs) \cup Permutations(Workers)
=============================================================================
