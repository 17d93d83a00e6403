---------------------------- MODULE MCResources ----------------------------
(* Instances of Resources for TLC: the lengths of the scripts of DTBs 1, 2... *)
EXTENDS Resources

Lengths21  == <<2, 1>>
Lengths211 == <<2, 1, 1>>
=============================================================================
