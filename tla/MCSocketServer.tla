---------------------------- MODULE MCSocketServer -----------------------------
(***************************************************************************)
(* SocketServer for TLC: the threads and the connections are model values. *)
(***************************************************************************)
EXTENDS SocketServer, TLC

Symmetry == Permutations(Threads) \cup Permutations(Clients)
=============================================================================
