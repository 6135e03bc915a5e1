------------------------------ MODULE MCClient -------------------------------
(* Client for TLC; its bounds are in Client.cfg. *)
EXTENDS Client, TLC

Symmetry == Permutations(Graphs)
==============================================================================
