---------------------------- MODULE MC_InfoCache ----------------------------
(* Model-checking instance of InfoCache: threads and replies are model     *)
(* values given in the .cfg files.                                         *)
EXTENDS InfoCache, TLC

\* Threads and replies are interchangeable: only their identity matters.
Symmetry == Permutations(Threads) \cup Permutations(Resp)
=============================================================================
