--------------------------- MODULE MC_ImportQueue ---------------------------
(* Instances of ImportQueue for TLC.                                       *)
EXTENDS ImportQueue, TLC

(* Workers are interchangeable, and so are requests: sound for the safety  *)
(* properties only, so the configurations that check liveness do not use it. *)
Symmetric == Permutations(Workers) \union Permutations(Clients)
=============================================================================
