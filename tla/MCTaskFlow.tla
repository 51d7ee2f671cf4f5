----------------------------- MODULE MCTaskFlow -----------------------------
(* TLC instances of TaskFlow; the .cfg files choose the sets. *)
EXTENDS TaskFlow, TLC

Symmetry == Permutations(Requests)
=============================================================================
