----------------------------- MODULE MCEventLog -----------------------------
(* TLC instances of EventLog. *)
EXTENDS EventLog, TLC

Symmetry == Permutations(SKUs) \cup Permutations(Writers)
=============================================================================
