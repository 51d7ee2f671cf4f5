--------------------------- MODULE MCProductSync ---------------------------
(* Instance of ProductSync for TLC.                                        *)
EXTENDS ProductSync, TLC

Symmetry == Permutations(Pics) \cup Permutations(Records)
=============================================================================
