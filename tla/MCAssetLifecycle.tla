-------------------------- MODULE MCAssetLifecycle --------------------------
(* AssetLifecycle for TLC: the tasks are interchangeable, and so are uploads. *)
EXTENDS AssetLifecycle, TLC

Symmetry == Permutations(Tasks) \cup Permutations(Uploads)

=============================================================================
