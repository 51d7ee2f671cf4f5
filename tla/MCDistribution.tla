--------------------------- MODULE MCDistribution ---------------------------
(* TLC instances of Distribution: one SKU whose jobs were created in one    *)
(* batch by service/audit.go, so they share sku_id and created_at.          *)
EXTENDS Distribution, TLC

MCSKUs == {"sku"}
MCSkuOf == [j \in Jobs |-> "sku"]
MCCreatedAt == [j \in Jobs |-> 0]

Symmetry ==
  Permutations(Attempts) \cup Permutations(Handlers) \cup Permutations(Jobs)
=============================================================================
