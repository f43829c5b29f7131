--------------------------- MODULE MCCacheManager ---------------------------
(* Two workers, a pruner and an operator on one key.                       *)
EXTENDS CacheManager, TLC

CONSTANTS w1, w2

Symmetry == Permutations({w1, w2})
=============================================================================
