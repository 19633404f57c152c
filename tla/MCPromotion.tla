----------------------------- MODULE MCPromotion -----------------------------
(* Promotions of one endpoint, one after the other or overlapping.          *)
EXTENDS Promotion, TLC

Symmetric == Permutations(Instances) \union Permutations(Promotions)
=============================================================================
