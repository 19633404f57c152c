--------------------------- MODULE MCGatewaySlip ---------------------------
(* The slots alone, without a rate: is every one of them given back?        *)
EXTENDS GatewaySlots, TLC

GatewaySymmetry == Permutations(Requests)
=============================================================================
