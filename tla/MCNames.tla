------------------------------ MODULE MCNames ------------------------------
(* The names alone: are they those the units were launched with?            *)
EXTENDS GatewayNames
=============================================================================
