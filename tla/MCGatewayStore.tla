--------------------------- MODULE MCGatewayStore ---------------------------
(* The instance of GatewayStore that TLC checks. *)
EXTENDS GatewayStore
=============================================================================
