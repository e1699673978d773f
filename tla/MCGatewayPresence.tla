-------------------------- MODULE MCGatewayPresence --------------------------
(* The instance of GatewayPresence that TLC checks. *)
EXTENDS GatewayPresence
=============================================================================
