--------------------------- MODULE MCRoutingTable ---------------------------
(* The instance of RoutingTable that TLC checks. *)
EXTENDS RoutingTable
=============================================================================
