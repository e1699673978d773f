--------------------------- MODULE MCRouterClient ---------------------------
(* The instance of RouterClient that TLC checks. *)
EXTENDS RouterClient
=============================================================================
