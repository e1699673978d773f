------------------------------ MODULE MCRouter ------------------------------
(* The instances of Router that TLC checks. *)
EXTENDS Router
=============================================================================
