--------------------------- MODULE MCBroadcaster ---------------------------
(* The instance of Broadcaster that TLC checks. *)
EXTENDS Broadcaster
=============================================================================
