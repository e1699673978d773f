--------------------------- MODULE LossyBroadcast ---------------------------
(***************************************************************************)
(* What the broadcaster of the forwarder promises its users: messages are  *)
(* numbered in the order in which they are offered; a member may miss any  *)
(* of them, but it never gets one twice, never gets one out of order, and  *)
(* never gets one after it has left.                                       *)
(***************************************************************************)
EXTENDS Naturals

CONSTANTS Listener, MaxMsg

VARIABLES
    offered,   \* number of messages offered so far
    members,   \* listeners that have joined and not left
    last       \* the last message each listener got, 0 before the first

LBTypeOK ==
    /\ offered \in 0 .. MaxMsg
    /\ members \in SUBSET Listener
    /\ last \in [Listener -> 0 .. MaxMsg]

LBInit ==
    /\ offered = 0
    /\ members = {}
    /\ last = [l \in Listener |-> 0]

Offer ==
    /\ offered < MaxMsg
    /\ offered' = offered + 1
    /\ UNCHANGED <<members, last>>

Join(l) ==
    /\ members' = members \cup {l}
    /\ UNCHANGED <<offered, last>>

Leave(l) ==
    /\ members' = members \ {l}
    /\ UNCHANGED <<offered, last>>

Deliver(l, m) ==
    /\ l \in members
    /\ last[l] < m /\ m <= offered
    /\ last' = [last EXCEPT ![l] = m]
    /\ UNCHANGED <<offered, members>>

LBNext ==
    \/ Offer
    \/ \E l \in Listener :
         \/ Join(l)
         \/ Leave(l)
         \/ \E m \in 1 .. MaxMsg : Deliver(l, m)

LBSpec == LBInit /\ [][LBNext]_<<offered, members, last>>

=============================================================================
