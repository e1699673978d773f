---------------------------- MODULE MCSemtechUDP ----------------------------
(* The instances of SemtechUDP that TLC checks: a downlink of a router with
   two items, one of a mapper with one, and an empty one. *)
EXTENDS SemtechUDP, TLC

CONSTANTS d1, d2, d3, t1, t2, g1, m1

OneGateway == [d \in Downlink |-> g1]
SameToken == [d \in Downlink |-> t1]
OwnToken == [d \in Downlink |-> IF d = d1 THEN t1 ELSE t2]
TwoAndOne == (d1 :> 2) @@ (d2 :> 1)
TwoOneNone == TwoAndOne @@ (d3 :> 0)
SecondOfMapper == [d \in Downlink |-> IF d = d2 THEN m1 ELSE Exchange]

=============================================================================
