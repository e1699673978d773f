---------------------------- MODULE MCExchange ----------------------------
EXTENDS Exchange, TLC

CONSTANTS g1, g2, n1

\* The network id of one gateway is the local id of the other.
MCNetOf == (g1 :> n1) @@ (g2 :> g1)

\* Mappers and regions are interchangeable, gateways are not.
Symmetry == Permutations(Mapper) \cup Permutations(Region)

=============================================================================
