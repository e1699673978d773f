--------------------------- MODULE MCJoinFilter ---------------------------
EXTENDS JoinFilter

\* A tenant with two applications, the first of which has two devices.
MCParent == <<0, 1, 1, 2, 2>>

=============================================================================
