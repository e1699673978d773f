-------------------------- MODULE DownlinkContract --------------------------
(***************************************************************************)
(* What the packet exchange may expect of a gateway backend for the        *)
(* downlinks it sends (SemtechUDP implements it): the items of a downlink  *)
(* are transmission options in the order of preference.  The next one is   *)
(* tried when the gateway is known to have rejected those before; what is  *)
(* noted for an item is the gateway's answer for that item; and the        *)
(* exchange is told once, when an item was accepted or the last one was    *)
(* rejected.  Any step may fail to happen: packets get lost.               *)
(***************************************************************************)
EXTENDS Naturals

CONSTANTS
    Downlink,    \* downlinks of the exchange
    Items        \* number of items of each

VARIABLES
    sent,        \* how often each item was sent to the gateway
    said,        \* what the gateway made of each item
    status,      \* what was noted of each item
    reports      \* how often the exchange was told of a downlink

vars == <<sent, said, status, reports>>

-----------------------------------------------------------------------------
ItemsOf(d) == 0 .. Items[d] - 1

Init ==
    /\ sent = [d \in Downlink |-> [i \in ItemsOf(d) |-> 0]]
    /\ said = [d \in Downlink |-> [i \in ItemsOf(d) |-> "ignored"]]
    /\ status = [d \in Downlink |-> [i \in ItemsOf(d) |-> "ignored"]]
    /\ reports = [d \in Downlink |-> 0]

\* The first item that was not rejected is sent.
Transmit(d, i) ==
    /\ sent[d][i] = 0 /\ reports[d] = 0
    /\ \A j \in ItemsOf(d) : j < i => status[d][j] = "error"
    /\ sent' = [sent EXCEPT ![d][i] = 1]
    /\ UNCHANGED <<said, status, reports>>

\* The gateway answers for an item it got.
Answer(d, i) ==
    /\ sent[d][i] = 1 /\ said[d][i] = "ignored"
    /\ \E answer \in {"ok", "error"} : said' = [said EXCEPT ![d][i] = answer]
    /\ UNCHANGED <<sent, status, reports>>

\* The answer is noted; if no other item is to be tried, the exchange is told.
Note(d, i) ==
    /\ said[d][i] # "ignored" /\ status[d][i] = "ignored" /\ reports[d] = 0
    /\ status' = [status EXCEPT ![d][i] = said[d][i]]
    /\ reports' = IF said[d][i] = "error" /\ i < Items[d] - 1 THEN reports
                  ELSE [reports EXCEPT ![d] = 1]
    /\ UNCHANGED <<sent, said>>

Next ==
    \E d \in Downlink : \E i \in ItemsOf(d) :
        Transmit(d, i) \/ Answer(d, i) \/ Note(d, i)

Spec == Init /\ [][Next]_vars

=============================================================================
