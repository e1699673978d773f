---------------------------- MODULE RouterClient ----------------------------
(***************************************************************************)
(* The message exchange of the forwarder's router clients (run of          *)
(* forwarder/router_client.go) with the packet exchange: every client sees *)
(* the events of all gateways, decides what its router gets, remembers     *)
(* which downlinks its router asked for, and when the router last got a    *)
(* sign of life of each gateway.                                           *)
(*                                                                         *)
(* Events of gateways arrive over a lossy broadcast (see Broadcaster), so  *)
(* a client may take any of them or miss it.  An uplink or join its router *)
(* is not interested in changes nothing and has no action.  Accounting is  *)
(* NoAccounting: it allows everything and ignores payments.                *)
(***************************************************************************)
EXTENDS Naturals, Sequences, FiniteSets

CONSTANTS
    Client,      \* router clients of the forwarder, each with its own router
    Gateway,     \* gateways in the forwarder's store
    DownlinkId,  \* ids that network servers give to downlinks
    KeepAlive,   \* minutes until an online event is sent again (4 in the code)
    QueueCap,    \* capacity of networkEvents (1024 in the code)
    MaxAsked,    \* bound: downlinks with one id a router sends per connection
    Never,       \* no event of the gateway was sent to the router
    None         \* the client is not blocked

ASSUME ClientBounds ==
    /\ KeepAlive \in Nat
    /\ QueueCap \in Nat \ {0}
    /\ MaxAsked \in Nat
    /\ Never \notin Nat

VARIABLES
    link,           \* each client's stream: down, up, or broken and not noticed
    lastEvent,      \* lastGatewayEvent of each client, in minutes ago
    pendingAcks,    \* pendingDownlinkAcks of each client
    blocked,        \* the downlink a client waits to put on networkEvents
    networkEvents,  \* downlinks on their way to the packet exchange
    transmitted,    \* downlinks that gateways got and may confirm
    wanted,         \* downlinks asked for on this connection
    asked,          \* how many of them, by id
    acked           \* confirmations given on this connection, by id

vars == <<link, lastEvent, pendingAcks, blocked, networkEvents, transmitted,
          wanted, asked, acked>>

-----------------------------------------------------------------------------
Downlink == [id : DownlinkId, gw : Gateway]

\* The ticker that expires pending acks has the period of their deadline: an
\* entry survives the first tick after it was made and not the second.
AckAge == {"none", "fresh", "old"}

TypeOK ==
    /\ link \in [Client -> {"down", "up", "broken"}]
    /\ lastEvent \in [Client -> [Gateway -> 0 .. KeepAlive + 1 \cup {Never}]]
    /\ pendingAcks \in [Client -> [DownlinkId -> AckAge]]
    /\ \A c \in Client : blocked[c] \in Downlink \cup {None}
    /\ networkEvents \in Seq(Downlink)
    /\ Len(networkEvents) <= QueueCap
    /\ transmitted \in SUBSET Downlink
    /\ wanted \in [Client -> SUBSET Downlink]
    /\ asked \in [Client -> [DownlinkId -> 0 .. MaxAsked]]
    /\ acked \in [Client -> [DownlinkId -> 0 .. MaxAsked]]

Init ==
    /\ link = [c \in Client |-> "down"]
    /\ lastEvent = [c \in Client |-> [g \in Gateway |-> Never]]
    /\ pendingAcks = [c \in Client |-> [d \in DownlinkId |-> "none"]]
    /\ blocked = [c \in Client |-> None]
    /\ networkEvents = <<>>
    /\ transmitted = {}
    /\ wanted = [c \in Client |-> {}]
    /\ asked = [c \in Client |-> [d \in DownlinkId |-> 0]]
    /\ acked = [c \in Client |-> [d \in DownlinkId |-> 0]]

\* The client waits in the select of run.
InSelect(c) == link[c] # "down" /\ blocked[c] = None

\* eventStream.Send returns an error, which can only happen on a broken stream
\* (until that is noticed it may as well succeed, and the event is lost); run
\* returns the error.
SendFails(c) ==
    /\ link[c] = "broken"
    /\ link' = [link EXCEPT ![c] = "down"]

-----------------------------------------------------------------------------
(* The connection                                                          *)

\* Mutant: pending acks of the previous connection are kept.
ConnectKeepsAcks(c) ==
    /\ link[c] = "down"
    /\ link' = [link EXCEPT ![c] = "up"]
    /\ wanted' = [wanted EXCEPT ![c] = {}]
    /\ asked' = [asked EXCEPT ![c] = [d \in DownlinkId |-> 0]]
    /\ acked' = [acked EXCEPT ![c] = [d \in DownlinkId |-> 0]]
    /\ UNCHANGED <<lastEvent, pendingAcks, blocked, networkEvents,
                   transmitted>>

\* run starts: pendingDownlinkAcks is a new map, lastGatewayEvent is not.
Connect(c) ==
    /\ link[c] = "down"
    /\ link' = [link EXCEPT ![c] = "up"]
    /\ pendingAcks' = [pendingAcks EXCEPT ![c] = [d \in DownlinkId |-> "none"]]
    /\ wanted' = [wanted EXCEPT ![c] = {}]
    /\ asked' = [asked EXCEPT ![c] = [d \in DownlinkId |-> 0]]
    /\ acked' = [acked EXCEPT ![c] = [d \in DownlinkId |-> 0]]
    /\ UNCHANGED <<lastEvent, blocked, networkEvents, transmitted>>

Break(c) ==
    /\ link[c] = "up"
    /\ link' = [link EXCEPT ![c] = "broken"]
    /\ UNCHANGED <<lastEvent, pendingAcks, wanted, asked, acked, blocked,
                   networkEvents, transmitted>>

\* routerEventsChan closed its channel: run returns an error.
ConnectionLost(c) ==
    /\ InSelect(c)
    /\ link[c] = "broken"
    /\ link' = [link EXCEPT ![c] = "down"]
    /\ UNCHANGED <<lastEvent, pendingAcks, wanted, asked, acked, blocked,
                   networkEvents, transmitted>>

-----------------------------------------------------------------------------
(* Events of gateways                                                      *)

\* An uplink or join request the router is interested in.
HandleUplink(c, g) ==
    /\ InSelect(c)
    /\ \/ /\ lastEvent' = [lastEvent EXCEPT ![c][g] = 0]
          /\ UNCHANGED link
       \/ SendFails(c) /\ UNCHANGED lastEvent
    /\ UNCHANGED <<pendingAcks, wanted, asked, acked, blocked, networkEvents,
                   transmitted>>

\* Mutant: the keep-alive is sent a minute late.
OnlineDueLate(c, g) == lastEvent[c][g] \notin 0 .. KeepAlive + 1

\* An online event must be sent to the router.
OnlineDue(c, g) == lastEvent[c][g] \notin 0 .. KeepAlive

\* The gateway reports that it is online; if that is not due, nothing happens.
HandleOnline(c, g) ==
    /\ InSelect(c)
    /\ \/ /\ lastEvent' = [lastEvent EXCEPT ![c][g] = IF OnlineDue(c, g) THEN 0 ELSE @]
          /\ UNCHANGED link
       \/ OnlineDue(c, g) /\ SendFails(c) /\ UNCHANGED lastEvent
    /\ UNCHANGED <<pendingAcks, wanted, asked, acked, blocked, networkEvents,
                   transmitted>>

HandleOffline(c, g) ==
    /\ InSelect(c)
    /\ \/ /\ lastEvent' = [lastEvent EXCEPT ![c][g] = Never]
          /\ UNCHANGED link
       \/ SendFails(c) /\ UNCHANGED lastEvent
    /\ UNCHANGED <<pendingAcks, wanted, asked, acked, blocked, networkEvents,
                   transmitted>>

\* Gateway d.gw confirms downlink d.id, once or several times: the client whose
\* router asked for this id forwards the confirmation and forgets the id, even
\* if the send then fails.  Other clients ignore it.
HandleDownlinkAck(c, d) ==
    /\ InSelect(c)
    /\ d \in transmitted
    /\ pendingAcks[c][d.id] # "none"
    /\ pendingAcks' = [pendingAcks EXCEPT ![c][d.id] = "none"]
    /\ \/ /\ acked' = [acked EXCEPT ![c][d.id] = @ + 1]
          /\ UNCHANGED link
       \/ SendFails(c) /\ UNCHANGED acked
    /\ UNCHANGED <<lastEvent, wanted, asked, blocked, networkEvents,
                   transmitted>>

-----------------------------------------------------------------------------
(* Events of the router and the packet exchange                            *)

\* The router sends downlink d: remember its id, then pass it on.  (An airtime
\* payment is passed on, and waits, like a downlink; its only other effect is on
\* the accounting, which keeps nothing.)
ReceiveDownlink(c, d) ==
    /\ InSelect(c)
    /\ asked[c][d.id] < MaxAsked
    /\ wanted' = [wanted EXCEPT ![c] = @ \cup {d}]
    /\ asked' = [asked EXCEPT ![c][d.id] = @ + 1]
    /\ pendingAcks' = [pendingAcks EXCEPT ![c][d.id] = "fresh"]
    /\ blocked' = [blocked EXCEPT ![c] = d]
    /\ UNCHANGED <<link, lastEvent, networkEvents, transmitted, acked>>

\* Mutant: the send does not wait for room in the channel.
PassDownlinkNoWait(c) ==
    /\ blocked[c] # None
    /\ Len(networkEvents) <= QueueCap
    /\ networkEvents' = Append(networkEvents, blocked[c])
    /\ blocked' = [blocked EXCEPT ![c] = None]
    /\ UNCHANGED <<link, lastEvent, pendingAcks, wanted, asked, acked,
                   transmitted>>

\* rc.routerEvents <- event: waits while the channel is full.
PassDownlink(c) ==
    /\ blocked[c] # None
    /\ Len(networkEvents) < QueueCap
    /\ networkEvents' = Append(networkEvents, blocked[c])
    /\ blocked' = [blocked EXCEPT ![c] = None]
    /\ UNCHANGED <<link, lastEvent, pendingAcks, wanted, asked, acked,
                   transmitted>>

\* Mutant: the exchange reads the next event only when the channel is full.
ExchangeTakesWhenFull ==
    /\ Len(networkEvents) > QueueCap
    /\ networkEvents' = Tail(networkEvents)
    /\ UNCHANGED transmitted
    /\ UNCHANGED <<link, lastEvent, pendingAcks, wanted, asked, acked,
                   blocked>>

\* Exchange.Run: the downlink goes to the backend, or is dropped because the
\* gateway is not known or cannot be reached.
ExchangeTakes ==
    /\ networkEvents # <<>>
    /\ networkEvents' = Tail(networkEvents)
    /\ \/ transmitted' = transmitted \cup {Head(networkEvents)}
       \/ UNCHANGED transmitted
    /\ UNCHANGED <<link, lastEvent, pendingAcks, wanted, asked, acked,
                   blocked>>

-----------------------------------------------------------------------------
(* Time                                                                    *)

\* pendingDownlinkAcksTicker: delete the acks that passed their deadline.
ExpirePendingAcks(c) ==
    /\ InSelect(c)
    /\ pendingAcks' = [pendingAcks EXCEPT ![c] =
                         [d \in DownlinkId |-> IF @[d] = "fresh" THEN "old" ELSE "none"]]
    /\ UNCHANGED <<link, lastEvent, wanted, asked, acked, blocked,
                   networkEvents, transmitted>>

\* A minute passes; past the keep-alive interval the age does not matter.
Minute ==
    /\ lastEvent' = [c \in Client |-> [g \in Gateway |->
                       IF lastEvent[c][g] \in 0 .. KeepAlive
                       THEN lastEvent[c][g] + 1 ELSE lastEvent[c][g]]]
    /\ UNCHANGED <<link, pendingAcks, wanted, asked, acked, blocked,
                   networkEvents, transmitted>>

-----------------------------------------------------------------------------
ClientStep(c) ==
    \/ Connect(c)
    \/ Break(c)
    \/ ConnectionLost(c)
    \/ \E g \in Gateway : HandleUplink(c, g) \/ HandleOnline(c, g) \/ HandleOffline(c, g)
    \/ \E d \in Downlink : HandleDownlinkAck(c, d) \/ ReceiveDownlink(c, d)
    \/ PassDownlink(c)
    \/ ExpirePendingAcks(c)

Next ==
    \/ \E c \in Client : ClientStep(c)
    \/ ExchangeTakes
    \/ Minute

Spec == Init /\ [][Next]_vars

\* Goroutines run whenever they can; of several clients that wait for room in
\* networkEvents each gets its turn (senders queue up in order).
Fairness ==
    /\ WF_vars(ExchangeTakes)
    /\ \A c \in Client : SF_vars(PassDownlink(c))

FairSpec == Spec /\ Fairness

-----------------------------------------------------------------------------
(* Properties                                                              *)

\* On one connection a router never gets more confirmations of a downlink id
\* than it asked for, however often gateways repeat them and whatever was
\* pending before a reconnect.
AcksAnswerRequests ==
    \A c \in Client : \A d \in DownlinkId : acked[c][d] <= asked[c][d]

\* A client that got a downlink from its router is not blocked for ever: the
\* packet exchange makes room.
DownlinkPassedOn == \A c \in Client : blocked[c] # None ~> blocked[c] = None

=============================================================================
