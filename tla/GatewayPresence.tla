--------------------------- MODULE GatewayPresence ---------------------------
(***************************************************************************)
(* The forwarder's router clients (RouterClient, which this module         *)
(* extends) and the router they connect to (Router), joined by their       *)
(* streams: does the router's table say what the forwarder knows of its    *)
(* gateways?                                                               *)
(*                                                                         *)
(* Every connection of the client is a session of the router.  The two     *)
(* ends of a broken connection notice it each in its own time, so an old   *)
(* session may still be handled while the next one is in use.  Downlinks   *)
(* matter here only for what they do to the router; the client's handling  *)
(* of them is the subject of RouterClient's own runs.                      *)
(***************************************************************************)
EXTENDS RouterClient

CONSTANTS
    Session, NoSession, EventCap, ChanCap, Timeout, MaxDownlinks,
    WireCap      \* bound: events on the wire from the client to the router

VARIABLES
    session, job, stream, events, channel, owner, age, subs, dl, issued,
    cleanupDue, panicked,
    conn,        \* the session of each client's last connection
    wire,        \* events sent by each client and not received by the router
    quiet        \* minutes since the client last heard of the gateway on this
                 \* connection, Silent when it has not or was told it is offline

R == INSTANCE Router

routerVars == <<session, job, stream, events, channel, owner, age, subs, dl,
                issued, cleanupDue, panicked>>
clientVars == vars
presenceVars == <<routerVars, clientVars, conn, wire, quiet>>

-----------------------------------------------------------------------------
\* What Router assumes, and what the composition adds: an interval of the
\* keep-alive that is not longer than the router's time-out.
ASSUME PresenceAssumption ==
    /\ NoSession \notin Session
    /\ {EventCap, ChanCap, WireCap} \subseteq Nat \ {0}
    /\ {Timeout, MaxDownlinks} \subseteq Nat
    /\ KeepAlive <= Timeout

\* The minutes a gateway can be silent without risking a time-out.
Slack == Timeout - KeepAlive

\* More silence than that is not told apart.
Silent == Slack + 1

PresenceInit ==
    /\ R!Init
    /\ Init
    /\ conn = [c \in Client |-> NoSession]
    /\ wire = [c \in Client |-> <<>>]
    /\ quiet = [c \in Client |-> [g \in Gateway |-> Silent]]

-----------------------------------------------------------------------------
(* The connection                                                          *)

OpenSession(c, s) ==
    /\ Connect(c)
    /\ R!Connect(s)
    /\ ~panicked
    /\ conn' = [conn EXCEPT ![c] = s]
    /\ wire' = [wire EXCEPT ![c] = <<>>]
    /\ quiet' = [quiet EXCEPT ![c] = [g \in Gateway |-> Silent]]

\* What is on the wire is lost.  The streams of a router that panicked are gone
\* with it.
BreakStream(c) ==
    /\ Break(c)
    /\ IF panicked THEN UNCHANGED routerVars ELSE R!StreamBreak(conn[c])
    /\ wire' = [wire EXCEPT ![c] = <<>>]
    /\ UNCHANGED <<conn, quiet>>

NoticeBreak(c) ==
    /\ ConnectionLost(c)
    /\ UNCHANGED <<routerVars, conn, wire, quiet>>

-----------------------------------------------------------------------------
(* The client handles an event of a gateway                                *)

\* What the client sent, if it sent something, reaches the wire of a stream
\* that is not broken.
Transmit(c, kind, g) ==
    IF link[c] = "up"
    THEN /\ Len(wire[c]) < WireCap
         /\ wire' = [wire EXCEPT ![c] = Append(@, [kind |-> kind, gw |-> g])]
    ELSE UNCHANGED wire

Hear(c, g, minutes) == quiet' = [quiet EXCEPT ![c][g] = minutes]

Uplink(c, g) ==
    /\ HandleUplink(c, g)
    /\ Transmit(c, "alive", g)
    /\ Hear(c, g, 0)
    /\ UNCHANGED <<routerVars, conn>>

Online(c, g) ==
    /\ HandleOnline(c, g)
    /\ IF OnlineDue(c, g) THEN Transmit(c, "alive", g) ELSE UNCHANGED wire
    /\ Hear(c, g, 0)
    /\ UNCHANGED <<routerVars, conn>>

Offline(c, g) ==
    /\ HandleOffline(c, g)
    /\ Transmit(c, "offline", g)
    /\ Hear(c, g, Silent)
    /\ UNCHANGED <<routerVars, conn>>

-----------------------------------------------------------------------------
(* The router                                                              *)

\* forwarderEventStream receives the next event.
Receive(c) ==
    /\ ~panicked
    /\ wire[c] # <<>>
    /\ R!StreamRecv(conn[c], Head(wire[c]))
    /\ wire' = [wire EXCEPT ![c] = Tail(@)]
    /\ UNCHANGED <<clientVars, conn, quiet>>

SessionStep(s) ==
    \/ R!StreamCanceled(s)
    \/ R!TakeEvent(s)
    \/ R!TakeClosed(s)
    \/ R!ApplyJob(s)
    \/ R!SendToForwarder(s)
    \/ R!SendFails(s)

\* A step of the router alone.
Alone(step) == ~panicked /\ step /\ UNCHANGED <<clientVars, conn, wire, quiet>>

RouterStep ==
    \/ \E s \in Session : Alone(SessionStep(s))
    \/ \E g \in Gateway : Alone(R!DownlinkFrame(g))
    \/ Alone(R!ForwarderSend)
    \/ Alone(R!cleanupTimeOutGateways)

\* Everything a connected client sent has been applied to the table.
Delivered(c) ==
    link[c] = "up" => /\ wire[c] = <<>>
                      /\ events[conn[c]] = <<>>
                      /\ session[conn[c]] # "lock"

\* A minute passes; events of a working connection take less than that.
MinutePasses ==
    /\ \A c \in Client : Delivered(c)
    /\ R!Tick
    /\ Minute
    /\ ~panicked
    /\ quiet' = [c \in Client |-> [g \in Gateway |->
                   IF quiet[c][g] < Silent THEN quiet[c][g] + 1 ELSE Silent]]
    /\ UNCHANGED <<conn, wire>>

-----------------------------------------------------------------------------
PresenceNext ==
    \/ \E c \in Client :
         \/ \E s \in Session : OpenSession(c, s)
         \/ BreakStream(c)
         \/ NoticeBreak(c)
         \/ \E g \in Gateway : Uplink(c, g) \/ Online(c, g) \/ Offline(c, g)
         \/ Receive(c)
    \/ RouterStep
    \/ MinutePasses

PresenceSpec == PresenceInit /\ [][PresenceNext]_presenceVars

\* Goroutines of the router run whenever they can, a working connection delivers
\* and the clocks run.  Nothing is assumed of gateways, of the network server
\* and of how long a connection lasts.  MinutePasses waits for what is in flight
\* now and then, so its fairness is strong.
PresenceFairness ==
    /\ \A s \in Session : WF_presenceVars(Alone(SessionStep(s)))
    /\ WF_presenceVars(Alone(R!ForwarderSend))
    /\ WF_presenceVars(Alone(R!cleanupTimeOutGateways))
    /\ \A c \in Client : WF_presenceVars(Receive(c))
    /\ SF_presenceVars(MinutePasses)

FairPresenceSpec == PresenceSpec /\ PresenceFairness

-----------------------------------------------------------------------------
(* Properties                                                              *)

\* The client heard of the gateway recently enough, on a working connection.
Heard(c, g) == link[c] = "up" /\ quiet[c][g] <= Slack

\* The comment of lastGatewayEvent says that it "is used to send additional
\* online events to prevent a timeout": the router does not time out a gateway
\* of the current session while its client hears of it often enough, although
\* the client passes on only one in many of the signs of life it gets (after a
\* longer silence the event that ends it may of course come too late).
HeardGatewayKept ==
    [][R!cleanupTimeOutGateways =>
         \A c \in Client : \A g \in Gateway :
            Heard(c, g) /\ Delivered(c) /\ owner[g] = conn[c] =>
                owner'[g] = owner[g]]_presenceVars

\* A gateway that its client keeps hearing of on a lasting connection gets into
\* the router's table and stays there, whatever earlier sessions of the client
\* left behind (unless the router process panics).
HeardGatewayListed ==
    \A c \in Client : \A g \in Gateway :
        <>[](Heard(c, g)) => <>[](panicked \/ owner[g] = conn[c])

=============================================================================
