------------------------ MODULE GatewayPresenceProofs ------------------------
(***************************************************************************)
(* Proofs about the router clients, alone and connected to a router, for   *)
(* any number of sessions, clients, gateways and downlink ids, any queue   *)
(* sizes, and any keep-alive interval and time-out with KeepAlive <=       *)
(* Timeout.  A router gets no more confirmations of a downlink id than it  *)
(* asked for.  The composition behaves as the router of Router and as the  *)
(* clients of RouterClient, and the router does not time out a gateway     *)
(* that the client of its session keeps hearing of.                        *)
(***************************************************************************)
EXTENDS GatewayPresence, TLAPS

\* The proofs about the router, for the variables of the composition.
RP == INSTANCE RouterProofs

-----------------------------------------------------------------------------
(* The clients                                                             *)

\* A pending ack is a request that has not been answered: that is why another
\* confirmation may be forwarded, and why AcksAnswerRequests is not inductive
\* without it.
PendingIsOwed ==
    \A c \in Client : \A d \in DownlinkId :
        /\ acked[c][d] <= asked[c][d]
        /\ pendingAcks[c][d] # "none" => acked[c][d] + 1 <= asked[c][d]

ClientInv == TypeOK /\ PendingIsOwed

-----------------------------------------------------------------------------
\* The links of a client take only values of their type: run starts, the
\* stream breaks, or Send fails.
LEMMA SendFailsType ==
    ASSUME TypeOK, NEW c \in Client, SendFails(c) \/ UNCHANGED link
    PROVE  link' \in [Client -> {"down", "up", "broken"}]
  BY DEF TypeOK, SendFails

\* The invariant holds when no client is connected and nothing was asked.
LEMMA ClientInit == Init => ClientInv
  BY ClientBounds DEF Init, ClientInv, TypeOK, PendingIsOwed, AckAge

\* A step that leaves the acks alone, and the other variables in their types.
LEMMA AcksUntouched ==
    ASSUME ClientInv, TypeOK', UNCHANGED <<pendingAcks, asked, acked>>
    PROVE  ClientInv'
  BY DEF ClientInv, PendingIsOwed

\* Every step of a client, of the exchange and of the clock keeps it.
LEMMA ClientNext == ClientInv /\ [Next]_vars => ClientInv'
<1> SUFFICES ASSUME ClientInv, [Next]_vars PROVE ClientInv'
  OBVIOUS
<1>0. TypeOK /\ PendingIsOwed
  BY DEF ClientInv
<1> USE ClientBounds
<1>1. ASSUME NEW c \in Client, Connect(c) PROVE ClientInv'
  <2>1. TypeOK'
    BY <1>0, <1>1 DEF Connect, TypeOK, AckAge
  <2>2. PendingIsOwed'
    BY <1>0, <1>1 DEF Connect, TypeOK, PendingIsOwed
  <2>3. QED
    BY <2>1, <2>2 DEF ClientInv
<1>2. ASSUME NEW c \in Client, Break(c) \/ ConnectionLost(c) PROVE ClientInv'
  <2>1. TypeOK' /\ UNCHANGED <<pendingAcks, asked, acked>>
    BY <1>0, <1>2 DEF Break, ConnectionLost, TypeOK
  <2>2. QED
    BY <2>1, AcksUntouched
<1>3. ASSUME NEW c \in Client, NEW g \in Gateway,
             HandleUplink(c, g) \/ HandleOnline(c, g) \/ HandleOffline(c, g)
      PROVE  ClientInv'
  <2>1. link' \in [Client -> {"down", "up", "broken"}]
    BY <1>0, <1>3, SendFailsType DEF HandleUplink, HandleOnline, HandleOffline
  <2>2. lastEvent' \in [Client -> [Gateway -> 0 .. KeepAlive + 1 \cup {Never}]]
    <3>1. 0 \in 0 .. KeepAlive + 1 /\ lastEvent[c][g] \in 0 .. KeepAlive + 1 \cup {Never}
      BY <1>0 DEF TypeOK
    <3>2. \E v \in 0 .. KeepAlive + 1 \cup {Never} :
             lastEvent' = [lastEvent EXCEPT ![c] = [lastEvent[c] EXCEPT ![g] = v]]
             \/ lastEvent' = lastEvent
      <4>1. CASE HandleUplink(c, g)
        BY <3>1, <4>1 DEF HandleUplink
      <4>2. CASE HandleOnline(c, g)
        BY <3>1, <4>2 DEF HandleOnline
      <4>3. CASE HandleOffline(c, g)
        BY <3>1, <4>3 DEF HandleOffline
      <4>4. QED
        BY <1>3, <4>1, <4>2, <4>3
    <3>3. lastEvent \in [Client -> [Gateway -> 0 .. KeepAlive + 1 \cup {Never}]]
      BY <1>0 DEF TypeOK
    <3>4. QED
      BY <3>2, <3>3
  <2>3. UNCHANGED <<pendingAcks, wanted, asked, acked, blocked, networkEvents, transmitted>>
    BY <1>3 DEF HandleUplink, HandleOnline, HandleOffline
  <2>4. TypeOK'
    BY <1>0, <2>1, <2>2, <2>3 DEF TypeOK
  <2>5. QED
    BY <2>3, <2>4, AcksUntouched
<1>4. ASSUME NEW c \in Client, NEW d \in Downlink, HandleDownlinkAck(c, d) PROVE ClientInv'
  <2>1. d.id \in DownlinkId
    BY DEF Downlink
  <2>2. link' \in [Client -> {"down", "up", "broken"}]
    BY <1>0, <1>4, SendFailsType DEF HandleDownlinkAck
  <2>3. pendingAcks' \in [Client -> [DownlinkId -> AckAge]]
    BY <1>0, <1>4, <2>1 DEF HandleDownlinkAck, TypeOK, AckAge
  <2>4. acked' \in [Client -> [DownlinkId -> 0 .. MaxAsked]]
    <3>1. acked[c][d.id] + 1 \in 0 .. MaxAsked
      <4>1. acked[c][d.id] + 1 <= asked[c][d.id]
        BY <1>0, <1>4, <2>1 DEF HandleDownlinkAck, PendingIsOwed
      <4>2. acked[c][d.id] \in 0 .. MaxAsked /\ asked[c][d.id] \in 0 .. MaxAsked
        BY <1>0, <2>1 DEF TypeOK
      <4>3. QED
        BY <4>1, <4>2
    <3>2. \/ acked' = [acked EXCEPT ![c] = [acked[c] EXCEPT ![d.id] = acked[c][d.id] + 1]]
          \/ acked' = acked
      BY <1>4 DEF HandleDownlinkAck
    <3>3. acked \in [Client -> [DownlinkId -> 0 .. MaxAsked]]
      BY <1>0 DEF TypeOK
    <3>4. QED
      BY <2>1, <3>1, <3>2, <3>3
  <2>5. TypeOK'
    BY <1>0, <1>4, <2>2, <2>3, <2>4 DEF HandleDownlinkAck, TypeOK
  <2>6. PendingIsOwed'
    <3>1. /\ pendingAcks \in [Client -> [DownlinkId -> AckAge]]
          /\ acked \in [Client -> [DownlinkId -> 0 .. MaxAsked]]
      BY <1>0 DEF TypeOK
    <3>2. /\ pendingAcks' = [pendingAcks EXCEPT ![c] = [pendingAcks[c] EXCEPT ![d.id] = "none"]]
          /\ \/ acked' = [acked EXCEPT ![c] = [acked[c] EXCEPT ![d.id] = acked[c][d.id] + 1]]
             \/ acked' = acked
          /\ asked' = asked /\ pendingAcks[c][d.id] # "none"
      BY <1>4 DEF HandleDownlinkAck
    <3>3. pendingAcks'[c][d.id] = "none" /\ acked'[c][d.id] <= asked'[c][d.id]
      BY <1>0, <2>1, <3>1, <3>2 DEF PendingIsOwed
    <3>4. \A b \in Client : \A i \in DownlinkId :
            (b = c /\ i = d.id) \/ (acked'[b][i] = acked[b][i] /\ pendingAcks'[b][i] = pendingAcks[b][i])
      BY <2>1, <3>1, <3>2
    <3>5. QED
      BY <1>0, <3>2, <3>3, <3>4 DEF PendingIsOwed
  <2>7. QED
    BY <2>5, <2>6 DEF ClientInv
<1>5. ASSUME NEW c \in Client, NEW d \in Downlink, ReceiveDownlink(c, d) PROVE ClientInv'
  <2>1. d.id \in DownlinkId
    BY DEF Downlink
  <2>2. TypeOK'
    BY <1>0, <1>5, <2>1 DEF ReceiveDownlink, TypeOK, AckAge
  <2>3. PendingIsOwed'
    BY <1>0, <1>5, <2>1 DEF ReceiveDownlink, TypeOK, PendingIsOwed
  <2>4. QED
    BY <2>2, <2>3 DEF ClientInv
<1>6. ASSUME NEW c \in Client, PassDownlink(c) PROVE ClientInv'
  <2>1. blocked[c] \in Downlink
    BY <1>0, <1>6 DEF PassDownlink, TypeOK
  <2>2. networkEvents' \in Seq(Downlink) /\ Len(networkEvents') <= QueueCap
    BY <1>0, <1>6, <2>1 DEF PassDownlink, TypeOK
  <2>3. \A b \in Client : blocked'[b] \in Downlink \cup {None}
    BY <1>0, <1>6 DEF PassDownlink, TypeOK
  <2>4. TypeOK' /\ UNCHANGED <<pendingAcks, asked, acked>>
    BY <1>0, <1>6, <2>2, <2>3 DEF PassDownlink, TypeOK
  <2>5. QED
    BY <2>4, AcksUntouched
<1>7. ASSUME NEW c \in Client, ExpirePendingAcks(c) PROVE ClientInv'
  <2>1. TypeOK'
    BY <1>0, <1>7 DEF ExpirePendingAcks, TypeOK, AckAge
  <2>2. PendingIsOwed'
    BY <1>0, <1>7 DEF ExpirePendingAcks, TypeOK, PendingIsOwed
  <2>3. QED
    BY <2>1, <2>2 DEF ClientInv
<1>8. CASE ExchangeTakes
  <2>1. /\ networkEvents' \in Seq(Downlink)
        /\ Len(networkEvents') <= QueueCap
        /\ Head(networkEvents) \in Downlink
    BY <1>0, <1>8 DEF ExchangeTakes, TypeOK
  <2>2. TypeOK' /\ UNCHANGED <<pendingAcks, asked, acked>>
    BY <1>0, <1>8, <2>1 DEF ExchangeTakes, TypeOK
  <2>3. QED
    BY <2>2, AcksUntouched
<1>9. CASE Minute
  <2>1. lastEvent' \in [Client -> [Gateway -> 0 .. KeepAlive + 1 \cup {Never}]]
    BY <1>0, <1>9 DEF Minute, TypeOK
  <2>2. TypeOK' /\ UNCHANGED <<pendingAcks, asked, acked>>
    BY <1>0, <1>9, <2>1 DEF Minute, TypeOK
  <2>3. QED
    BY <2>2, AcksUntouched
<1>10. CASE UNCHANGED vars
  BY <1>0, <1>10 DEF vars, ClientInv, TypeOK, PendingIsOwed
<1>11. QED
  BY <1>1, <1>2, <1>3, <1>4, <1>5, <1>6, <1>7, <1>8, <1>9, <1>10 DEF Next, ClientStep

-----------------------------------------------------------------------------
\* The inductive invariant holds in every reachable state, for any number of
\* clients, gateways and downlink ids and any size of networkEvents.
THEOREM RouterClientInvariant == Spec => []ClientInv
  BY ClientInit, ClientNext, PTL DEF Spec

\* The clients' state keeps its type; in particular networkEvents holds no more
\* than its capacity.
THEOREM RouterClientTypeOK == Spec => []TypeOK
<1>1. ClientInv => TypeOK
  BY DEF ClientInv
<1>2. QED
  BY <1>1, RouterClientInvariant, PTL

\* A router never gets more confirmations of a downlink id than it asked for on
\* the connection: HandleDownlinkAck forwards only pending ones and each once.
THEOREM AcksAreAnswers == Spec => []AcksAnswerRequests
<1>1. ClientInv => AcksAnswerRequests
  BY DEF ClientInv, PendingIsOwed, AcksAnswerRequests
<1>2. QED
  BY <1>1, RouterClientInvariant, PTL
-----------------------------------------------------------------------------
(* The composition: the inductive invariant                                *)

PresenceTypeOK ==
    /\ conn \in [Client -> Session \cup {NoSession}]
    /\ wire \in [Client -> Seq(R!ForwarderEvent)]
    /\ quiet \in [Client -> [Gateway -> 0 .. Silent]]

\* A client that is connected has a session of its own, which the router serves;
\* nothing is on the wire of a client that is not.
Joined(c) ==
    /\ link[c] = "up" => /\ conn[c] \in Session
                         /\ stream[conn[c]] = "open"
                         /\ session[conn[c]] \in {"select", "lock"}
    /\ link[c] # "up" => wire[c] = <<>>
    /\ conn[c] \in Session => session[conn[c]] # "new"
    /\ \A d \in Client : conn[c] = conn[d] /\ conn[c] \in Session => c = d

\* Sessions that were not used yet own nothing, and a session takes its gateways
\* out of the table only after its stream was closed.
SessionsOK ==
    /\ \A g \in Gateway : owner[g] \in Session => session[owner[g]] # "new"
    /\ \A s \in Session : session[s] = "lock" /\ job[s].kind = "allOffline" =>
                            stream[s] = "closed"

Alive(g) == [kind |-> "alive", gw |-> g]

\* A sign of life of the gateway is on its way from the client to the table.
InFlight(c, g) ==
    \/ \E i \in 1 .. Len(wire[c]) : wire[c][i] = Alive(g)
    \/ \E i \in 1 .. Len(events[conn[c]]) : events[conn[c]][i] = Alive(g)
    \/ session[conn[c]] = "lock" /\ job[conn[c]] = Alive(g)

\* The entry of a gateway is not older than the last event the client sent for
\* it, while that still keeps it from sending another, nor than the keep-alive
\* interval and the time since the client last heard of the gateway.
AgeOK(c, g) ==
    link[c] = "up" /\ owner[g] = conn[c] /\ ~InFlight(c, g) =>
        /\ lastEvent[c][g] \in 0 .. KeepAlive => age[g] <= lastEvent[c][g]
        /\ quiet[c][g] <= Slack => age[g] <= KeepAlive + quiet[c][g]

PresenceInv ==
    /\ R!TypeOK
    /\ ClientInv
    /\ PresenceTypeOK
    /\ \A c \in Client : Joined(c)
    /\ SessionsOK
    /\ \A c \in Client : \A g \in Gateway : AgeOK(c, g)

-----------------------------------------------------------------------------
(* The parts                                                               *)

\* RouterProofs is about the same router: the definitions that its lemmas name
\* are those of R.
LEMMA SameRouter ==
    /\ R!Init <=> RP!Init
    /\ R!TypeOK <=> RP!TypeOK
    /\ R!TypeOK' <=> RP!TypeOK'
    /\ [R!Next]_R!vars <=> [RP!Next]_RP!vars
<1> USE DEF R!ForwarderEvent, RP!ForwarderEvent, R!AllOffline, RP!AllOffline,
            R!NoJob, RP!NoJob, R!Idle, RP!Idle
<1>1. R!Init <=> RP!Init
  BY DEF R!Init, RP!Init
<1>2. (R!TypeOK <=> RP!TypeOK) /\ (R!TypeOK' <=> RP!TypeOK')
  BY DEF R!TypeOK, RP!TypeOK, R!Callback, RP!Callback
<1>3. R!Next <=> RP!Next
  <2> USE DEF R!Locked, RP!Locked, R!LockFree, RP!LockFree, R!Remove, RP!Remove
  <2>1. \A s \in Session : R!SessionStep(s) <=> RP!SessionStep(s)
    BY DEF R!SessionStep, RP!SessionStep, R!Connect, RP!Connect, R!StreamRecv,
           RP!StreamRecv, R!StreamBreak, RP!StreamBreak, R!StreamCanceled,
           RP!StreamCanceled, R!TakeEvent, RP!TakeEvent, R!TakeClosed, RP!TakeClosed,
           R!gatewayOnline, RP!gatewayOnline, R!gatewayOffline, RP!gatewayOffline,
           R!allGatewaysOffline, RP!allGatewaysOffline, R!SendToForwarder,
           RP!SendToForwarder, R!SendFails, RP!SendFails, R!OwnedBy, RP!OwnedBy
  <2>2. /\ \A g \in Gateway : R!DownlinkFrame(g) <=> RP!DownlinkFrame(g)
        /\ R!ForwarderSend <=> RP!ForwarderSend
        /\ R!Tick <=> RP!Tick
        /\ R!cleanupTimeOutGateways <=> RP!cleanupTimeOutGateways
    BY DEF R!DownlinkFrame, RP!DownlinkFrame, R!ForwarderSend, RP!ForwarderSend,
           R!Tick, RP!Tick, R!cleanupTimeOutGateways, RP!cleanupTimeOutGateways,
           R!Ended, RP!Ended, R!Online, RP!Online, R!TimedOut, RP!TimedOut
  <2>3. QED
    BY <2>1, <2>2 DEF R!Next, RP!Next
<1>4. QED
  BY <1>1, <1>2, <1>3 DEF R!vars, RP!vars

\* The router starts within its types and its steps stay there.
LEMMA RouterTypes ==
    /\ R!Init => R!TypeOK
    /\ R!TypeOK /\ [R!Next]_R!vars => R!TypeOK'
<1>1. /\ NoSession \notin Session /\ EventCap \in Nat \ {0} /\ ChanCap \in Nat \ {0}
      /\ Timeout \in Nat /\ MaxDownlinks \in Nat
  BY PresenceAssumption
<1>2. RP!Init => RP!TypeOK
  BY <1>1, RP!InitIInv DEF RP!IInv
<1>3. RP!TypeOK /\ [RP!Next]_RP!vars => RP!TypeOK'
  BY <1>1, RP!NextTypeOK
<1>4. QED
  BY <1>2, <1>3, SameRouter

\* Every step of the composition is a step of the clients, or leaves them alone.
LEMMA ClientSteps == [PresenceNext]_presenceVars => [Next]_vars
<1> SUFFICES ASSUME [PresenceNext]_presenceVars PROVE Next \/ UNCHANGED clientVars
  BY DEF vars, clientVars, vars
<1>1. ASSUME NEW c \in Client, NEW s \in Session, OpenSession(c, s) PROVE ClientStep(c)
  BY <1>1 DEF OpenSession, ClientStep
<1>2. ASSUME NEW c \in Client, BreakStream(c) \/ NoticeBreak(c) PROVE ClientStep(c)
  BY <1>2 DEF BreakStream, NoticeBreak, ClientStep
<1>3. ASSUME NEW c \in Client, NEW g \in Gateway,
             Uplink(c, g) \/ Online(c, g) \/ Offline(c, g)
      PROVE  ClientStep(c)
  BY <1>3 DEF Uplink, Online, Offline, ClientStep
<1>4. CASE (\E c \in Client : Receive(c)) \/ RouterStep \/ UNCHANGED presenceVars
  BY <1>4 DEF Receive, RouterStep, Alone, presenceVars
<1>5. CASE MinutePasses
  BY <1>5 DEF MinutePasses, Next
<1>6. QED
  BY <1>1, <1>2, <1>3, <1>4, <1>5 DEF PresenceNext, Next

\* The events on the wire are events a router can receive, so every step is a
\* step of the router too, or leaves it alone.
LEMMA RouterSteps ==
    ASSUME PresenceTypeOK, \A c \in Client : Joined(c), [PresenceNext]_presenceVars
    PROVE  [R!Next]_R!vars
<1> SUFFICES R!Next \/ UNCHANGED routerVars
  BY DEF R!vars, routerVars
<1>1. ASSUME NEW c \in Client, NEW s \in Session, OpenSession(c, s) PROVE R!Next
  BY <1>1 DEF OpenSession, R!Next, R!SessionStep
<1>2. ASSUME NEW c \in Client, BreakStream(c) PROVE R!Next \/ UNCHANGED routerVars
  <2>1. conn[c] \in Session
    BY <1>2 DEF BreakStream, Break, Joined
  <2>2. QED
    BY <1>2, <2>1 DEF BreakStream, R!Next, R!SessionStep, PresenceTypeOK
<1>3. CASE UNCHANGED presenceVars \/ \E c \in Client :
             \/ NoticeBreak(c)
             \/ \E g \in Gateway : Uplink(c, g) \/ Online(c, g) \/ Offline(c, g)
  BY <1>3 DEF presenceVars, NoticeBreak, Uplink, Online, Offline
<1>4. ASSUME NEW c \in Client, Receive(c) PROVE R!Next
  <2>1. Head(wire[c]) \in R!ForwarderEvent
    BY <1>4 DEF Receive, PresenceTypeOK
  <2>2. conn[c] \in Session
    BY <1>4 DEF Receive, Joined
  <2>3. QED
    BY <1>4, <2>1, <2>2 DEF Receive, R!Next, R!SessionStep
<1>5. CASE RouterStep
  BY <1>5 DEF RouterStep, Alone, SessionStep, R!Next, R!SessionStep, R!ApplyJob
<1>6. CASE MinutePasses
  BY <1>6 DEF MinutePasses, R!Next
<1>7. QED
  BY <1>1, <1>2, <1>3, <1>4, <1>5, <1>6 DEF PresenceNext

-----------------------------------------------------------------------------
(* The invariant of the composition                                        *)

\* The bounds as numbers.
LEMMA Bounds ==
    /\ KeepAlive \in Nat /\ Timeout \in Nat /\ Slack \in Nat /\ Silent \in Nat
    /\ Silent = Slack + 1 /\ KeepAlive + Slack = Timeout
    /\ NoSession \notin Session /\ Never \notin Nat
BY PresenceAssumption, ClientBounds DEF Slack, Silent

\* The types of the variables that the composition joins.
LEMMA Types ==
    ASSUME PresenceInv
    PROVE  /\ link \in [Client -> {"down", "up", "broken"}]
           /\ lastEvent \in [Client -> [Gateway -> 0 .. KeepAlive + 1 \cup {Never}]]
           /\ session \in [Session -> {"new", "select", "lock", "closed", "failed"}]
           /\ job \in [Session -> R!ForwarderEvent \cup {R!AllOffline, R!NoJob}]
           /\ stream \in [Session -> {"none", "open", "broken", "closed"}]
           /\ events \in [Session -> Seq(R!ForwarderEvent)]
           /\ owner \in [Gateway -> Session \cup {NoSession}]
           /\ age \in [Gateway -> 0 .. Timeout + 1]
           /\ PresenceTypeOK
<1>1. TypeOK
  BY DEF PresenceInv, ClientInv
<1>2. QED
  BY <1>1 DEF PresenceInv, TypeOK, R!TypeOK

\* What a client does to its link: it stays up, or it is not up afterwards.
LEMMA ClientLink ==
    ASSUME NEW c \in Client, NEW g \in Gateway, PresenceInv,
           HandleUplink(c, g) \/ HandleOnline(c, g) \/ HandleOffline(c, g)
    PROVE  /\ link[c] = "up" => UNCHANGED link
           /\ link[c] # "up" => link'[c] # "up"
           /\ \A d \in Client \ {c} : link'[d] = link[d]
BY Types DEF HandleUplink, HandleOnline, HandleOffline, SendFails

\* What a client transmits is an event of the router.
LEMMA TransmitType ==
    ASSUME PresenceInv, NEW c \in Client, NEW g \in Gateway,
           NEW kind \in {"alive", "offline"}, Transmit(c, kind, g)
    PROVE  wire' \in [Client -> Seq(R!ForwarderEvent)]
<1>1. [kind |-> kind, gw |-> g] \in R!ForwarderEvent
  BY DEF R!ForwarderEvent
<1>2. wire \in [Client -> Seq(R!ForwarderEvent)]
  BY Types DEF PresenceTypeOK
<1>3. CASE link[c] = "up"
  <2>1. wire' = [wire EXCEPT ![c] = Append(@, [kind |-> kind, gw |-> g])]
    BY <1>3 DEF Transmit
  <2>2. QED
    BY <1>1, <1>2, <2>1
<1>4. CASE link[c] # "up"
  BY <1>2, <1>4 DEF Transmit
<1>5. QED
  BY <1>3, <1>4

\* The variables of the composition stay within their types.
LEMMA PresenceTypes ==
    ASSUME PresenceInv, [PresenceNext]_presenceVars
    PROVE  PresenceTypeOK'
<1>0. PresenceTypeOK
  BY DEF PresenceInv
<1>1. ASSUME NEW c \in Client, NEW s \in Session, OpenSession(c, s) PROVE PresenceTypeOK'
  <2>1. [g \in Gateway |-> Silent] \in [Gateway -> 0 .. Silent]
    BY Bounds
  <2>2. quiet' \in [Client -> [Gateway -> 0 .. Silent]]
    BY <1>0, <1>1, <2>1 DEF OpenSession, PresenceTypeOK
  <2>3. wire' \in [Client -> Seq(R!ForwarderEvent)]
    BY <1>0, <1>1 DEF OpenSession, PresenceTypeOK
  <2>4. QED
    BY <1>0, <1>1, <2>2, <2>3 DEF OpenSession, PresenceTypeOK
<1>2. ASSUME NEW c \in Client, BreakStream(c) \/ NoticeBreak(c) PROVE PresenceTypeOK'
  <2>1. CASE BreakStream(c)
    <3>1. wire' = [wire EXCEPT ![c] = <<>>] /\ UNCHANGED <<conn, quiet>>
      BY <2>1 DEF BreakStream
    <3>2. wire' \in [Client -> Seq(R!ForwarderEvent)]
      BY <1>0, <3>1 DEF PresenceTypeOK
    <3>3. QED
      BY <1>0, <3>1, <3>2 DEF PresenceTypeOK
  <2>2. CASE NoticeBreak(c)
    BY <1>0, <2>2 DEF NoticeBreak, PresenceTypeOK
  <2>3. QED
    BY <1>2, <2>1, <2>2
<1>3. ASSUME NEW c \in Client, NEW g \in Gateway,
             Uplink(c, g) \/ Online(c, g) \/ Offline(c, g)
      PROVE  PresenceTypeOK'
  <2>1. wire' \in [Client -> Seq(R!ForwarderEvent)]
    BY <1>0, <1>3, TransmitType DEF Uplink, Online, Offline, PresenceTypeOK
  <2>2. UNCHANGED conn /\ \E m \in 0 .. Silent : Hear(c, g, m)
    BY <1>3, Bounds DEF Uplink, Online, Offline
  <2>3. QED
    BY <1>0, <2>1, <2>2 DEF Hear, PresenceTypeOK
<1>4. ASSUME NEW c \in Client, Receive(c) PROVE PresenceTypeOK'
  <2>1. Tail(wire[c]) \in Seq(R!ForwarderEvent)
    BY <1>0, <1>4 DEF Receive, PresenceTypeOK
  <2>2. QED
    BY <1>0, <1>4, <2>1 DEF Receive, PresenceTypeOK
<1>5. CASE RouterStep \/ UNCHANGED presenceVars
  BY <1>0, <1>5 DEF RouterStep, Alone, presenceVars, PresenceTypeOK
<1>6. CASE MinutePasses
  <2>1. \A m \in 0 .. Silent : (IF m < Silent THEN m + 1 ELSE Silent) \in 0 .. Silent
    BY Bounds
  <2>2. quiet' \in [Client -> [Gateway -> 0 .. Silent]]
    BY <1>0, <1>6, <2>1 DEF MinutePasses, PresenceTypeOK
  <2>3. QED
    BY <1>0, <1>6, <2>2 DEF MinutePasses, PresenceTypeOK
<1>7. QED
  BY <1>1, <1>2, <1>3, <1>4, <1>5, <1>6 DEF PresenceNext

\* A step of the router that breaks no stream and ends no session of an open one
\* keeps the clients joined to their sessions.
LEMMA StillJoined ==
    ASSUME PresenceInv, UNCHANGED <<link, conn>>,
           \A s \in Session : /\ stream[s] = "open" => stream'[s] = "open"
                              /\ session[s] # "new" => session'[s] # "new"
                              /\ stream[s] = "open" /\ session[s] \in {"select", "lock"} =>
                                   session'[s] \in {"select", "lock"},
           \A c \in Client : wire[c] = <<>> => wire'[c] = <<>>
    PROVE  \A c \in Client : Joined(c)'
<1> SUFFICES ASSUME NEW c \in Client PROVE Joined(c)'
  OBVIOUS
<1>1. Joined(c)
  BY DEF PresenceInv
<1>2. QED
  BY <1>1 DEF Joined

\* The steps of the router alone end no session that has an open stream: only
\* the clean-up of a session whose stream was closed does, and a failed Send.
LEMMA RouterJoined ==
    ASSUME PresenceInv, RouterStep
    PROVE  \A c \in Client : Joined(c)'
<1> USE DEF R!Locked
<1>1. \A s \in Session : job[s].kind = "allOffline" /\ session[s] = "lock" => stream[s] = "closed"
  BY DEF PresenceInv, SessionsOK
<1>2. UNCHANGED <<link, conn, wire>>
  BY DEF RouterStep, Alone, clientVars, vars
<1>3. ASSUME NEW s \in Session, SessionStep(s)
      PROVE  /\ \A t \in Session \ {s} : stream'[t] = stream[t] /\ session'[t] = session[t]
             /\ stream[s] = "open" => stream'[s] = "open"
             /\ session[s] # "new" => session'[s] # "new"
             /\ stream[s] = "open" => session'[s] \in {session[s], "select", "lock"}
  <2>1. CASE R!StreamCanceled(s) \/ R!SendToForwarder(s) \/ R!SendFails(s)
    BY <2>1, Types DEF R!StreamCanceled, R!SendToForwarder, R!SendFails
  <2>2. CASE R!TakeEvent(s) \/ R!TakeClosed(s)
    BY <2>2, Types DEF R!TakeEvent, R!TakeClosed
  <2>3. CASE R!ApplyJob(s)
    BY <1>1, <2>3, Types
       DEF R!ApplyJob, R!gatewayOnline, R!gatewayOffline, R!allGatewaysOffline
  <2>4. QED
    BY <1>3, <2>1, <2>2, <2>3 DEF SessionStep
<1>4. CASE \E s \in Session : Alone(SessionStep(s))
  <2>1. PICK s \in Session : SessionStep(s)
    BY <1>4 DEF Alone
  <2>2. \A t \in Session : /\ stream[t] = "open" => stream'[t] = "open"
                           /\ session[t] # "new" => session'[t] # "new"
                           /\ stream[t] = "open" /\ session[t] \in {"select", "lock"} =>
                                session'[t] \in {"select", "lock"}
    BY <1>3, <2>1
  <2>3. QED
    BY <1>2, <2>2, StillJoined
<1>5. CASE \/ \E g \in Gateway : Alone(R!DownlinkFrame(g))
           \/ Alone(R!ForwarderSend) \/ Alone(R!cleanupTimeOutGateways)
  <2>1. UNCHANGED <<session, stream>>
    BY <1>5 DEF Alone, R!DownlinkFrame, R!ForwarderSend, R!cleanupTimeOutGateways
  <2>2. QED
    BY <1>2, <2>1, StillJoined
<1>6. QED
  BY <1>4, <1>5 DEF RouterStep

\* Every step keeps the clients joined to their sessions.
LEMMA JoinedKept ==
    ASSUME PresenceInv, [PresenceNext]_presenceVars
    PROVE  \A c \in Client : Joined(c)'
<1>0. \A c \in Client : Joined(c)
  BY DEF PresenceInv
<1>1. ASSUME NEW c \in Client, NEW s \in Session, OpenSession(c, s), NEW d \in Client
      PROVE  Joined(d)'
  <2>1. /\ session[s] = "new" /\ session' = [session EXCEPT ![s] = "select"]
        /\ stream' = [stream EXCEPT ![s] = "open"] /\ conn' = [conn EXCEPT ![c] = s]
        /\ wire' = [wire EXCEPT ![c] = <<>>] /\ link' = [link EXCEPT ![c] = "up"]
    BY <1>1 DEF OpenSession, Connect, R!Connect
  <2>2. \A e \in Client : conn[e] # s
    BY <1>0, <2>1 DEF Joined
  <2>3. CASE d = c
    BY <2>1, <2>2, <2>3, Types DEF PresenceTypeOK, Joined
  <2>4. CASE d # c
    <3>1. conn'[d] = conn[d] /\ wire'[d] = wire[d] /\ link'[d] = link[d]
      BY <2>1, <2>4, Types DEF PresenceTypeOK
    <3>2. conn[d] \in Session => session'[conn[d]] = session[conn[d]]
                                 /\ stream'[conn[d]] = stream[conn[d]]
      BY <2>1, <2>2, Types
    <3>3. \A e \in Client : conn'[d] = conn'[e] /\ conn'[d] \in Session => d = e
      BY <1>0, <2>1, <2>2, <3>1, Types DEF Joined, PresenceTypeOK
    <3>4. QED
      BY <1>0, <3>1, <3>2, <3>3 DEF Joined
  <2>5. QED
    BY <2>3, <2>4
<1>2. ASSUME NEW c \in Client, BreakStream(c), NEW d \in Client PROVE Joined(d)'
  <2>1. /\ link[c] = "up" /\ link' = [link EXCEPT ![c] = "broken"]
        /\ wire' = [wire EXCEPT ![c] = <<>>] /\ UNCHANGED <<conn, session>>
        /\ UNCHANGED stream \/ stream' = [stream EXCEPT ![conn[c]] = "broken"]
    BY <1>2 DEF BreakStream, Break, R!StreamBreak, routerVars
  <2>2. CASE d = c
    BY <1>0, <2>1, <2>2, Types DEF PresenceTypeOK, Joined
  <2>3. CASE d # c
    <3>1. wire'[d] = wire[d] /\ link'[d] = link[d]
      BY <2>1, <2>3, Types DEF PresenceTypeOK
    <3>2. conn[d] \in Session => conn[d] # conn[c] /\ stream'[conn[d]] = stream[conn[d]]
      BY <1>0, <2>1, <2>3, Types DEF Joined
    <3>3. QED
      BY <1>0, <2>1, <3>1, <3>2 DEF Joined
  <2>4. QED
    BY <2>2, <2>3
<1>3. ASSUME NEW c \in Client, NoticeBreak(c), NEW d \in Client PROVE Joined(d)'
  <2>1. link[c] = "broken" /\ link' = [link EXCEPT ![c] = "down"]
        /\ UNCHANGED <<conn, wire, session, stream>>
    BY <1>3 DEF NoticeBreak, ConnectionLost, routerVars
  <2>2. QED
    BY <1>0, <2>1, Types DEF Joined
<1>4. ASSUME NEW c \in Client, NEW g \in Gateway,
             Uplink(c, g) \/ Online(c, g) \/ Offline(c, g), NEW d \in Client
      PROVE  Joined(d)'
  <2>1. /\ link[c] = "up" => UNCHANGED link
        /\ link[c] # "up" => link'[c] # "up"
        /\ \A e \in Client \ {c} : link'[e] = link[e]
    BY <1>4, ClientLink DEF Uplink, Online, Offline
  <2>2. UNCHANGED <<conn, session, stream>>
    BY <1>4 DEF Uplink, Online, Offline, routerVars
  <2>3. \A e \in Client : link[e] # "up" => wire'[e] = wire[e]
    BY <1>4, Types DEF Uplink, Online, Offline, Transmit, PresenceTypeOK
  <2>4. QED
    BY <1>0, <2>1, <2>2, <2>3 DEF Joined
<1>5. ASSUME NEW c \in Client, Receive(c) PROVE \A d \in Client : Joined(d)'
  <2>1. UNCHANGED <<link, conn, session, stream>>
    BY <1>5 DEF Receive, R!StreamRecv, clientVars, vars
  <2>2. \A d \in Client : wire[d] = <<>> => wire'[d] = <<>>
    BY <1>5, Types DEF Receive, PresenceTypeOK
  <2>3. QED
    BY <2>1, <2>2, StillJoined
<1>6. CASE MinutePasses \/ UNCHANGED presenceVars
  <2>1. UNCHANGED <<link, conn, wire, session, stream>>
    BY <1>6 DEF MinutePasses, Minute, R!Tick, presenceVars, clientVars, vars, routerVars
  <2>2. QED
    BY <2>1, StillJoined
<1>7. QED
  BY <1>1, <1>2, <1>3, <1>4, <1>5, <1>6, RouterJoined DEF PresenceNext

\* Every step of the router keeps its sessions in order.
LEMMA SessionsKept ==
    ASSUME PresenceInv, [R!Next]_R!vars
    PROVE  SessionsOK'
<1> USE DEF R!Locked
<1>0. SessionsOK
  BY DEF PresenceInv
<1>1. ASSUME UNCHANGED <<owner, job>>,
             \A s \in Session : /\ session[s] # "new" => session'[s] # "new"
                                /\ session'[s] = "lock" => session[s] = "lock"
                                /\ stream[s] = "closed" => stream'[s] = "closed"
      PROVE  SessionsOK'
  BY <1>0, <1>1 DEF SessionsOK
<1>2. ASSUME NEW s \in Session,
             R!Connect(s) \/ R!StreamBreak(s) \/ R!StreamCanceled(s)
             \/ R!SendToForwarder(s) \/ R!SendFails(s)
             \/ \E ev \in R!ForwarderEvent : R!StreamRecv(s, ev)
      PROVE  SessionsOK'
  <2>1. CASE R!Connect(s)
    <3>1. session[s] = "new" /\ session' = [session EXCEPT ![s] = "select"]
          /\ stream' = [stream EXCEPT ![s] = "open"] /\ UNCHANGED <<owner, job>>
      BY <2>1 DEF R!Connect
    <3>2. QED
      BY <1>0, <3>1, Types DEF SessionsOK
  <2>2. CASE R!StreamBreak(s) \/ R!StreamCanceled(s) \/ R!SendToForwarder(s) \/ R!SendFails(s)
    BY <1>1, <2>2, Types
       DEF R!StreamBreak, R!StreamCanceled, R!SendToForwarder, R!SendFails
  <2>3. CASE \E ev \in R!ForwarderEvent : R!StreamRecv(s, ev)
    BY <1>1, <2>3 DEF R!StreamRecv
  <2>4. QED
    BY <1>2, <2>1, <2>2, <2>3
<1>3. ASSUME NEW s \in Session, R!TakeEvent(s) PROVE SessionsOK'
  <2>1. Head(events[s]) \in R!ForwarderEvent
    BY <1>3, Types DEF R!TakeEvent
  <2>2. Head(events[s]).kind # "allOffline"
    BY <2>1 DEF R!ForwarderEvent
  <2>3. CASE Head(events[s]).kind = "ack"
    BY <1>1, <1>3, <2>3 DEF R!TakeEvent
  <2>4. CASE Head(events[s]).kind # "ack"
    <3>1. /\ session' = [session EXCEPT ![s] = "lock"]
          /\ job' = [job EXCEPT ![s] = Head(events[s])] /\ UNCHANGED <<owner, stream>>
      BY <1>3, <2>4 DEF R!TakeEvent
    <3>2. QED
      BY <1>0, <2>2, <3>1, Types DEF SessionsOK
  <2>5. QED
    BY <2>3, <2>4
<1>4. ASSUME NEW s \in Session, R!TakeClosed(s) PROVE SessionsOK'
  BY <1>0, <1>4, Types DEF R!TakeClosed, SessionsOK
<1>5. ASSUME NEW s \in Session, R!gatewayOnline(s) PROVE SessionsOK'
  <2>1. /\ session[s] = "lock" /\ session' = [session EXCEPT ![s] = "select"]
        /\ \A g \in Gateway : owner'[g] \in {owner[g], s}
        /\ job' = [job EXCEPT ![s] = R!NoJob] /\ UNCHANGED stream
    BY <1>5, Types DEF R!gatewayOnline
  <2>2. QED
    BY <1>0, <2>1, Types DEF SessionsOK
<1>6. ASSUME NEW s \in Session, R!gatewayOffline(s) \/ R!allGatewaysOffline(s)
      PROVE  SessionsOK'
  <2>1. PICK v \in {"select", "closed"} : session' = [session EXCEPT ![s] = v]
    BY <1>6 DEF R!gatewayOffline, R!allGatewaysOffline
  <2>2. (\A g \in Gateway : owner'[g] \in {owner[g], NoSession})
        /\ job' = [job EXCEPT ![s] = R!NoJob] /\ UNCHANGED stream
    BY <1>6 DEF R!gatewayOffline, R!allGatewaysOffline, R!Remove
  <2>3. \A t \in Session : /\ session[t] # "new" => session'[t] # "new"
                           /\ session'[t] = "lock" => session[t] = "lock" /\ job'[t] = job[t]
    BY <2>1, <2>2, Types
  <2>4. QED
    BY <1>0, <2>2, <2>3, Bounds DEF SessionsOK
<1>7. CASE R!cleanupTimeOutGateways
  <2>1. (\A g \in Gateway : owner'[g] \in {owner[g], NoSession})
        /\ UNCHANGED <<session, job, stream>>
    BY <1>7 DEF R!cleanupTimeOutGateways, R!Remove
  <2>2. QED
    BY <1>0, <2>1, Bounds DEF SessionsOK
<1>8. CASE R!Tick \/ R!ForwarderSend \/ (\E g \in Gateway : R!DownlinkFrame(g))
           \/ UNCHANGED R!vars
  BY <1>1, <1>8 DEF R!Tick, R!ForwarderSend, R!DownlinkFrame, R!vars
<1>9. QED
  BY <1>2, <1>3, <1>4, <1>5, <1>6, <1>7, <1>8 DEF R!Next, R!SessionStep

-----------------------------------------------------------------------------
(* The age of the entries                                                  *)

\* A step that loses no sign of life on its way and makes no entry of the
\* client's session, or makes it older.
LEMMA AgeUntouched ==
    ASSUME NEW c \in Client, NEW g \in Gateway, AgeOK(c, g),
           link'[c] = "up" => link[c] = "up", conn'[c] = conn[c],
           owner'[g] = conn[c] => owner[g] = conn[c] /\ age'[g] = age[g],
           InFlight(c, g) => InFlight(c, g)',
           lastEvent'[c][g] = lastEvent[c][g], quiet'[c][g] = quiet[c][g]
    PROVE  AgeOK(c, g)'
BY DEF AgeOK

\* The connection: a new session owns nothing, a broken one no longer matters.
LEMMA ConnectionAge ==
    ASSUME PresenceInv, NEW c \in Client, NEW g \in Gateway, NEW e \in Client,
           (\E s \in Session : OpenSession(e, s)) \/ BreakStream(e) \/ NoticeBreak(e)
    PROVE  AgeOK(c, g)'
<1>0. AgeOK(c, g) /\ Joined(c)
  BY DEF PresenceInv
<1>1. ASSUME NEW s \in Session, OpenSession(e, s) PROVE AgeOK(c, g)'
  <2>1. /\ session[s] = "new" /\ session' = [session EXCEPT ![s] = "select"]
        /\ conn' = [conn EXCEPT ![e] = s] /\ wire' = [wire EXCEPT ![e] = <<>>]
        /\ link' = [link EXCEPT ![e] = "up"] /\ UNCHANGED <<lastEvent, owner, age, events, job>>
        /\ quiet' = [quiet EXCEPT ![e] = [h \in Gateway |-> Silent]]
    BY <1>1 DEF OpenSession, Connect, R!Connect
  <2>2. CASE c = e
    <3>1. conn'[c] = s /\ owner'[g] # s
      BY <2>1, <2>2, Types DEF PresenceInv, SessionsOK, PresenceTypeOK
    <3>2. QED
      BY <3>1 DEF AgeOK
  <2>3. CASE c # e
    <3>1. /\ conn'[c] = conn[c] /\ wire'[c] = wire[c] /\ link'[c] = link[c]
          /\ quiet'[c] = quiet[c]
      BY <2>1, <2>3, Types DEF PresenceTypeOK
    <3>2. session[conn[c]] = "lock" => session'[conn[c]] = "lock"
      BY <2>1, Types
    <3>3. InFlight(c, g) => InFlight(c, g)'
      BY <2>1, <3>1, <3>2 DEF InFlight
    <3>4. QED
      BY <1>0, <2>1, <3>1, <3>3, AgeUntouched
  <2>4. QED
    BY <2>2, <2>3
<1>2. CASE BreakStream(e) \/ NoticeBreak(e)
  <2>1. /\ \E v \in {"broken", "down"} : link' = [link EXCEPT ![e] = v]
        /\ UNCHANGED <<conn, session, lastEvent, owner, age, events, job, quiet>>
        /\ \A d \in Client \ {e} : wire'[d] = wire[d]
    BY <1>2, Types DEF BreakStream, NoticeBreak, Break, ConnectionLost, R!StreamBreak,
                       routerVars, PresenceTypeOK
  <2>2. CASE c = e
    BY <2>1, <2>2, Types DEF AgeOK
  <2>3. CASE c # e
    <3>1. wire'[c] = wire[c] /\ link'[c] = link[c]
      BY <2>1, <2>3, Types
    <3>2. InFlight(c, g) => InFlight(c, g)'
      BY <2>1, <3>1 DEF InFlight
    <3>3. QED
      BY <1>0, <2>1, <3>1, <3>2, AgeUntouched
  <2>4. QED
    BY <2>2, <2>3
<1>3. QED
  BY <1>1, <1>2

\* An event that a connected client transmits is on its way, and so is what was
\* on its way before.
LEMMA Transmitted ==
    ASSUME PresenceInv, NEW e \in Client, NEW h \in Gateway,
           NEW kind \in {"alive", "offline"}, Transmit(e, kind, h),
           UNCHANGED <<conn, events, session, job>>
    PROVE  /\ \A c \in Client : \A g \in Gateway : InFlight(c, g) => InFlight(c, g)'
           /\ link[e] = "up" /\ kind = "alive" => InFlight(e, h)'
<1>1. CASE link[e] # "up"
  BY <1>1 DEF Transmit, InFlight
<1>2. CASE link[e] = "up"
  <2>1. wire' = [wire EXCEPT ![e] = Append(@, [kind |-> kind, gw |-> h])]
    BY <1>2 DEF Transmit
  <2>2. wire[e] \in Seq(R!ForwarderEvent) /\ [kind |-> kind, gw |-> h] \in R!ForwarderEvent
    BY Types DEF PresenceTypeOK, R!ForwarderEvent
  <2>3. /\ Len(wire'[e]) = Len(wire[e]) + 1
        /\ \A i \in 1 .. Len(wire[e]) : wire'[e][i] = wire[e][i]
        /\ wire'[e][Len(wire[e]) + 1] = [kind |-> kind, gw |-> h]
        /\ Len(wire[e]) \in Nat
    BY <2>1, <2>2, Types DEF PresenceTypeOK
  <2>4. \A c \in Client \ {e} : wire'[c] = wire[c]
    BY <2>1, Types DEF PresenceTypeOK
  <2>5. ASSUME NEW c \in Client, NEW g \in Gateway, InFlight(c, g) PROVE InFlight(c, g)'
    <3>1. CASE c # e
      BY <2>4, <2>5, <3>1 DEF InFlight
    <3>2. CASE c = e
      BY <2>3, <2>5, <3>2 DEF InFlight, Alive
    <3>3. QED
      BY <3>1, <3>2
  <2>6. kind = "alive" => InFlight(e, h)'
    BY <2>3 DEF InFlight, Alive
  <2>7. QED
    BY <2>5, <2>6
<1>3. QED
  BY <1>1, <1>2

\* A client that hears of a gateway either sends a sign of life or has sent one
\* less than the keep-alive interval ago.
LEMMA ClientAge ==
    ASSUME PresenceInv, NEW c \in Client, NEW g \in Gateway, NEW e \in Client,
           NEW h \in Gateway, Uplink(e, h) \/ Online(e, h) \/ Offline(e, h)
    PROVE  AgeOK(c, g)'
<1>0. AgeOK(c, g) /\ Joined(c)
  BY DEF PresenceInv
<1>1. UNCHANGED <<conn, session, owner, age, events, job>>
  BY DEF Uplink, Online, Offline, routerVars
<1>2. /\ link[e] = "up" => UNCHANGED link
      /\ link[e] # "up" => link'[e] # "up"
      /\ \A d \in Client \ {e} : link'[d] = link[d]
  BY ClientLink DEF Uplink, Online, Offline
<1>3. InFlight(c, g) => InFlight(c, g)'
  <2>1. CASE UNCHANGED wire
    BY <1>1, <2>1 DEF InFlight
  <2>2. CASE \E kind \in {"alive", "offline"} : Transmit(e, kind, h)
    BY <1>1, <2>2, Transmitted
  <2>3. QED
    BY <2>1, <2>2 DEF Uplink, Online, Offline
<1>4. CASE c # e \/ g # h
  <2>1. lastEvent'[c][g] = lastEvent[c][g] /\ quiet'[c][g] = quiet[c][g]
    BY <1>4, Types DEF Uplink, Online, Offline, Hear, HandleUplink, HandleOnline,
                       HandleOffline, PresenceTypeOK
  <2>2. link'[c] = "up" => link[c] = "up"
    BY <1>2
  <2>3. QED
    BY <1>0, <1>1, <1>3, <2>1, <2>2, AgeUntouched
<1>5. CASE c = e /\ g = h /\ link[e] # "up"
  BY <1>2, <1>5 DEF AgeOK
<1>6. CASE c = e /\ g = h /\ link[e] = "up"
  <2>1. CASE Uplink(e, h) \/ (Online(e, h) /\ OnlineDue(e, h))
    <3>1. InFlight(c, g)'
      BY <1>1, <1>6, <2>1, Transmitted DEF Uplink, Online
    <3>2. QED
      BY <3>1 DEF AgeOK
  <2>2. CASE Online(e, h) /\ ~OnlineDue(e, h)
    <3>1. UNCHANGED <<link, wire>> /\ lastEvent'[c][g] = lastEvent[c][g] /\ quiet'[c][g] = 0
      BY <1>2, <1>6, <2>2, Types DEF Online, Hear, HandleOnline, PresenceTypeOK
    <3>2. lastEvent[c][g] \in 0 .. KeepAlive
      BY <1>6, <2>2 DEF OnlineDue
    <3>3. ASSUME link'[c] = "up", owner'[g] = conn'[c], ~InFlight(c, g)'
          PROVE  age[g] <= lastEvent[c][g] /\ age[g] <= KeepAlive + 0
      <4>1. age[g] <= lastEvent[c][g] /\ age[g] \in Nat
        BY <1>0, <1>1, <1>3, <1>6, <3>2, <3>3, Types DEF AgeOK
      <4>2. QED
        BY <3>2, <4>1, Bounds
    <3>4. QED
      BY <1>1, <3>1, <3>3 DEF AgeOK
  <2>3. CASE Offline(e, h)
    <3>1. lastEvent'[c][g] = Never /\ quiet'[c][g] = Silent
      BY <1>6, <2>3, Types
         DEF Offline, Hear, HandleOffline, SendFails, PresenceTypeOK
    <3>2. Never \notin 0 .. KeepAlive /\ ~(Silent <= Slack)
      BY Bounds
    <3>3. QED
      BY <3>1, <3>2 DEF AgeOK
  <2>4. QED
    BY <2>1, <2>2, <2>3
<1>7. QED
  BY <1>4, <1>5, <1>6

\* A minute passes for the client and for the table alike.
LEMMA MinuteAge ==
    ASSUME PresenceInv, NEW c \in Client, NEW g \in Gateway, MinutePasses
    PROVE  AgeOK(c, g)'
<1>0. AgeOK(c, g) /\ Joined(c) /\ Delivered(c)
  BY DEF PresenceInv, MinutePasses
<1>1. UNCHANGED <<link, conn, wire, session, owner, events, job>>
  BY DEF MinutePasses, Minute, R!Tick
<1>2. /\ age'[g] \in {age[g], age[g] + 1} /\ age[g] \in Nat
      /\ quiet[c][g] \in 0 .. Silent
      /\ quiet'[c][g] = IF quiet[c][g] < Silent THEN quiet[c][g] + 1 ELSE Silent
      /\ lastEvent'[c][g] = IF lastEvent[c][g] \in 0 .. KeepAlive
                            THEN lastEvent[c][g] + 1 ELSE lastEvent[c][g]
  BY Types DEF MinutePasses, Minute, R!Tick, PresenceTypeOK
<1>3. SUFFICES ASSUME link[c] = "up", owner[g] = conn[c]
               PROVE  /\ lastEvent'[c][g] \in 0 .. KeepAlive => age'[g] <= lastEvent'[c][g]
                      /\ quiet'[c][g] <= Slack => age'[g] <= KeepAlive + quiet'[c][g]
  BY <1>1 DEF AgeOK
<1>4. ~InFlight(c, g)
  <2>1. wire[c] = <<>> /\ events[conn[c]] = <<>> /\ session[conn[c]] # "lock"
    BY <1>0, <1>3 DEF Delivered
  <2>2. Len(wire[c]) = 0 /\ Len(events[conn[c]]) = 0
    BY <2>1
  <2>3. QED
    BY <2>1, <2>2 DEF InFlight
<1>5. /\ lastEvent[c][g] \in 0 .. KeepAlive => age[g] <= lastEvent[c][g]
      /\ quiet[c][g] <= Slack => age[g] <= KeepAlive + quiet[c][g]
  BY <1>0, <1>3, <1>4 DEF AgeOK
<1>6. lastEvent'[c][g] \in 0 .. KeepAlive => age'[g] <= lastEvent'[c][g]
  BY <1>2, <1>5, Bounds
<1>7. quiet'[c][g] <= Slack => age'[g] <= KeepAlive + quiet'[c][g]
  BY <1>2, <1>5, Bounds
<1>8. QED
  BY <1>6, <1>7

\* What the router receives goes from the wire to the queue of the session.
LEMMA ReceiveAge ==
    ASSUME PresenceInv, NEW c \in Client, NEW g \in Gateway, NEW e \in Client, Receive(e)
    PROVE  AgeOK(c, g)'
<1>0. AgeOK(c, g) /\ Joined(e) /\ Joined(c)
  BY DEF PresenceInv
<1>1. UNCHANGED <<link, lastEvent, conn, quiet, session, job, owner, age>>
  BY DEF Receive, R!StreamRecv, clientVars, vars
<1>2. /\ wire[e] # <<>> /\ wire' = [wire EXCEPT ![e] = Tail(@)]
      /\ events' = [events EXCEPT ![conn[e]] = Append(@, Head(wire[e]))]
      /\ conn[e] \in Session
  BY <1>0 DEF Receive, R!StreamRecv, Joined
<1>3. wire[e] \in Seq(R!ForwarderEvent) /\ events[conn[e]] \in Seq(R!ForwarderEvent)
      /\ Head(wire[e]) \in R!ForwarderEvent
  BY <1>2, Types DEF PresenceTypeOK
<1>4. /\ \A s \in Session \ {conn[e]} : events'[s] = events[s]
      /\ Len(events'[conn[e]]) = Len(events[conn[e]]) + 1
      /\ \A i \in 1 .. Len(events[conn[e]]) : events'[conn[e]][i] = events[conn[e]][i]
      /\ events'[conn[e]][Len(events[conn[e]]) + 1] = Head(wire[e])
      /\ Len(events[conn[e]]) \in Nat
  BY <1>2, <1>3, Types
<1>5. /\ \A d \in Client \ {e} : wire'[d] = wire[d]
      /\ wire'[e] = Tail(wire[e]) /\ Len(wire[e]) \in Nat
      /\ \A i \in 1 .. Len(wire[e]) :
           i = 1 \/ (i - 1 \in 1 .. Len(Tail(wire[e])) /\ Tail(wire[e])[i - 1] = wire[e][i])
  BY <1>2, <1>3, Types DEF PresenceTypeOK
<1>6. \A i \in 1 .. Len(events[conn[c]]) :
        conn[c] \in Session => i \in 1 .. Len(events'[conn[c]])
                               /\ events'[conn[c]][i] = events[conn[c]][i]
  BY <1>4
<1>7. link[c] = "up" /\ InFlight(c, g) => InFlight(c, g)'
  <2> SUFFICES ASSUME link[c] = "up", InFlight(c, g) PROVE InFlight(c, g)'
    OBVIOUS
  <2>0. conn[c] \in Session
    BY <1>0 DEF Joined
  <2>1. CASE \E i \in 1 .. Len(wire[c]) : wire[c][i] = Alive(g)
    <3>1. PICK i \in 1 .. Len(wire[c]) : wire[c][i] = Alive(g)
      BY <2>1
    <3>2. CASE c # e
      BY <1>5, <3>1, <3>2 DEF InFlight
    <3>3. CASE c = e /\ i = 1
      <4>1. Head(wire[c]) = Alive(g)
        BY <1>3, <3>1, <3>3
      <4>2. QED
        BY <1>1, <1>4, <3>3, <4>1 DEF InFlight, Alive
    <3>4. CASE c = e /\ i # 1
      <4>1. i - 1 \in 1 .. Len(wire'[c]) /\ wire'[c][i - 1] = wire[c][i]
        BY <1>5, <3>1, <3>4
      <4>2. \E j \in 1 .. Len(wire'[c]) : wire'[c][j] = Alive(g)
        BY <3>1, <4>1
      <4>3. QED
        BY <4>2 DEF InFlight
    <3>5. QED
      BY <3>2, <3>3, <3>4
  <2>2. CASE \E i \in 1 .. Len(events[conn[c]]) : events[conn[c]][i] = Alive(g)
    BY <1>1, <1>6, <2>0, <2>2 DEF InFlight
  <2>3. CASE session[conn[c]] = "lock" /\ job[conn[c]] = Alive(g)
    BY <1>1, <2>3 DEF InFlight
  <2>4. QED
    BY <2>1, <2>2, <2>3 DEF InFlight
<1>8. QED
  BY <1>0, <1>1, <1>7 DEF AgeOK

\* A handler takes an event off its queue, applies it to the table, or ends.
LEMMA SessionAge ==
    ASSUME PresenceInv, NEW c \in Client, NEW g \in Gateway, NEW s \in Session,
           Alone(SessionStep(s)), link[c] = "up"
    PROVE  AgeOK(c, g)'
<1>0. AgeOK(c, g) /\ conn[c] \in Session /\ conn[c] # NoSession
  BY Bounds DEF PresenceInv, Joined
<1>1. UNCHANGED <<link, lastEvent, conn, wire, quiet>> /\ SessionStep(s)
  BY DEF Alone, clientVars, vars
<1>2. CASE R!StreamCanceled(s) \/ R!SendToForwarder(s)
  <2>1. UNCHANGED <<session, job, events, owner, age>>
    BY <1>2 DEF R!StreamCanceled, R!SendToForwarder
  <2>2. QED
    BY <1>0, <1>1, <2>1 DEF AgeOK, InFlight
<1>3. CASE R!SendFails(s) \/ R!TakeClosed(s)
  <2>1. /\ UNCHANGED <<events, owner, age>> /\ session[s] # "lock"
        /\ \A t \in Session \ {s} : session'[t] = session[t] /\ job'[t] = job[t]
    BY <1>3, Types DEF R!SendFails, R!TakeClosed
  <2>2. InFlight(c, g) => InFlight(c, g)'
    BY <1>0, <1>1, <2>1 DEF InFlight
  <2>3. QED
    BY <1>0, <1>1, <2>1, <2>2, AgeUntouched
<1>4. CASE R!TakeEvent(s)
  <2>1. /\ UNCHANGED <<owner, age>> /\ session[s] = "select" /\ events[s] # <<>>
        /\ events' = [events EXCEPT ![s] = Tail(@)]
        /\ \A t \in Session \ {s} : session'[t] = session[t] /\ job'[t] = job[t]
    BY <1>4, Types DEF R!TakeEvent
  <2>2. Head(events[s]) = Alive(g) => session'[s] = "lock" /\ job'[s] = Alive(g)
    BY <1>4, Types DEF R!TakeEvent, Alive
  <2>3. events[s] \in Seq(R!ForwarderEvent)
    BY Types
  <2>4. \A i \in 1 .. Len(events[s]) :
          \/ events[s][i] = Head(events[s])
          \/ (i - 1 \in 1 .. Len(Tail(events[s])) /\ Tail(events[s])[i - 1] = events[s][i])
    BY <2>1, <2>3
  <2>5. events'[s] = Tail(events[s]) /\ \A t \in Session \ {s} : events'[t] = events[t]
    BY <2>1, Types
  <2>6. InFlight(c, g) => InFlight(c, g)'
    <3>1. CASE conn[c] # s
      BY <1>0, <1>1, <2>1, <2>5, <3>1 DEF InFlight
    <3>2. CASE conn[c] = s
      <4>1. ASSUME NEW i \in 1 .. Len(events[s]), events[s][i] = Alive(g)
            PROVE  InFlight(c, g)'
        <5>1. CASE events[s][i] = Head(events[s])
          BY <1>1, <2>2, <3>2, <4>1, <5>1 DEF InFlight, Alive
        <5>2. CASE i - 1 \in 1 .. Len(Tail(events[s])) /\ Tail(events[s])[i - 1] = events[s][i]
          BY <1>1, <2>5, <3>2, <4>1, <5>2 DEF InFlight, Alive
        <5>3. QED
          BY <2>4, <5>1, <5>2
      <4>2. (\E i \in 1 .. Len(wire[c]) : wire[c][i] = Alive(g)) => InFlight(c, g)'
        BY <1>1 DEF InFlight, Alive
      <4>3. QED
        BY <2>1, <3>2, <4>1, <4>2 DEF InFlight
    <3>3. QED
      BY <3>1, <3>2
  <2>7. QED
    BY <1>0, <1>1, <2>1, <2>6, AgeUntouched
<1>5. CASE R!gatewayOnline(s)
  <2> DEFINE h == job[s].gw
  <2>1. /\ session[s] = "lock" /\ job[s].kind = "alive" /\ UNCHANGED events
        /\ owner' = [owner EXCEPT ![h] = s] /\ age' = [age EXCEPT ![h] = 0]
        /\ \A t \in Session \ {s} : session'[t] = session[t] /\ job'[t] = job[t]
    BY <1>5, Types DEF R!gatewayOnline, R!Locked
  <2>2. CASE g = h
    <3>1. owner'[g] = s /\ age'[g] = 0
      BY <2>1, <2>2, Types
    <3>2. 0 <= KeepAlive + quiet[c][g] /\ \A n \in 0 .. KeepAlive : 0 <= n
      BY Bounds, Types DEF PresenceTypeOK
    <3>3. QED
      BY <1>1, <3>1, <3>2 DEF AgeOK
  <2>3. CASE g # h
    <3>1. owner'[g] = owner[g] /\ age'[g] = age[g]
      BY <2>1, <2>3, Types
    <3>2. job[s] # Alive(g)
      BY <2>3 DEF Alive
    <3>3. InFlight(c, g) => InFlight(c, g)'
      BY <1>0, <1>1, <2>1, <3>2 DEF InFlight
    <3>4. QED
      BY <1>0, <1>1, <3>1, <3>3, AgeUntouched
  <2>4. QED
    BY <2>2, <2>3
<1>6. CASE R!gatewayOffline(s) \/ R!allGatewaysOffline(s)
  <2>1. /\ job[s].kind # "alive" /\ UNCHANGED events
        /\ \A t \in Session \ {s} : session'[t] = session[t] /\ job'[t] = job[t]
    BY <1>6, Types DEF R!gatewayOffline, R!allGatewaysOffline, R!Locked
  <2>2. owner'[g] = NoSession \/ (owner'[g] = owner[g] /\ age'[g] = age[g])
    BY <1>6 DEF R!gatewayOffline, R!allGatewaysOffline, R!Remove
  <2>3. job[s] # Alive(g)
    BY <2>1 DEF Alive
  <2>4. InFlight(c, g) => InFlight(c, g)'
    BY <1>0, <1>1, <2>1, <2>3 DEF InFlight
  <2>5. QED
    BY <1>0, <1>1, <2>2, <2>4, AgeUntouched
<1>7. QED
  BY <1>1, <1>2, <1>3, <1>4, <1>5, <1>6 DEF SessionStep, R!ApplyJob

\* Every step keeps the age of every entry in bounds.
LEMMA AgeKept ==
    ASSUME PresenceInv, [PresenceNext]_presenceVars, NEW c \in Client, NEW g \in Gateway
    PROVE  AgeOK(c, g)'
<1>0. AgeOK(c, g) /\ Joined(c)
  BY DEF PresenceInv
<1>1. CASE \E e \in Client : \/ \E s \in Session : OpenSession(e, s)
                             \/ BreakStream(e) \/ NoticeBreak(e)
                             \/ \E h \in Gateway : Uplink(e, h) \/ Online(e, h) \/ Offline(e, h)
                             \/ Receive(e)
  BY <1>1, ConnectionAge, ClientAge, ReceiveAge
<1>2. CASE MinutePasses
  BY <1>2, MinuteAge
<1>3. CASE RouterStep /\ link[c] # "up"
  BY <1>3 DEF RouterStep, Alone, clientVars, vars, AgeOK
<1>4. CASE RouterStep /\ link[c] = "up"
  <2>1. CASE \E s \in Session : Alone(SessionStep(s))
    BY <1>4, <2>1, SessionAge
  <2>2. CASE \/ \E h \in Gateway : Alone(R!DownlinkFrame(h))
             \/ Alone(R!ForwarderSend) \/ Alone(R!cleanupTimeOutGateways)
    <3>1. UNCHANGED <<link, lastEvent, conn, wire, quiet, session, job, events>>
      BY <2>2 DEF Alone, clientVars, vars, R!DownlinkFrame, R!ForwarderSend,
                  R!cleanupTimeOutGateways
    <3>2. owner'[g] = NoSession \/ (owner'[g] = owner[g] /\ age'[g] = age[g])
      BY <2>2 DEF Alone, R!DownlinkFrame, R!ForwarderSend, R!cleanupTimeOutGateways, R!Remove
    <3>3. conn[c] # NoSession
      BY <1>0, <1>4, Bounds DEF Joined
    <3>4. QED
      BY <1>0, <3>1, <3>2, <3>3 DEF AgeOK, InFlight
  <2>3. QED
    BY <1>4, <2>1, <2>2 DEF RouterStep
<1>5. CASE UNCHANGED presenceVars
  BY <1>0, <1>5 DEF presenceVars, routerVars, clientVars, vars, AgeOK, InFlight
<1>6. QED
  BY <1>1, <1>2, <1>3, <1>4, <1>5 DEF PresenceNext

-----------------------------------------------------------------------------
\* The invariant holds initially.
LEMMA InitPresence == PresenceInit => PresenceInv
<1> SUFFICES ASSUME PresenceInit PROVE PresenceInv
  OBVIOUS
<1>1. R!TypeOK /\ ClientInv
  BY RouterTypes, ClientInit DEF PresenceInit
<1>2. PresenceTypeOK
  <2>1. wire \in [Client -> Seq(R!ForwarderEvent)]
    BY DEF PresenceInit
  <2>2. quiet \in [Client -> [Gateway -> 0 .. Silent]]
    BY Bounds DEF PresenceInit
  <2>3. QED
    BY <2>1, <2>2 DEF PresenceInit, PresenceTypeOK
<1>3. \A c \in Client : link[c] = "down" /\ conn[c] = NoSession /\ wire[c] = <<>>
  BY DEF PresenceInit, Init
<1>4. \A c \in Client : Joined(c) /\ \A g \in Gateway : AgeOK(c, g)
  BY <1>3, Bounds DEF Joined, AgeOK
<1>5. SessionsOK
  BY Bounds DEF PresenceInit, R!Init, SessionsOK
<1>6. QED
  BY <1>1, <1>2, <1>4, <1>5 DEF PresenceInv

\* Every step keeps the invariant.
LEMMA NextPresence == PresenceInv /\ [PresenceNext]_presenceVars => PresenceInv'
<1> SUFFICES ASSUME PresenceInv, [PresenceNext]_presenceVars PROVE PresenceInv'
  OBVIOUS
<1>1. [R!Next]_R!vars
  BY RouterSteps DEF PresenceInv
<1>2. R!TypeOK'
  BY <1>1, RouterTypes DEF PresenceInv
<1>3. ClientInv'
  BY ClientSteps, ClientNext DEF PresenceInv
<1>4. QED
  BY <1>1, <1>2, <1>3, PresenceTypes, JoinedKept, SessionsKept, AgeKept DEF PresenceInv

\* The invariant holds in every reachable state.
THEOREM PresenceInvariant == PresenceSpec => []PresenceInv
  BY InitPresence, NextPresence, PTL DEF PresenceSpec

\* What the router of the composition does is what Router allows, so that what
\* RouterProofs shows of the router holds here: every event on a wire is one a
\* forwarder sends, and it is received for the session of its client.
THEOREM PresenceIsRouter == PresenceSpec => R!Spec
<1>1. PresenceInit => R!Init
  BY DEF PresenceInit
<1>2. PresenceInv /\ [PresenceNext]_presenceVars => [R!Next]_R!vars
  BY RouterSteps DEF PresenceInv
<1>3. QED
  BY <1>1, <1>2, PresenceInvariant, PTL DEF PresenceSpec, R!Spec

\* What the clients do is what RouterClient allows.
THEOREM PresenceIsClient == PresenceSpec => Spec
<1>1. PresenceInit => Init
  BY DEF PresenceInit
<1>2. QED
  BY <1>1, ClientSteps, PTL DEF PresenceSpec, Spec

\* The router does not time out a gateway of the current session of a client
\* that hears of it often enough, although the client passes on only some of the
\* signs of life: an entry is never older than the keep-alive interval and the
\* time since the client last heard of the gateway.
THEOREM HeardIsKept == PresenceSpec => HeardGatewayKept
<1> DEFINE Kept == R!cleanupTimeOutGateways =>
                     \A c \in Client : \A g \in Gateway :
                       Heard(c, g) /\ Delivered(c) /\ owner[g] = conn[c] => owner'[g] = owner[g]
<1>1. PresenceInv /\ [PresenceNext]_presenceVars => [Kept]_presenceVars
  <2> SUFFICES ASSUME PresenceInv, R!cleanupTimeOutGateways, NEW c \in Client,
                      NEW g \in Gateway, Heard(c, g), Delivered(c), owner[g] = conn[c]
               PROVE  owner'[g] = owner[g]
    OBVIOUS
  <2>1. ~InFlight(c, g)
    <3>1. wire[c] = <<>> /\ events[conn[c]] = <<>> /\ session[conn[c]] # "lock"
      BY DEF Delivered, Heard
    <3>2. Len(wire[c]) = 0 /\ Len(events[conn[c]]) = 0
      BY <3>1
    <3>3. QED
      BY <3>1, <3>2 DEF InFlight
  <2>2. age[g] <= KeepAlive + quiet[c][g] /\ quiet[c][g] <= Slack
    BY <2>1 DEF PresenceInv, AgeOK, Heard
  <2>3. age[g] \in Nat /\ quiet[c][g] \in Nat
    BY Types, Bounds DEF PresenceTypeOK
  <2>4. ~(age[g] > Timeout)
    BY <2>2, <2>3, Bounds
  <2>5. QED
    BY <2>4 DEF R!cleanupTimeOutGateways, R!Remove, R!TimedOut
<1>2. QED
  BY <1>1, PresenceInvariant, PTL DEF PresenceSpec, HeardGatewayKept

\* Joined by their streams, each part keeps what is proved of it alone: the
\* router its subscriptions and its table (also for the sessions of clients that
\* went away), the clients their count of confirmations.
THEOREM PartsStaySafe ==
    PresenceSpec => [](/\ AcksAnswerRequests
                       /\ R!SubscriptionMatchesTable
                       /\ R!CleanExitLeavesNoEntry)
<1>1. /\ NoSession \notin Session /\ EventCap \in Nat \ {0} /\ ChanCap \in Nat \ {0}
      /\ Timeout \in Nat /\ MaxDownlinks \in Nat
  BY PresenceAssumption
<1>2. R!Init => RP!Init
  BY SameRouter
<1>3. [R!Next]_R!vars => [RP!Next]_RP!vars
  BY SameRouter
<1>4. RP!Init => RP!IInv
  BY <1>1, RP!InitIInv
<1>5. RP!IInv /\ [RP!Next]_RP!vars => RP!IInv'
  BY <1>1, RP!NextTypeOK, RP!NextConsistent DEF RP!IInv
<1>6. RP!IInv => R!SubscriptionMatchesTable /\ R!CleanExitLeavesNoEntry
  BY DEF RP!IInv, RP!SubscriptionMatchesTable, R!SubscriptionMatchesTable,
         RP!CleanExitLeavesNoEntry, R!CleanExitLeavesNoEntry, R!OwnedBy, RP!OwnedBy,
         R!Online, RP!Online
<1>7. QED
  BY <1>2, <1>3, <1>4, <1>5, <1>6, PresenceIsRouter, PresenceIsClient, AcksAreAnswers,
     PTL DEF R!Spec

=============================================================================
