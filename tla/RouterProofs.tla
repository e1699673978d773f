---------------------------- MODULE RouterProofs ----------------------------
(***************************************************************************)
(* Safety of the router for any number of sessions, gateways and downlinks *)
(* and any channel capacities and time-out.                                *)
(***************************************************************************)
EXTENDS Router, TLAPS

\* While the downlink callback holds the read lock, the entry it looked up is
\* still in the table.
ReadLockPinsEntry == dl.pc = "send" => owner[dl.gw] = dl.target

IInv ==
    /\ TypeOK
    /\ SubscriptionMatchesTable
    /\ CleanExitLeavesNoEntry
    /\ ReadLockPinsEntry

-----------------------------------------------------------------------------
\* Init satisfies each part of the inductive invariant.
LEMMA InitIInv == Init => IInv
<1> SUFFICES ASSUME Init PROVE IInv
  OBVIOUS
<1>1. TypeOK
  <2>1. \A s \in Session : Len(events[s]) <= EventCap /\ Len(channel[s]) <= ChanCap
    <3> SUFFICES ASSUME NEW s \in Session
                 PROVE  Len(events[s]) <= EventCap /\ Len(channel[s]) <= ChanCap
      OBVIOUS
    <3>1. events[s] = <<>> /\ channel[s] = <<>>
      BY DEF Init
    <3>2. Len(events[s]) = 0 /\ Len(channel[s]) = 0
      BY <3>1
    <3>3. QED
      BY <3>2, BoundsAssumption
  <2>2. age \in [Gateway -> 0 .. Timeout + 1] /\ issued \in 0 .. MaxDownlinks
    BY BoundsAssumption DEF Init
  <2>3. job \in [Session -> ForwarderEvent \cup {AllOffline, NoJob}]
    BY DEF Init
  <2>4. events \in [Session -> Seq(ForwarderEvent)] /\ channel \in [Session -> Seq(Gateway)]
    BY DEF Init
  <2>5. dl \in Callback
    BY DEF Init, Callback
  <2>6. session \in [Session -> {"new", "select", "lock", "closed", "failed"}]
        /\ stream \in [Session -> {"none", "open", "broken", "closed"}]
        /\ owner \in [Gateway -> Session \cup {NoSession}]
        /\ subs \in SUBSET Gateway
        /\ cleanupDue \in BOOLEAN /\ panicked \in BOOLEAN
    BY DEF Init
  <2>7. QED
    BY <2>1, <2>2, <2>3, <2>4, <2>5, <2>6 DEF TypeOK
<1>2. SubscriptionMatchesTable
  BY DEF Init, SubscriptionMatchesTable, Online
<1>3. CleanExitLeavesNoEntry
  BY DEF Init, CleanExitLeavesNoEntry
<1>4. ReadLockPinsEntry
  BY DEF Init, ReadLockPinsEntry, Idle
<1>5. QED
  BY <1>1, <1>2, <1>3, <1>4 DEF IInv

\* A job that is a forwarder event names a gateway.
LEMMA JobGateway ==
    ASSUME TypeOK, NEW s \in Session, job[s].kind \in {"alive", "offline"}
    PROVE  job[s].gw \in Gateway
<1>1. job[s] # AllOffline /\ job[s] # NoJob
  BY DEF AllOffline, NoJob
<1>2. job[s] \in ForwarderEvent
  BY <1>1 DEF TypeOK
<1>3. QED
  BY <1>2 DEF ForwarderEvent

\* Every step of the router keeps the variables in their types: no channel
\* exceeds its capacity and a job is always a complete event.
LEMMA NextTypeOK == TypeOK /\ [Next]_vars => TypeOK'
<1> SUFFICES ASSUME TypeOK, [Next]_vars PROVE TypeOK'
  OBVIOUS
<1> USE SessionAssumption, BoundsAssumption DEF TypeOK
<1>1. ASSUME NEW s \in Session, Connect(s) PROVE TypeOK'
  BY <1>1 DEF Connect
<1>2. ASSUME NEW s \in Session, NEW ev \in ForwarderEvent, StreamRecv(s, ev)
      PROVE TypeOK'
  BY <1>2 DEF StreamRecv
<1>3. ASSUME NEW s \in Session, StreamBreak(s) PROVE TypeOK'
  BY <1>3 DEF StreamBreak
<1>4. ASSUME NEW s \in Session, StreamCanceled(s) PROVE TypeOK'
  BY <1>4 DEF StreamCanceled
<1>5. ASSUME NEW s \in Session, TakeEvent(s) PROVE TypeOK'
  <2>1. Head(events[s]) \in ForwarderEvent /\ Tail(events[s]) \in Seq(ForwarderEvent)
        /\ Len(Tail(events[s])) <= EventCap
    BY <1>5 DEF TakeEvent
  <2>2. job' \in [Session -> ForwarderEvent \cup {AllOffline, NoJob}]
        /\ session' \in [Session -> {"new", "select", "lock", "closed", "failed"}]
    <3>1. CASE Head(events[s]).kind = "ack"
      BY <1>5, <3>1 DEF TakeEvent
    <3>2. CASE Head(events[s]).kind # "ack"
      <4>1. session' = [session EXCEPT ![s] = "lock"] /\ job' = [job EXCEPT ![s] = Head(events[s])]
        BY <1>5, <3>2 DEF TakeEvent
      <4>2. QED
        BY <2>1, <4>1
    <3>3. QED
      BY <3>1, <3>2
  <2>3. QED
    BY <1>5, <2>1, <2>2 DEF TakeEvent
<1>6. ASSUME NEW s \in Session, TakeClosed(s) PROVE TypeOK'
  BY <1>6 DEF TakeClosed, AllOffline
<1>7. ASSUME NEW s \in Session, gatewayOnline(s) PROVE TypeOK'
  <2>1. job[s].gw \in Gateway
    BY <1>7, JobGateway DEF gatewayOnline
  <2>2. QED
    BY <1>7, <2>1 DEF gatewayOnline, Locked
<1>8. ASSUME NEW s \in Session, gatewayOffline(s) PROVE TypeOK'
  BY <1>8 DEF gatewayOffline, Locked, Remove
<1>9. ASSUME NEW s \in Session, allGatewaysOffline(s) PROVE TypeOK'
  BY <1>9 DEF allGatewaysOffline, Locked, Remove, OwnedBy, NoJob
<1>10. ASSUME NEW s \in Session, SendToForwarder(s) PROVE TypeOK'
  BY <1>10 DEF SendToForwarder
<1>11. ASSUME NEW s \in Session, SendFails(s) PROVE TypeOK'
  BY <1>11 DEF SendFails
<1>12. ASSUME NEW g \in Gateway, DownlinkFrame(g) PROVE TypeOK'
  BY <1>12 DEF DownlinkFrame, Callback, Idle
<1>13. ASSUME ForwarderSend PROVE TypeOK'
  <2>1. dl.gw \in Gateway /\ dl.target \in Session
    BY <1>13 DEF ForwarderSend, Callback, Idle
  <2>2. dl' \in Callback
    BY <1>13 DEF ForwarderSend, Callback
  <2>3. CASE Ended(dl.target)
    BY <1>13, <2>2, <2>3 DEF ForwarderSend
  <2>4. CASE ~Ended(dl.target)
    <3>1. channel' = [channel EXCEPT ![dl.target] = Append(@, dl.gw)]
          /\ Len(channel[dl.target]) < ChanCap /\ panicked' = panicked
      BY <1>13, <2>4 DEF ForwarderSend
    <3>2. channel' \in [Session -> Seq(Gateway)]
      BY <2>1, <3>1
    <3>3. \A s \in Session : Len(channel'[s]) <= ChanCap
      BY <2>1, <3>1
    <3>4. QED
      BY <1>13, <2>2, <3>1, <3>2, <3>3 DEF ForwarderSend
  <2>5. QED
    BY <2>3, <2>4
<1>14. ASSUME Tick PROVE TypeOK'
  BY <1>14 DEF Tick
<1>15. ASSUME cleanupTimeOutGateways PROVE TypeOK'
  <2>1. owner' \in [Gateway -> Session \cup {NoSession}]
        /\ age' \in [Gateway -> 0 .. Timeout + 1] /\ subs' \in SUBSET Gateway
    BY <1>15 DEF cleanupTimeOutGateways, Remove
  <2>2. cleanupDue' \in BOOLEAN
    BY <1>15 DEF cleanupTimeOutGateways
  <2>3. QED
    BY <1>15, <2>1, <2>2 DEF cleanupTimeOutGateways
<1>16. CASE UNCHANGED vars
  BY <1>16 DEF vars
<1>17. QED
  BY <1>1, <1>2, <1>3, <1>4, <1>5, <1>6, <1>7, <1>8, <1>9, <1>10, <1>11,
     <1>12, <1>13, <1>14, <1>15, <1>16 DEF Next, SessionStep

-----------------------------------------------------------------------------
\* The table, the subscriptions and the look-up of the downlink callback stay
\* consistent: one step per group of actions that treat them alike.
LEMMA NextConsistent ==
    IInv /\ [Next]_vars =>
        /\ SubscriptionMatchesTable'
        /\ CleanExitLeavesNoEntry'
        /\ ReadLockPinsEntry'
<1> SUFFICES ASSUME IInv, [Next]_vars
             PROVE  /\ SubscriptionMatchesTable'
                    /\ CleanExitLeavesNoEntry'
                    /\ ReadLockPinsEntry'
  OBVIOUS
<1> USE SessionAssumption
<1> DEFINE Goal == /\ SubscriptionMatchesTable
                   /\ CleanExitLeavesNoEntry
                   /\ ReadLockPinsEntry
<1>0. TypeOK /\ Goal
  BY DEF IInv
<1>1. ASSUME UNCHANGED <<owner, subs, dl>>,
             \A s \in Session : session'[s] = "closed" => session[s] = "closed"
      PROVE  Goal'
  BY <1>0, <1>1 DEF SubscriptionMatchesTable, CleanExitLeavesNoEntry,
                    ReadLockPinsEntry, Online, OwnedBy
<1>2. ASSUME NEW S \in SUBSET Gateway, Remove(S), LockFree, UNCHANGED dl
      PROVE  SubscriptionMatchesTable' /\ ReadLockPinsEntry'
             /\ \A s \in Session : OwnedBy(s)' = OwnedBy(s) \ S
  <2>1. SubscriptionMatchesTable'
    BY <1>0, <1>2 DEF SubscriptionMatchesTable, Remove, Online, TypeOK
  <2>2. ReadLockPinsEntry'
    BY <1>2 DEF ReadLockPinsEntry, LockFree
  <2>3. \A s \in Session : OwnedBy(s)' = OwnedBy(s) \ S
    BY <1>2 DEF OwnedBy, Remove
  <2>4. QED
    BY <2>1, <2>2, <2>3
<1>3. ASSUME NEW s \in Session, SessionStep(s) PROVE Goal'
  <2>1. CASE \/ Connect(s) \/ TakeEvent(s) \/ TakeClosed(s) \/ SendFails(s)
    <3>1. session' = session \/ \E v \in {"select", "lock", "failed"} :
                                  session' = [session EXCEPT ![s] = v]
      BY <2>1 DEF Connect, TakeEvent, TakeClosed, SendFails
    <3>2. \A t \in Session : session'[t] = "closed" => session[t] = "closed"
      BY <1>0, <3>1 DEF TypeOK
    <3>3. UNCHANGED <<owner, subs, dl>>
      BY <2>1 DEF Connect, TakeEvent, TakeClosed, SendFails
    <3>4. QED
      BY <1>1, <3>2, <3>3
  <2>2. CASE \/ \E ev \in ForwarderEvent : StreamRecv(s, ev)
             \/ StreamBreak(s) \/ StreamCanceled(s) \/ SendToForwarder(s)
    <3>1. UNCHANGED <<session, owner, subs, dl>>
      BY <2>2 DEF StreamRecv, StreamBreak, StreamCanceled, SendToForwarder
    <3>2. QED
      BY <1>1, <3>1
  <2>3. CASE gatewayOnline(s)
    <3>1. job[s].gw \in Gateway
      BY <1>0, <2>3, JobGateway DEF gatewayOnline
    <3>2. SubscriptionMatchesTable'
      BY <1>0, <2>3, <3>1 DEF SubscriptionMatchesTable, gatewayOnline, Online, TypeOK
    <3>3. ReadLockPinsEntry'
      BY <2>3 DEF ReadLockPinsEntry, gatewayOnline, Locked, LockFree
    <3>4. CleanExitLeavesNoEntry'
      <4> SUFFICES ASSUME NEW t \in Session, session'[t] = "closed"
                   PROVE  OwnedBy(t)' = {}
        BY DEF CleanExitLeavesNoEntry
      <4>1. t # s /\ session[t] = "closed"
        BY <1>0, <2>3 DEF gatewayOnline, TypeOK
      <4>2. OwnedBy(t)' \subseteq OwnedBy(t)
        BY <1>0, <2>3, <3>1, <4>1 DEF gatewayOnline, OwnedBy, TypeOK
      <4>3. QED
        BY <1>0, <4>1, <4>2 DEF CleanExitLeavesNoEntry
    <3>5. QED
      BY <3>2, <3>3, <3>4
  <2>4. CASE gatewayOffline(s)
    <3>1. job[s].gw \in Gateway
      BY <1>0, <2>4, JobGateway DEF gatewayOffline
    <3>2. Remove({job[s].gw}) /\ LockFree /\ UNCHANGED dl
      BY <2>4 DEF gatewayOffline, Locked
    <3>3. SubscriptionMatchesTable' /\ ReadLockPinsEntry'
          /\ \A t \in Session : OwnedBy(t)' \subseteq OwnedBy(t)
      BY <1>2, <3>1, <3>2
    <3>4. \A t \in Session : session'[t] = "closed" => session[t] = "closed"
      BY <1>0, <2>4 DEF gatewayOffline, TypeOK
    <3>5. CleanExitLeavesNoEntry'
      BY <1>0, <3>3, <3>4 DEF CleanExitLeavesNoEntry
    <3>6. QED
      BY <3>3, <3>5
  <2>5. CASE allGatewaysOffline(s)
    <3>1. Remove(OwnedBy(s)) /\ LockFree /\ UNCHANGED dl /\ OwnedBy(s) \in SUBSET Gateway
      BY <2>5 DEF allGatewaysOffline, Locked, OwnedBy
    <3>2. SubscriptionMatchesTable' /\ ReadLockPinsEntry'
          /\ \A t \in Session : OwnedBy(t)' = OwnedBy(t) \ OwnedBy(s)
      BY <1>2, <3>1
    <3>3. \A t \in Session : session'[t] = "closed" => t = s \/ session[t] = "closed"
      BY <1>0, <2>5 DEF allGatewaysOffline, TypeOK
    <3>4. CleanExitLeavesNoEntry'
      BY <1>0, <3>2, <3>3 DEF CleanExitLeavesNoEntry
    <3>5. QED
      BY <3>2, <3>4
  <2>6. QED
    BY <1>3, <2>1, <2>2, <2>3, <2>4, <2>5 DEF SessionStep
<1>4. ASSUME NEW g \in Gateway, DownlinkFrame(g) PROVE Goal'
  <2>1. ReadLockPinsEntry'
    BY <1>0, <1>4 DEF DownlinkFrame, ReadLockPinsEntry, Idle
  <2>2. UNCHANGED <<session, owner, subs>>
    BY <1>4 DEF DownlinkFrame
  <2>3. SubscriptionMatchesTable' /\ CleanExitLeavesNoEntry'
    BY <1>0, <2>2 DEF SubscriptionMatchesTable, CleanExitLeavesNoEntry, Online, OwnedBy
  <2>4. QED
    BY <2>1, <2>3
<1>5. ASSUME ForwarderSend PROVE Goal'
  <2>1. ReadLockPinsEntry'
    BY <1>5 DEF ForwarderSend, ReadLockPinsEntry, Idle
  <2>2. UNCHANGED <<session, owner, subs>>
    BY <1>5 DEF ForwarderSend
  <2>3. SubscriptionMatchesTable' /\ CleanExitLeavesNoEntry'
    BY <1>0, <2>2 DEF SubscriptionMatchesTable, CleanExitLeavesNoEntry, Online, OwnedBy
  <2>4. QED
    BY <2>1, <2>3
<1>6. ASSUME Tick PROVE Goal'
  BY <1>1, <1>6 DEF Tick
<1>7. ASSUME cleanupTimeOutGateways PROVE Goal'
  <2>1. Remove(TimedOut) /\ LockFree /\ UNCHANGED <<dl, session>> /\ TimedOut \in SUBSET Gateway
    BY <1>7 DEF cleanupTimeOutGateways, TimedOut, Online
  <2>2. SubscriptionMatchesTable' /\ ReadLockPinsEntry'
        /\ \A t \in Session : OwnedBy(t)' \subseteq OwnedBy(t)
    BY <1>2, <2>1
  <2>3. CleanExitLeavesNoEntry'
    BY <1>0, <2>1, <2>2 DEF CleanExitLeavesNoEntry
  <2>4. QED
    BY <2>2, <2>3
<1>8. CASE UNCHANGED vars
  BY <1>1, <1>8 DEF vars
<1>9. QED
  BY <1>3, <1>4, <1>5, <1>6, <1>7, <1>8 DEF Next

-----------------------------------------------------------------------------
\* The inductive invariant holds in every reachable state of the router.
THEOREM RouterInvariant == Spec => []IInv
<1>1. IInv /\ [Next]_vars => IInv'
  BY NextTypeOK, NextConsistent DEF IInv
<1>2. QED
  BY InitIInv, <1>1, PTL DEF Spec

\* Every variable of the router keeps its type, and no channel exceeds its
\* capacity, for all capacities.
THEOREM RouterTypeOK == Spec => []TypeOK
<1>1. IInv => TypeOK
  BY DEF IInv
<1>2. QED
  BY RouterInvariant, <1>1, PTL

\* The integration layer is subscribed for exactly the gateways in the table
\* (gatewayOnline, gatewayOffline, allGatewaysOffline, cleanupTimeOutGateways).
THEOREM SubscriptionsFollowTable == Spec => []SubscriptionMatchesTable
<1>1. IInv => SubscriptionMatchesTable
  BY DEF IInv
<1>2. QED
  BY RouterInvariant, <1>1, PTL

\* After a forwarder disconnected and its Events handler returned, no gateway
\* is routed to its closed channel.
THEOREM CleanExit == Spec => []CleanExitLeavesNoEntry
<1>1. IInv => CleanExitLeavesNoEntry
  BY DEF IInv
<1>2. QED
  BY RouterInvariant, <1>1, PTL

\* A downlink is queued for the session that owns its gateway: only the send
\* of the callback makes a channel longer, and it holds the read lock.
THEOREM DownlinkReachesOwner == Spec => DownlinkToOwner
<1> DEFINE ToOwner(s) ==
      Len(channel'[s]) > Len(channel[s]) =>
         owner'[channel'[s][Len(channel'[s])]] = s
<1>1. ASSUME IInv, [Next]_vars, NEW s \in Session PROVE ToOwner(s)
  <2> USE DEF TypeOK
  <2>0. TypeOK /\ Len(channel[s]) \in Nat
    BY <1>1 DEF IInv
  <2>1. CASE channel' = channel
    BY <2>0, <2>1
  <2>2. ASSUME NEW t \in Session, SendToForwarder(t) PROVE ToOwner(s)
    <3>1. Len(channel'[s]) <= Len(channel[s])
      BY <2>0, <2>2 DEF SendToForwarder
    <3>2. Len(channel'[s]) \in Nat
      BY <2>0, <2>2 DEF SendToForwarder
    <3>3. QED
      BY <2>0, <3>1, <3>2
  <2>3. ASSUME NEW t \in Session, SendFails(t) \/ allGatewaysOffline(t)
        PROVE  ToOwner(s)
    <3>1. channel'[s] = channel[s] \/ channel'[s] = <<>>
      BY <2>0, <2>3 DEF SendFails, allGatewaysOffline
    <3>2. Len(<<>>) = 0
      OBVIOUS
    <3>3. QED
      BY <2>0, <3>1, <3>2
  <2>4. ASSUME ForwarderSend PROVE ToOwner(s)
    <3>1. CASE channel' = channel
      BY <2>0, <3>1
    <3>2. CASE channel' = [channel EXCEPT ![dl.target] = Append(@, dl.gw)]
      <4>1. dl.gw \in Gateway /\ dl.target \in Session
        BY <2>0, <2>4 DEF ForwarderSend, Callback, Idle
      <4>2. owner'[dl.gw] = dl.target
        BY <1>1, <2>4 DEF IInv, ReadLockPinsEntry, ForwarderSend
      <4>3. CASE s = dl.target
        <5>1. channel'[s] = Append(channel[s], dl.gw)
          BY <2>0, <3>2, <4>3
        <5>2. channel'[s][Len(channel'[s])] = dl.gw
          BY <2>0, <4>1, <5>1
        <5>3. QED
          BY <4>2, <4>3, <5>2
      <4>4. CASE s # dl.target
        BY <2>0, <3>2, <4>4
      <4>5. QED
        BY <4>3, <4>4
    <3>3. QED
      BY <2>4, <3>1, <3>2 DEF ForwarderSend
  <2>5. ASSUME NEW t \in Session, SessionStep(t) PROVE ToOwner(s)
    <3>1. \/ channel' = channel \/ SendToForwarder(t) \/ SendFails(t) \/ allGatewaysOffline(t)
      BY <2>5 DEF SessionStep, Connect, StreamRecv, StreamBreak, StreamCanceled,
                  TakeEvent, TakeClosed, gatewayOnline, gatewayOffline
    <3>2. QED
      BY <2>1, <2>2, <2>3, <3>1
  <2>6. CASE \/ \E g \in Gateway : DownlinkFrame(g)
             \/ Tick \/ cleanupTimeOutGateways \/ UNCHANGED vars
    BY <2>1, <2>6 DEF DownlinkFrame, Tick, cleanupTimeOutGateways, vars
  <2>7. QED
    BY <1>1, <2>4, <2>5, <2>6 DEF Next
<1>2. IInv /\ [Next]_vars => [\A s \in Session : ToOwner(s)]_vars
  BY <1>1
<1>3. QED
  BY RouterInvariant, <1>2, PTL DEF Spec, DownlinkToOwner

=============================================================================
