------------------------------- MODULE Router -------------------------------
(***************************************************************************)
(* The router process (router/router.go): one Events handler per connected *)
(* forwarder, the table of gateways that are online, the read/write lock   *)
(* that guards it, the downlink callback of the integration layer and the  *)
(* per-minute clean-up of gateways that timed out.                         *)
(*                                                                         *)
(* A session is one call of Events: the code gives each call a fresh uuid, *)
(* so a forwarder that reconnects gets a new session.  The writers of the  *)
(* table never block while they hold gatewaysMu, so a critical section is  *)
(* one step that is enabled when no reader holds the lock; the only reader *)
(* (sendDownlinkFrame) can block while it holds it and takes two steps.    *)
(***************************************************************************)
EXTENDS Naturals, Sequences

CONSTANTS
    Session,        \* calls of Events, each identified by its forwarderID
    Gateway,        \* network ids of gateways
    NoSession,      \* "the gateway has no entry in the table"
    EventCap,       \* capacity of receivedForwarderEvents (4096 in the code)
    ChanCap,        \* capacity of integrationEvents (256 in the code)
    Timeout,        \* minutes without a sign of life (5 in the code)
    MaxDownlinks    \* bound: downlinks the integration layer sends

ASSUME SessionAssumption == NoSession \notin Session

ASSUME BoundsAssumption ==
    /\ EventCap \in Nat \ {0}
    /\ ChanCap \in Nat \ {0}
    /\ Timeout \in Nat
    /\ MaxDownlinks \in Nat

VARIABLES
    session,     \* where each Events handler is
    job,         \* the forwarder event a handler waits to apply under the lock
    stream,      \* the gRPC stream and the goroutine that reads it
    events,      \* receivedForwarderEvents of each session
    channel,     \* integrationEvents of each session: downlinks, by gateway
    owner,       \* gateways: the session in the entry of each gateway
    age,         \* gateways: clean-up ticks since the entry's lastSeen, 0 without entry
    subs,        \* gateways the integration layer is subscribed for
    dl,          \* the integration layer's downlink callback
    issued,      \* number of downlinks the integration layer has sent
    cleanupDue,  \* the clean-up ticker has fired
    panicked     \* a goroutine panicked: the process is gone

vars == <<session, job, stream, events, channel, owner, age, subs,
          dl, issued, cleanupDue, panicked>>

-----------------------------------------------------------------------------
(* Types                                                                   *)

\* An uplink frame and an online status are both a sign of life.
ForwarderEvent == [kind : {"alive", "offline", "ack"}, gw : Gateway]

AllOffline == [kind |-> "allOffline"]
NoJob == [kind |-> "none"]

Idle == [pc |-> "idle"]

\* The downlink callback either is idle or holds the read lock while it sends.
Callback ==
    {Idle} \cup [pc : {"send"}, gw : Gateway, target : Session]

TypeOK ==
    /\ session \in [Session -> {"new", "select", "lock", "closed", "failed"}]
    /\ job \in [Session -> ForwarderEvent \cup {AllOffline, NoJob}]
    /\ stream \in [Session -> {"none", "open", "broken", "closed"}]
    /\ events \in [Session -> Seq(ForwarderEvent)]
    /\ channel \in [Session -> Seq(Gateway)]
    /\ \A s \in Session : Len(events[s]) <= EventCap /\ Len(channel[s]) <= ChanCap
    /\ owner \in [Gateway -> Session \cup {NoSession}]
    /\ age \in [Gateway -> 0 .. Timeout + 1]
    /\ subs \in SUBSET Gateway
    /\ dl \in Callback
    /\ issued \in 0 .. MaxDownlinks
    /\ cleanupDue \in BOOLEAN
    /\ panicked \in BOOLEAN

-----------------------------------------------------------------------------
(* Helpers                                                                 *)

Online == {g \in Gateway : owner[g] # NoSession}
OwnedBy(s) == {g \in Gateway : owner[g] = s}
Ended(s) == session[s] \in {"closed", "failed"}

\* Mutant: the read lock is released before the send on the channel.
LockFreeEarly == TRUE

\* gatewaysMu is free for a writer: the downlink callback does not hold it.
LockFree == dl.pc # "send"

\* Mutant: the entry goes but the subscription is left enabled.
RemoveOnlyEntry(S) ==
    /\ owner' = [g \in Gateway |-> IF g \in S THEN NoSession ELSE owner[g]]
    /\ age' = [g \in Gateway |-> IF g \in S THEN 0 ELSE age[g]]
    /\ UNCHANGED subs

\* Remove the entries of the gateways in S and disable their subscriptions.
Remove(S) ==
    /\ owner' = [g \in Gateway |-> IF g \in S THEN NoSession ELSE owner[g]]
    /\ subs' = subs \ S
    /\ age' = [g \in Gateway |-> IF g \in S THEN 0 ELSE age[g]]

-----------------------------------------------------------------------------
Init ==
    /\ session = [s \in Session |-> "new"]
    /\ job = [s \in Session |-> NoJob]
    /\ stream = [s \in Session |-> "none"]
    /\ events = [s \in Session |-> <<>>]
    /\ channel = [s \in Session |-> <<>>]
    /\ owner = [g \in Gateway |-> NoSession]
    /\ age = [g \in Gateway |-> 0]
    /\ subs = {}
    /\ dl = Idle
    /\ issued = 0
    /\ cleanupDue = FALSE
    /\ panicked = FALSE

-----------------------------------------------------------------------------
(* The stream of a forwarder and the goroutine that reads it               *)

\* A forwarder calls Events.
Connect(s) ==
    /\ session[s] = "new"
    /\ session' = [session EXCEPT ![s] = "select"]
    /\ stream' = [stream EXCEPT ![s] = "open"]
    /\ UNCHANGED <<job, events, channel, owner, age, subs, dl, issued,
                   cleanupDue, panicked>>

\* Mutant: the goroutine does not wait for a free slot.
StreamRecvNoWait(s, ev) ==
    /\ stream[s] = "open"
    /\ Len(events[s]) <= EventCap
    /\ events' = [events EXCEPT ![s] = Append(@, ev)]
    /\ UNCHANGED <<session, job, stream, channel, owner, age, subs, dl, issued,
                   cleanupDue, panicked>>

\* forwarderEventStream: Recv returned an event, put it on the channel; the
\* goroutine blocks while the channel is full.
StreamRecv(s, ev) ==
    /\ stream[s] = "open"
    /\ Len(events[s]) < EventCap
    /\ events' = [events EXCEPT ![s] = Append(@, ev)]
    /\ UNCHANGED <<session, job, stream, channel, owner, age, subs, dl, issued,
                   cleanupDue, panicked>>

\* The connection with the forwarder is lost.
StreamBreak(s) ==
    /\ stream[s] = "open"
    /\ stream' = [stream EXCEPT ![s] = "broken"]
    /\ UNCHANGED <<session, job, events, channel, owner, age, subs, dl, issued,
                   cleanupDue, panicked>>

\* forwarderEventStream: Recv returned Canceled, close the channel.
StreamCanceled(s) ==
    /\ stream[s] = "broken"
    /\ stream' = [stream EXCEPT ![s] = "closed"]
    /\ UNCHANGED <<session, job, events, channel, owner, age, subs, dl, issued,
                   cleanupDue, panicked>>

-----------------------------------------------------------------------------
(* The Events handler                                                      *)

\* Take an event of the forwarder.  An uplink is published and then counts as
\* a sign of life, even if publishing failed or the frame was dropped; an ack
\* is published and touches nothing here (nor does an event that is skipped
\* because its gateway id does not decode or its type is not supported).
\* Assumed of forwarders: the public key of an event has 33 bytes, as those of
\* this repository send it; the handler slices it before it checks for errors.
TakeEvent(s) ==
    /\ session[s] = "select"
    /\ events[s] # <<>>
    /\ events' = [events EXCEPT ![s] = Tail(@)]
    /\ IF Head(events[s]).kind = "ack"
       THEN UNCHANGED <<session, job>>
       ELSE /\ session' = [session EXCEPT ![s] = "lock"]
            /\ job' = [job EXCEPT ![s] = Head(events[s])]
    /\ UNCHANGED <<stream, channel, owner, age, subs, dl, issued, cleanupDue,
                   panicked>>

\* The channel with events of the forwarder is drained and closed.
TakeClosed(s) ==
    /\ session[s] = "select"
    /\ events[s] = <<>>
    /\ stream[s] = "closed"
    /\ session' = [session EXCEPT ![s] = "lock"]
    /\ job' = [job EXCEPT ![s] = AllOffline]
    /\ UNCHANGED <<stream, events, channel, owner, age, subs, dl, issued,
                   cleanupDue, panicked>>

\* The handler has the write lock and applies its job to the table.
Locked(s) ==
    /\ session[s] = "lock"
    /\ LockFree
    /\ job' = [job EXCEPT ![s] = NoJob]

gatewayOnline(s) ==
    /\ Locked(s)
    /\ job[s].kind = "alive"
    /\ owner' = [owner EXCEPT ![job[s].gw] = s]
    /\ age' = [age EXCEPT ![job[s].gw] = 0]
    /\ subs' = subs \cup {job[s].gw}
    /\ session' = [session EXCEPT ![s] = "select"]
    /\ UNCHANGED <<stream, events, channel, dl, issued, cleanupDue, panicked>>

\* The entry goes, whichever session owns it.
gatewayOffline(s) ==
    /\ Locked(s)
    /\ job[s].kind = "offline"
    /\ Remove({job[s].gw})
    /\ session' = [session EXCEPT ![s] = "select"]
    /\ UNCHANGED <<stream, events, channel, dl, issued, cleanupDue, panicked>>

\* Mutant: the handler returns without cleaning up.
allGatewaysOfflineSkipped(s) ==
    /\ Locked(s)
    /\ job[s].kind = "allOffline"
    /\ session' = [session EXCEPT ![s] = "closed"]
    /\ channel' = [channel EXCEPT ![s] = <<>>]
    /\ UNCHANGED <<stream, events, owner, age, subs, dl, issued, cleanupDue,
                   panicked>>

\* The last thing a handler does when its forwarder disconnected; the deferred
\* close of integrationEvents discards what it still holds.
allGatewaysOffline(s) ==
    /\ Locked(s)
    /\ job[s].kind = "allOffline"
    /\ Remove(OwnedBy(s))
    /\ session' = [session EXCEPT ![s] = "closed"]
    /\ channel' = [channel EXCEPT ![s] = <<>>]
    /\ UNCHANGED <<stream, events, dl, issued, cleanupDue, panicked>>

\* Take an event of the integration layer and write it to the stream.
SendToForwarder(s) ==
    /\ session[s] = "select"
    /\ channel[s] # <<>>
    /\ stream[s] = "open"
    /\ channel' = [channel EXCEPT ![s] = Tail(@)]
    /\ UNCHANGED <<session, job, stream, events, owner, age, subs, dl, issued,
                   cleanupDue, panicked>>

\* Send fails: the handler returns, which closes integrationEvents but leaves
\* the gateways of this forwarder in the table.  gRPC cancels the stream.
SendFails(s) ==
    /\ session[s] = "select"
    /\ channel[s] # <<>>
    /\ stream[s] \in {"broken", "closed"}
    /\ session' = [session EXCEPT ![s] = "failed"]
    /\ channel' = [channel EXCEPT ![s] = <<>>]
    /\ UNCHANGED <<job, stream, events, owner, age, subs, dl, issued,
                   cleanupDue, panicked>>

-----------------------------------------------------------------------------
(* The downlink callback                                                   *)

\* sendDownlinkFrame takes the read lock and looks the gateway up; without an
\* entry it returns at once and the downlink is dropped.
DownlinkFrame(g) ==
    /\ dl = Idle
    /\ issued < MaxDownlinks
    /\ issued' = issued + 1
    /\ dl' = IF owner[g] = NoSession THEN Idle
             ELSE [pc |-> "send", gw |-> g, target |-> owner[g]]
    /\ UNCHANGED <<session, job, stream, events, channel, owner, age, subs,
                   cleanupDue, panicked>>

\* Mutant: the channel has one slot less.
ForwarderSendSmall ==
    /\ dl.pc = "send"
    /\ \/ /\ ~Ended(dl.target)
          /\ Len(channel[dl.target]) < ChanCap - 1
          /\ channel' = [channel EXCEPT ![dl.target] = Append(@, dl.gw)]
          /\ UNCHANGED panicked
       \/ /\ Ended(dl.target)
          /\ panicked' = TRUE
          /\ UNCHANGED channel
    /\ dl' = Idle
    /\ UNCHANGED <<session, job, stream, events, owner, age, subs, issued,
                   cleanupDue>>

\* gateway.forwarder <- event, with the read lock held: blocks while the
\* channel is full, panics when it is closed, and releases the lock after it.
ForwarderSend ==
    /\ dl.pc = "send"
    /\ \/ /\ ~Ended(dl.target)
          /\ Len(channel[dl.target]) < ChanCap
          /\ channel' = [channel EXCEPT ![dl.target] = Append(@, dl.gw)]
          /\ UNCHANGED panicked
       \/ /\ Ended(dl.target)
          /\ panicked' = TRUE
          /\ UNCHANGED channel
    /\ dl' = Idle
    /\ UNCHANGED <<session, job, stream, events, owner, age, subs, issued,
                   cleanupDue>>

-----------------------------------------------------------------------------
(* Time                                                                    *)

\* A minute passes and the clean-up ticker fires (it keeps one tick at most).
Tick ==
    /\ age' = [g \in Gateway |-> IF g \in Online /\ age[g] <= Timeout
                                THEN age[g] + 1 ELSE age[g]]
    /\ cleanupDue' = TRUE
    /\ UNCHANGED <<session, job, stream, events, channel, owner, subs, dl,
                   issued, panicked>>

\* Mutant: off by one, with age never more than Timeout + 1.
TimedOutLate == {g \in Online : age[g] > Timeout + 1}

\* The gateways whose last sign of life is more than Timeout minutes ago.
TimedOut == {g \in Online : age[g] > Timeout}

cleanupTimeOutGateways ==
    /\ cleanupDue
    /\ LockFree
    /\ Remove(TimedOut)
    /\ cleanupDue' = FALSE
    /\ UNCHANGED <<session, job, stream, events, channel, dl, issued,
                   panicked>>

-----------------------------------------------------------------------------
SessionStep(s) ==
    \/ Connect(s)
    \/ \E ev \in ForwarderEvent : StreamRecv(s, ev)
    \/ StreamBreak(s)
    \/ StreamCanceled(s)
    \/ TakeEvent(s)
    \/ TakeClosed(s)
    \/ gatewayOnline(s)
    \/ gatewayOffline(s)
    \/ allGatewaysOffline(s)
    \/ SendToForwarder(s)
    \/ SendFails(s)

Next ==
    /\ ~panicked
    /\ \/ \E s \in Session : SessionStep(s)
       \/ \E g \in Gateway : DownlinkFrame(g)
       \/ ForwarderSend
       \/ Tick
       \/ cleanupTimeOutGateways

Spec == Init /\ [][Next]_vars

\* The steps of a handler that apply its job under the write lock.
ApplyJob(s) == gatewayOnline(s) \/ gatewayOffline(s) \/ allGatewaysOffline(s)

\* What the properties need of the Go scheduler, which runs every goroutine that
\* can run: a handler in its select that has a downlink to write does not wait
\* for ever, nor does a sender for whom there is a free slot; the ticker fires; and
\* sync.RWMutex does not starve the clean-up.  Nothing is assumed of forwarders,
\* connections, the integration layer, or what handlers do with events.
Fairness ==
    /\ \A s \in Session : WF_vars(~panicked /\ (SendToForwarder(s) \/ SendFails(s)))
    /\ WF_vars(~panicked /\ ForwarderSend)
    /\ WF_vars(~panicked /\ Tick)
    /\ SF_vars(~panicked /\ cleanupTimeOutGateways)

FairSpec == Spec /\ Fairness

-----------------------------------------------------------------------------
(* Properties                                                              *)

\* The integration layer is subscribed for exactly the gateways in the table:
\* every path that adds or removes an entry (online, offline, disconnect,
\* time-out) changes the subscription with it.
SubscriptionMatchesTable == subs = Online

\* A session that ended because its forwarder disconnected has no entry left,
\* whatever was still queued for it and whoever raced with it for the lock.
CleanExitLeavesNoEntry ==
    \A s \in Session : session[s] = "closed" => OwnedBy(s) = {}

\* A downlink enters the channel of the session that owns its gateway at that
\* moment: the table cannot change between the look-up and the send, because
\* sendDownlinkFrame holds the read lock over both.
DownlinkToOwner ==
    [][\A s \in Session :
         Len(channel'[s]) > Len(channel[s]) =>
            owner'[channel'[s][Len(channel'[s])]] = s]_vars

\* sendDownlinkFrame waits, with the read lock, for a free slot in the channel of
\* a session whose handler, the only one that empties it, waits for the write
\* lock.  Neither can go on, nor can any other handler or the clean-up.
LockCycle ==
    /\ dl.pc = "send"
    /\ Len(channel[dl.target]) = ChanCap
    /\ session[dl.target] = "lock"

\* The entries of a session that ended do not stay: a disconnect removes them,
\* and after a failed Send the time-out does, unless the process panicked or
\* hangs in the lock cycle.
DeadSessionForgotten ==
    \A s \in Session : Ended(s) ~> (panicked \/ LockCycle \/ OwnedBy(s) = {})

\* The integration layer gets its callback back: sendDownlinkFrame, which holds
\* the read lock, does not block for ever (router.go: "It ensures that messages
\* from the integrations layer are send to the correct forwarder").
DownlinkReturns == dl.pc = "send" ~> (panicked \/ dl.pc = "idle")

\* Nothing but the lock cycle keeps the callback for ever: a full channel is
\* emptied by a handler that waits in its select, and if the connection breaks
\* meanwhile the send ends in the panic that the close of the channel causes.
BlockedOnlyInLockCycle ==
    dl.pc = "send" ~> (panicked \/ dl.pc = "idle" \/ LockCycle)

=============================================================================
