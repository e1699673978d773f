-------------------------- MODULE BroadcasterProofs --------------------------
(***************************************************************************)
(* The broadcaster implements LossyBroadcast, for any set of listeners and *)
(* any buffer size.                                                        *)
(***************************************************************************)
EXTENDS Broadcaster, TLAPS

\* Accepted messages wait in the order in which they were offered, all newer
\* than the one being handed out.
BufferOrdered ==
    /\ \A i, j \in 1 .. Len(buffer) : i < j => buffer[i] < buffer[j]
    /\ \A i \in 1 .. Len(buffer) : current < buffer[i] /\ buffer[i] <= offered
    /\ current <= offered

\* No listener got anything newer than the current message, and those that
\* are still to be served have not got the current message.
NotAhead ==
    /\ \A l \in Listener : last[l] <= current
    /\ \A l \in pending : last[l] < current

IInv == TypeOK /\ NoSendAfterUnsubscribe /\ BufferOrdered /\ NotAhead

-----------------------------------------------------------------------------
\* The initial state satisfies the invariant.
LEMMA InitIInv == Init => IInv
<1> SUFFICES ASSUME Init PROVE IInv
  OBVIOUS
<1> USE BroadcasterAssumption DEF Init
<1>0. Len(buffer) = 0 /\ buffer \in Seq(1 .. MaxMsg)
  OBVIOUS
<1>1. TypeOK
  BY <1>0 DEF TypeOK, ListenerState
<1>2. NoSendAfterUnsubscribe /\ BufferOrdered /\ NotAhead
  BY <1>0 DEF NoSendAfterUnsubscribe, BufferOrdered, NotAhead
<1>3. QED
  BY <1>1, <1>2 DEF IInv

\* Every step of a caller, a listener or the goroutine keeps the invariant.
LEMMA NextIInv == IInv /\ [Next]_vars => IInv'
<1> SUFFICES ASSUME IInv, [Next]_vars PROVE IInv'
  OBVIOUS
<1> USE BroadcasterAssumption DEF IInv, TypeOK, ListenerState
<1>1. ASSUME TryBroadcast PROVE IInv'
  <2>1. CASE Len(buffer) < BufSize
    <3>1. buffer' = Append(buffer, offered + 1) /\ offered' = offered + 1
          /\ offered + 1 \in 1 .. MaxMsg
      BY <1>1, <2>1 DEF TryBroadcast
    <3>2. Len(buffer') = Len(buffer) + 1 /\ buffer' \in Seq(1 .. MaxMsg)
      BY <3>1
    <3>3. \A i \in 1 .. Len(buffer') :
             buffer'[i] = IF i = Len(buffer) + 1 THEN offered + 1 ELSE buffer[i]
      BY <3>1
    <3>4. TypeOK' /\ NoSendAfterUnsubscribe' /\ NotAhead'
      BY <1>1, <2>1, <3>1, <3>2 DEF TryBroadcast, NoSendAfterUnsubscribe, NotAhead
    <3>5. BufferOrdered'
      BY <1>1, <3>1, <3>2, <3>3 DEF TryBroadcast, BufferOrdered
    <3>6. QED
      BY <3>4, <3>5
  <2>2. CASE ~(Len(buffer) < BufSize)
    BY <1>1, <2>2 DEF TryBroadcast, NoSendAfterUnsubscribe, BufferOrdered, NotAhead
  <2>3. QED
    BY <2>1, <2>2
<1>2. ASSUME TakeMessage PROVE IInv'
  <2>1. buffer' = Tail(buffer) /\ current' = Head(buffer) /\ Len(buffer) > 0
    BY <1>2 DEF TakeMessage
  <2>2. Len(buffer') = Len(buffer) - 1 /\ buffer' \in Seq(1 .. MaxMsg)
        /\ current' = buffer[1] /\ current' \in 1 .. MaxMsg
    BY <2>1
  <2>3. \A i \in 1 .. Len(buffer') : buffer'[i] = buffer[i + 1]
    BY <2>1, <2>2
  <2>4. BufferOrdered'
    BY <1>2, <2>1, <2>2, <2>3 DEF TakeMessage, BufferOrdered
  <2>5. NotAhead'
    BY <1>2, <2>1, <2>2 DEF TakeMessage, BufferOrdered, NotAhead
  <2>6. TypeOK' /\ NoSendAfterUnsubscribe'
    BY <1>2, <2>2 DEF TakeMessage, NoSendAfterUnsubscribe
  <2>7. QED
    BY <2>4, <2>5, <2>6
<1>3. ASSUME NEW l \in Listener,
             Subscribe(l) \/ Unsubscribe(l) \/ EnterSelect(l) \/ LeaveSelect(l)
      PROVE  IInv'
  <2>1. BufferOrdered' /\ NotAhead'
    BY <1>3 DEF Subscribe, Unsubscribe, EnterSelect, LeaveSelect, BufferOrdered, NotAhead
  <2>2. TypeOK' /\ NoSendAfterUnsubscribe'
    BY <1>3 DEF Subscribe, Unsubscribe, EnterSelect, LeaveSelect, NoSendAfterUnsubscribe
  <2>3. QED
    BY <2>1, <2>2
<1>4. ASSUME NEW l \in Listener, TakeSubscribe(l) \/ TakeUnsubscribe(l)
      PROVE  IInv'
  <2>1. BufferOrdered' /\ NotAhead'
    BY <1>4 DEF TakeSubscribe, TakeUnsubscribe, BufferOrdered, NotAhead
  <2>2. TypeOK' /\ NoSendAfterUnsubscribe'
    BY <1>4 DEF TakeSubscribe, TakeUnsubscribe, AtSelect, NoSendAfterUnsubscribe
  <2>3. QED
    BY <2>1, <2>2
<1>5. ASSUME NEW l \in Listener, broadcast(l) PROVE IInv'
  <2>1. BufferOrdered'
    BY <1>5 DEF broadcast, BufferOrdered
  <2>2. TypeOK' /\ NoSendAfterUnsubscribe' /\ NotAhead'
    <3>1. CASE state[l] = "receive"
      BY <1>5, <3>1 DEF broadcast, NoSendAfterUnsubscribe, NotAhead
    <3>2. CASE state[l] # "receive"
      BY <1>5, <3>2 DEF broadcast, NoSendAfterUnsubscribe, NotAhead
    <3>3. QED
      BY <3>1, <3>2
  <2>3. QED
    BY <2>1, <2>2
<1>6. CASE UNCHANGED vars
  BY <1>6 DEF vars, NoSendAfterUnsubscribe, BufferOrdered, NotAhead
<1>7. QED
  BY <1>1, <1>2, <1>3, <1>4, <1>5, <1>6 DEF Next

\* The inductive invariant holds in every reachable state.
THEOREM BroadcasterInvariant == Spec => []IInv
  BY InitIInv, NextIInv, PTL DEF Spec

\* The listeners, their buffers, the message being sent and the states of the
\* callers stay within their types.
THEOREM BroadcasterTypeOK == Spec => []TypeOK
<1>1. IInv => TypeOK
  BY DEF IInv
<1>2. QED
  BY BroadcasterInvariant, <1>1, PTL

\* The goroutine never sends on the channel of a listener whose Unsubscribe
\* has returned.
THEOREM NoSendAfter == Spec => []NoSendAfterUnsubscribe
<1>1. IInv => NoSendAfterUnsubscribe
  BY DEF IInv
<1>2. QED
  BY BroadcasterInvariant, <1>1, PTL

-----------------------------------------------------------------------------
\* The broadcaster implements the lossy, ordered, at-most-once broadcast: each
\* step is a step of the abstract specification or changes nothing it sees.
THEOREM Refinement == Spec => ImplementsLossyBroadcast
<1>1. Init => LB!LBInit
  BY DEF Init, LB!LBInit
<1>2. IInv /\ [Next]_vars => [LB!LBNext]_<<offered, listeners, last>>
  <2> SUFFICES ASSUME IInv, [Next]_vars
               PROVE  LB!LBNext \/ UNCHANGED <<offered, listeners, last>>
    OBVIOUS
  <2>1. ASSUME TryBroadcast PROVE LB!LBNext
    BY <2>1 DEF TryBroadcast, LB!LBNext, LB!Offer
  <2>2. ASSUME NEW l \in Listener, TakeSubscribe(l) PROVE LB!LBNext
    BY <2>2 DEF TakeSubscribe, LB!LBNext, LB!Join
  <2>3. ASSUME NEW l \in Listener, TakeUnsubscribe(l) PROVE LB!LBNext
    BY <2>3 DEF TakeUnsubscribe, LB!LBNext, LB!Leave
  <2>4. ASSUME NEW l \in Listener, broadcast(l)
        PROVE  LB!LBNext \/ UNCHANGED <<offered, listeners, last>>
    <3>1. CASE state[l] = "receive"
      <4>1. l \in listeners /\ last[l] < current /\ current <= offered
            /\ current \in 1 .. MaxMsg
        BY <2>4, BroadcasterAssumption
           DEF IInv, TypeOK, NoSendAfterUnsubscribe, BufferOrdered, NotAhead, broadcast
      <4>2. LB!Deliver(l, current)
        BY <2>4, <3>1, <4>1 DEF broadcast, LB!Deliver
      <4>3. QED
        BY <4>1, <4>2 DEF LB!LBNext
    <3>2. CASE state[l] # "receive"
      BY <2>4, <3>2 DEF broadcast
    <3>3. QED
      BY <3>1, <3>2
  <2>5. CASE \/ TakeMessage
             \/ \E l \in Listener : \/ Subscribe(l) \/ Unsubscribe(l)
                                    \/ EnterSelect(l) \/ LeaveSelect(l)
             \/ UNCHANGED vars
    BY <2>5 DEF TakeMessage, Subscribe, Unsubscribe, EnterSelect, LeaveSelect, vars
  <2>6. QED
    BY <2>1, <2>2, <2>3, <2>4, <2>5 DEF Next
<1>3. QED
  BY <1>1, <1>2, BroadcasterInvariant, PTL DEF Spec, ImplementsLossyBroadcast, LB!LBSpec

=============================================================================
