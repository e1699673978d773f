----------------------------- MODULE Broadcaster -----------------------------
(***************************************************************************)
(* forwarder/broadcast/broadcast.go: one goroutine owns the listener set   *)
(* and serves a buffered message channel and two unbuffered channels for   *)
(* Subscribe and Unsubscribe.  The channels of listeners are unbuffered    *)
(* too, and a listener that is not receiving at the moment of the send     *)
(* misses the message.  Broadcast (the blocking variant) has no caller and *)
(* the subscribe channel is never closed, so neither has an action.        *)
(***************************************************************************)
EXTENDS Naturals, Sequences

CONSTANTS
    Listener,   \* the listeners, each with its own channel
    BufSize,    \* capacity of the message channel
    MaxMsg      \* bound: number of messages offered with TryBroadcast

ASSUME BroadcasterAssumption == BufSize \in Nat \ {0} /\ MaxMsg \in Nat

VARIABLES
    buffer,     \* the message channel: numbers of accepted messages
    offered,    \* number of TryBroadcast calls, which numbers the messages
    current,    \* the message the goroutine took last
    pending,    \* listeners that broadcast(current) has not tried yet
    listeners,  \* the listener set
    state,      \* what each listener is doing
    last        \* the last message each listener got, 0 before the first

vars == <<buffer, offered, current, pending, listeners, state, last>>

\* "receive" is a listener in its select; "busy" one that is doing anything
\* else; the calls Subscribe and Unsubscribe block until they are served.
ListenerState == {"out", "subscribing", "busy", "receive", "unsubscribing"}

TypeOK ==
    /\ buffer \in Seq(1 .. MaxMsg)
    /\ Len(buffer) <= BufSize
    /\ offered \in 0 .. MaxMsg
    /\ current \in 0 .. MaxMsg
    /\ pending \in SUBSET Listener
    /\ listeners \in SUBSET Listener
    /\ state \in [Listener -> ListenerState]
    /\ last \in [Listener -> 0 .. MaxMsg]

Init ==
    /\ buffer = <<>>
    /\ offered = 0
    /\ current = 0
    /\ pending = {}
    /\ listeners = {}
    /\ state = [l \in Listener |-> "out"]
    /\ last = [l \in Listener |-> 0]

-----------------------------------------------------------------------------
(* Callers                                                                 *)

\* Mutant: the message is accepted when the channel is full.
TryBroadcastFull ==
    /\ offered < MaxMsg
    /\ offered' = offered + 1
    /\ buffer' = Append(buffer, offered + 1)
    /\ UNCHANGED <<current, pending, listeners, state, last>>

\* The message is dropped when the channel is full.
TryBroadcast ==
    /\ offered < MaxMsg
    /\ offered' = offered + 1
    /\ buffer' = IF Len(buffer) < BufSize THEN Append(buffer, offered + 1)
                                          ELSE buffer
    /\ UNCHANGED <<current, pending, listeners, state, last>>

Subscribe(l) ==
    /\ state[l] = "out"
    /\ state' = [state EXCEPT ![l] = "subscribing"]
    /\ UNCHANGED <<buffer, offered, current, pending, listeners, last>>

Unsubscribe(l) ==
    /\ state[l] = "busy"
    /\ state' = [state EXCEPT ![l] = "unsubscribing"]
    /\ UNCHANGED <<buffer, offered, current, pending, listeners, last>>

\* The listener waits in its select, or a case other than its broadcast
\* channel was ready.
EnterSelect(l) ==
    /\ state[l] = "busy"
    /\ state' = [state EXCEPT ![l] = "receive"]
    /\ UNCHANGED <<buffer, offered, current, pending, listeners, last>>

LeaveSelect(l) ==
    /\ state[l] = "receive"
    /\ state' = [state EXCEPT ![l] = "busy"]
    /\ UNCHANGED <<buffer, offered, current, pending, listeners, last>>

-----------------------------------------------------------------------------
(* The goroutine started by Run                                            *)

AtSelect == pending = {}

\* Mutant: messages are served newest first.
TakeNewest ==
    /\ AtSelect
    /\ buffer # <<>>
    /\ current' = buffer[Len(buffer)]
    /\ buffer' = SubSeq(buffer, 1, Len(buffer) - 1)
    /\ pending' = listeners
    /\ UNCHANGED <<offered, listeners, state, last>>

TakeMessage ==
    /\ AtSelect
    /\ buffer # <<>>
    /\ current' = Head(buffer)
    /\ buffer' = Tail(buffer)
    /\ pending' = listeners
    /\ UNCHANGED <<offered, listeners, state, last>>

TakeSubscribe(l) ==
    /\ AtSelect
    /\ state[l] = "subscribing"
    /\ listeners' = listeners \cup {l}
    /\ state' = [state EXCEPT ![l] = "busy"]
    /\ UNCHANGED <<buffer, offered, current, pending, last>>

\* Mutant: the listener stays in the set.
TakeUnsubscribeKeeps(l) ==
    /\ AtSelect
    /\ state[l] = "unsubscribing"
    /\ state' = [state EXCEPT ![l] = "out"]
    /\ UNCHANGED <<buffer, offered, current, pending, listeners, last>>

TakeUnsubscribe(l) ==
    /\ AtSelect
    /\ state[l] = "unsubscribing"
    /\ listeners' = listeners \ {l}
    /\ state' = [state EXCEPT ![l] = "out"]
    /\ UNCHANGED <<buffer, offered, current, pending, last>>

\* Mutant: the send has no default case and waits for the listener.
BroadcastBlocking(l) ==
    /\ l \in pending
    /\ state[l] = "receive"
    /\ pending' = pending \ {l}
    /\ last' = [last EXCEPT ![l] = current]
    /\ state' = [state EXCEPT ![l] = "busy"]
    /\ UNCHANGED <<buffer, offered, current, listeners>>

\* One iteration of the loop in broadcast: a send that does not wait.
broadcast(l) ==
    /\ l \in pending
    /\ pending' = pending \ {l}
    /\ IF state[l] = "receive"
       THEN /\ last' = [last EXCEPT ![l] = current]
            /\ state' = [state EXCEPT ![l] = "busy"]
       ELSE UNCHANGED <<last, state>>
    /\ UNCHANGED <<buffer, offered, current, listeners>>

-----------------------------------------------------------------------------
Next ==
    \/ TryBroadcast
    \/ TakeMessage
    \/ \E l \in Listener :
         \/ Subscribe(l)
         \/ Unsubscribe(l)
         \/ EnterSelect(l)
         \/ LeaveSelect(l)
         \/ TakeSubscribe(l)
         \/ TakeUnsubscribe(l)
         \/ broadcast(l)

Spec == Init /\ [][Next]_vars

\* The goroutine runs whenever it can and its select picks at random among the
\* ready cases.  Nothing is assumed of callers and listeners.
Fairness ==
    /\ SF_vars(TakeMessage)
    /\ \A l \in Listener :
         /\ WF_vars(broadcast(l))
         /\ SF_vars(TakeSubscribe(l))
         /\ SF_vars(TakeUnsubscribe(l))

FairSpec == Spec /\ Fairness

-----------------------------------------------------------------------------
(* Properties                                                              *)

\* After Unsubscribe returned, the goroutine will not touch the channel of the
\* listener again, and a listener it still has to serve is in the set.
NoSendAfterUnsubscribe ==
    /\ pending \subseteq listeners
    /\ \A l \in Listener :
         state[l] \in {"out", "subscribing"} => l \notin listeners

\* The broadcaster implements the lossy, ordered, at-most-once broadcast: what
\* broadcast hands to a listener is newer than all it handed to it before, and
\* the listener is subscribed at that moment.
LB == INSTANCE LossyBroadcast WITH members <- listeners
ImplementsLossyBroadcast == LB!LBSpec

\* The goroutine never waits for a listener: Subscribe and Unsubscribe return
\* and accepted messages are handed out, even if no listener receives again.
CallsReturn ==
    /\ \A l \in Listener :
         /\ state[l] = "subscribing" ~> state[l] # "subscribing"
         /\ state[l] = "unsubscribing" ~> state[l] # "unsubscribing"
    /\ buffer # <<>> ~> buffer = <<>>

=============================================================================
