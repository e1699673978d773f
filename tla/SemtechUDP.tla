----------------------------- MODULE SemtechUDP -----------------------------
(***************************************************************************)
(* The Semtech UDP backend (backend/semtechudp): the registry of gateways  *)
(* that poll, the downlinks that are sent to them and tried again with the *)
(* next item when a gateway reports an error, and the shut-down.           *)
(*                                                                         *)
(* Every packet is handled in a goroutine of its own, which holds the read *)
(* lock of the backend.  Downlinks are sent by the loop of the packet      *)
(* exchange, which also calls Stop, and by goroutines of the mapper        *)
(* forwarder, each of which outlives the handler that started it and asks  *)
(* nobody before it sends; neither takes the lock.  What is known of a     *)
(* downlink is kept in a cache under its 16-bit token, as three items that *)
(* are read, written and expire one by one.  The acks of a downlink are    *)
(* one slice, made when it is sent for the first time and shared by all    *)
(* who find it in the cache, so a cached frame or slice is named by its    *)
(* downlink.                                                               *)
(***************************************************************************)
EXTENDS Naturals, FiniteSets

CONSTANTS
    Gateway,      \* gateways that talk to this backend
    Downlink,     \* downlinks of routers and mappers, each sent once
    GatewayOf,    \* the gateway that must send a downlink
    Token,        \* 16-bit tokens
    TokenOf,      \* the token of each downlink: its id modulo 2^16
    Items,        \* number of items (transmit options) of each downlink
    Handler,      \* bound: goroutines that handle a packet at the same time
    Exchange,     \* the goroutine of the packet exchange (Exchange.Run)
    Mapper,       \* goroutines of the mapper forwarder that deliver a packet
    SenderOf,     \* the goroutine that sends each downlink
    None,         \* not in the cache
    Duplicates    \* can the network deliver a TX_ACK again?

ASSUME DownlinkAssumption ==
    /\ GatewayOf \in [Downlink -> Gateway]
    /\ TokenOf \in [Downlink -> Token]
    /\ Items \in [Downlink -> Nat]
    /\ None \notin Downlink \cup Nat
    /\ Exchange \notin Handler \cup Mapper
    /\ Handler \cap Mapper = {}
    /\ SenderOf \in [Downlink -> Mapper \cup {Exchange}]
    /\ Duplicates \in BOOLEAN

VARIABLES
    registry,    \* the last poll of each gateway: none, fresh or old
    cache,       \* the cached frame, index and acks slice of each token
    status,      \* the acks slice of each downlink
    pc,          \* what each goroutine does next
    task,        \* the local variables of each goroutine
    todo,        \* downlinks that were not sent yet
    sent,        \* how often each item was written to the socket
    said,        \* what the gateway made of each item
    txacks,      \* TX_ACK packets on their way
    reports,     \* how often each downlink was reported to the exchange
    backend,     \* run, locking (Stop waits for the lock), closed, stopped
    loops,       \* readPackets and sendPackets, while they run
    panicked     \* the goroutine that panicked, and with it the process

vars == <<registry, cache, status, pc, task, todo, sent, said, txacks, reports,
          backend, loops, panicked>>

-----------------------------------------------------------------------------
Worker == Handler \cup Mapper \cup {Exchange}
ItemsOf(d) == 0 .. Items[d] - 1
ItemIndex == UNION {ItemsOf(d) : d \in Downlink}
Status == {"ignored", "ok", "error"}

\* Counters of what must happen at most once stop at 2.
More(n) == IF n < 2 THEN n + 1 ELSE 2

\* The local variables of a goroutine: the TX_ACK it handles, the frame, the
\* index of the item and the acks slice.
NoTask == [tok |-> None, err |-> FALSE, frame |-> None, index |-> None, acks |-> None]

Task == [tok : Token \cup {None}, err : BOOLEAN, frame : Downlink \cup {None},
         index : ItemIndex \cup {None}, acks : Downlink \cup {None}]

TxAck == [of : Downlink, item : ItemIndex, err : BOOLEAN]

TypeOK ==
    /\ registry \in [Gateway -> {"none", "fresh", "old"}]
    /\ cache \in [Token -> [frame : Downlink \cup {None}, index : ItemIndex \cup {None},
                            acks : Downlink \cup {None}]]
    /\ \A d \in Downlink :
         /\ status[d] \in [ItemsOf(d) -> Status]
         /\ sent[d] \in [ItemsOf(d) -> 0 .. 2]
         /\ said[d] \in [ItemsOf(d) -> Status]
    /\ pc \in [Worker -> {"idle", "getFrame", "getIndex", "getAcks", "setAcks",
                          "setFrame", "setIndex", "lookup", "send"}]
    /\ task \in [Worker -> Task]
    /\ todo \in SUBSET Downlink
    /\ txacks \in SUBSET TxAck
    /\ reports \in [Downlink -> 0 .. 2]
    /\ backend \in {"run", "locking", "closed", "stopped"}
    /\ loops \in SUBSET {"readPackets", "sendPackets"}
    /\ panicked \in SUBSET Worker

Init ==
    /\ registry = [g \in Gateway |-> "none"]
    /\ cache = [t \in Token |-> [frame |-> None, index |-> None, acks |-> None]]
    /\ status = [d \in Downlink |-> [i \in ItemsOf(d) |-> "ignored"]]
    /\ sent = [d \in Downlink |-> [i \in ItemsOf(d) |-> 0]]
    /\ said = [d \in Downlink |-> [i \in ItemsOf(d) |-> "ignored"]]
    /\ pc = [w \in Worker |-> "idle"]
    /\ task = [w \in Worker |-> NoTask]
    /\ todo = Downlink
    /\ txacks = {}
    /\ reports = [d \in Downlink |-> 0]
    /\ backend = "run"
    /\ loops = {"readPackets", "sendPackets"}
    /\ panicked = {}

Goto(w, label) == pc' = [pc EXCEPT ![w] = label]

\* The goroutine returns.
Return(w) == Goto(w, "idle") /\ task' = [task EXCEPT ![w] = NoTask]

-----------------------------------------------------------------------------
(* The gateways and the network                                            *)

\* A gateway got the item and says whether it could be sent.
GatewayAnswers(d, i, err) ==
    /\ sent[d][i] > 0
    /\ said[d][i] = "ignored"
    /\ said' = [said EXCEPT ![d][i] = IF err THEN "error" ELSE "ok"]
    /\ txacks' = txacks \cup {[of |-> d, item |-> i, err |-> err]}
    /\ UNCHANGED <<registry, cache, status, pc, task, todo, sent, reports,
                   backend, loops, panicked>>

-----------------------------------------------------------------------------
(* handlePacket                                                            *)

\* The goroutine of a packet gets the read lock and finds the backend open.  It
\* waits for the lock when Stop does, and returns at once after Stop had it.
Starts(h) == pc[h] = "idle" /\ backend = "run"

\* PULL_DATA: remember the gateway, tell the exchange, send PULL_ACK.
handlePullData(h, g) ==
    /\ Starts(h)
    /\ registry' = [registry EXCEPT ![g] = "fresh"]
    /\ Goto(h, "send")
    /\ UNCHANGED <<cache, status, task, todo, sent, said, txacks, reports,
                   backend, loops, panicked>>

\* PUSH_DATA: send PUSH_ACK, then pass on statistics and uplinks.
handlePushData(h) ==
    /\ Starts(h)
    /\ Goto(h, "send")
    /\ UNCHANGED <<registry, cache, status, task, todo, sent, said, txacks,
                   reports, backend, loops, panicked>>

\* TX_ACK: its token says which downlink it is about.
handleTXACK(h, a) ==
    /\ Starts(h)
    /\ a \in txacks
    /\ task' = [task EXCEPT ![h] = [NoTask EXCEPT !.tok = TokenOf[a.of], !.err = a.err]]
    /\ Goto(h, "getFrame")
    /\ \/ txacks' = txacks \ {a}
       \/ Duplicates /\ UNCHANGED txacks
    /\ UNCHANGED <<registry, cache, status, todo, sent, said, reports, backend,
                   loops, panicked>>

\* Read the frame, or return an error when it is not (or no more) cached.
GetFrame(h) ==
    /\ pc[h] = "getFrame"
    /\ LET f == cache[task[h].tok].frame IN
       IF f = None THEN Return(h)
       ELSE Goto(h, "getIndex") /\ task' = [task EXCEPT ![h].frame = f]
    /\ UNCHANGED <<registry, cache, status, todo, sent, said, txacks, reports,
                   backend, loops, panicked>>

GetIndex(h) ==
    /\ pc[h] = "getIndex"
    /\ LET i == cache[task[h].tok].index IN
       IF i = None THEN Return(h)
       ELSE Goto(h, "getAcks") /\ task' = [task EXCEPT ![h].index = i]
    /\ UNCHANGED <<registry, cache, status, todo, sent, said, txacks, reports,
                   backend, loops, panicked>>

\* Mutant: what was found in the cache is not validated.
SaneAlways(h, a) == TRUE

\* "validate that the data is sane"
Sane(h, a) ==
    /\ task[h].index <= Items[a] - 1
    /\ Items[a] = Items[task[h].frame]

\* Write the status of the item into the slice.
SetStatus(h, a) ==
    status' = [status EXCEPT ![a][task[h].index] = IF task[h].err THEN "error" ELSE "ok"]

\* Mutant: the retry sends the same item again.
RetrySame(h, a) ==
    /\ task[h].err /\ task[h].index < Items[task[h].frame] - 1
    /\ Goto(h, "setAcks")
    /\ task' = [task EXCEPT ![h].acks = a]
    /\ UNCHANGED reports

\* Mutant: off by one, the item after the last is tried too.
RetryPastEnd(h, a) ==
    /\ task[h].err /\ task[h].index <= Items[task[h].frame] - 1
    /\ Goto(h, "setAcks")
    /\ task' = [task EXCEPT ![h].index = @ + 1, ![h].acks = a]
    /\ UNCHANGED reports

\* After an error try the next item if there is one.
Retry(h, a) ==
    /\ task[h].err /\ task[h].index < Items[task[h].frame] - 1
    /\ Goto(h, "setAcks")
    /\ task' = [task EXCEPT ![h].index = @ + 1, ![h].acks = a]
    /\ UNCHANGED reports

\* Mutant: every status is reported, also when the next item could be tried.
ReportEvery(h) ==
    /\ reports' = [reports EXCEPT ![task[h].frame] = More(@)]
    /\ Return(h)

\* Otherwise report the acks of the frame to the exchange.
Report(h) ==
    /\ ~(task[h].err /\ task[h].index < Items[task[h].frame] - 1)
    /\ reports' = [reports EXCEPT ![task[h].frame] = More(@)]
    /\ Return(h)

\* Read the acks slice, validate, set the status, and retry or report.  It
\* returns an error if the slice is not cached, if the items do not fit each
\* other, or if the gateway's error is none of those in TxAckStatus.
GetAcks(h) ==
    /\ pc[h] = "getAcks"
    /\ LET a == cache[task[h].tok].acks IN
       \/ /\ a \in Downlink /\ Sane(h, a) => task[h].err
          /\ Return(h)
          /\ UNCHANGED <<status, reports, panicked>>
       \/ /\ a \in Downlink /\ Sane(h, a)
          /\ task[h].index \in ItemsOf(a)
          /\ SetStatus(h, a)
          /\ Retry(h, a) \/ Report(h)
          /\ UNCHANGED panicked
       \/ /\ a \in Downlink /\ Sane(h, a)
          /\ task[h].index \notin ItemsOf(a)
          /\ panicked' = {h}
          /\ UNCHANGED <<status, reports, pc, task>>
    /\ UNCHANGED <<registry, cache, todo, sent, said, txacks, backend, loops>>

-----------------------------------------------------------------------------
(* SendDownlinkFrame, and sendDownlinkFrame which the retry calls too      *)

\* The goroutine of a downlink hands it over.  The exchange does so from the
\* loop that it leaves to call Stop; a mapper's goroutine when its answer comes,
\* before, during or after Stop.  A frame without items is refused.
SendDownlinkFrame(d) ==
    /\ d \in todo
    /\ pc[SenderOf[d]] = "idle"
    /\ SenderOf[d] = Exchange => backend = "run"
    /\ todo' = todo \ {d}
    /\ IF Items[d] = 0 THEN UNCHANGED <<pc, task>>
       ELSE /\ task' = [task EXCEPT ![SenderOf[d]] =
                          [NoTask EXCEPT !.frame = d, !.index = 0, !.acks = d]]
            /\ Goto(SenderOf[d], "setAcks")
    /\ UNCHANGED <<registry, cache, status, sent, said, txacks, reports, backend,
                   loops, panicked>>

\* The steps that fill the cache for the frame of the goroutine.
FillCache(w, from, entry, to) ==
    /\ pc[w] = from
    /\ cache' = [cache EXCEPT ![TokenOf[task[w].frame]] = entry]
    /\ Goto(w, to)
    /\ UNCHANGED <<registry, status, task, todo, sent, said, txacks, reports,
                   backend, loops, panicked>>

Cached(w) == cache[TokenOf[task[w].frame]]

\* Mutant: the cache always says that the first item was sent.
SetCacheFirstItem(w) ==
    \/ FillCache(w, "setAcks", [Cached(w) EXCEPT !.acks = task[w].acks], "setFrame")
    \/ FillCache(w, "setFrame", [Cached(w) EXCEPT !.frame = task[w].frame], "setIndex")
    \/ FillCache(w, "setIndex", [Cached(w) EXCEPT !.index = 0], "lookup")

SetCache(w) ==
    \/ FillCache(w, "setAcks", [Cached(w) EXCEPT !.acks = task[w].acks], "setFrame")
    \/ FillCache(w, "setFrame", [Cached(w) EXCEPT !.frame = task[w].frame], "setIndex")
    \/ FillCache(w, "setIndex", [Cached(w) EXCEPT !.index = task[w].index], "lookup")

\* The gateway must be in the registry and the packet one that can be built from
\* the frame, or an error is returned.
Lookup(w) ==
    /\ pc[w] = "lookup"
    /\ \/ Return(w)
       \/ /\ registry[GatewayOf[task[w].frame]] # "none"
          /\ Goto(w, "send")
          /\ UNCHANGED task
    /\ UNCHANGED <<registry, cache, status, todo, sent, said, txacks, reports,
                   backend, loops, panicked>>

-----------------------------------------------------------------------------
(* The socket                                                              *)

\* Mutant: sendPackets gives up as soon as the backend is being stopped.
SendReadyRunning == backend = "run"

\* sendPackets waits for a packet on udpSendChan.
SendReady == "sendPackets" \in loops

\* udpSendChan <- packet, taken and written to the socket by sendPackets; on a
\* closed channel the send panics.
Send(w) ==
    /\ pc[w] = "send"
    /\ \/ /\ backend \in {"run", "locking"}
          /\ SendReady
          /\ sent' = IF task[w].frame = None THEN sent
                     ELSE [sent EXCEPT ![task[w].frame][task[w].index] = More(@)]
          /\ Return(w)
          /\ UNCHANGED panicked
       \/ /\ backend \in {"closed", "stopped"}
          /\ panicked' = {w}
          /\ UNCHANGED <<sent, pc, task>>
    /\ UNCHANGED <<registry, cache, status, todo, said, txacks, reports, backend,
                   loops>>

-----------------------------------------------------------------------------
(* Time                                                                    *)

\* A cached item expires.
Expire(t, key) ==
    /\ cache[t][key] # None
    /\ cache' = [cache EXCEPT ![t][key] = None]
    /\ UNCHANGED <<registry, status, pc, task, todo, sent, said, txacks, reports,
                   backend, loops, panicked>>

\* Once a minute: forget the gateways that did not poll for a minute, which a
\* poll outlives once, and tell the exchange.
cleanup ==
    /\ registry' = [g \in Gateway |-> IF registry[g] = "fresh" THEN "old" ELSE "none"]
    /\ UNCHANGED <<cache, status, pc, task, todo, sent, said, txacks, reports,
                   backend, loops, panicked>>

-----------------------------------------------------------------------------
(* Stop                                                                    *)

\* The loop of the exchange ends and calls Stop, which waits for the lock.
Stop ==
    /\ backend = "run"
    /\ pc[Exchange] = "idle"
    /\ backend' = "locking"
    /\ UNCHANGED <<registry, cache, status, pc, task, todo, sent, said, txacks,
                   reports, loops, panicked>>

\* With the write lock, which handlers exclude and mappers do not: close the
\* socket and the channel.
Close ==
    /\ backend = "locking"
    /\ \A h \in Handler : pc[h] = "idle"
    /\ backend' = "closed"
    /\ UNCHANGED <<registry, cache, status, pc, task, todo, sent, said, txacks,
                   reports, loops, panicked>>

\* readPackets and sendPackets end, each when it finds its end closed.
LoopEnds(l) ==
    /\ backend = "closed"
    /\ l \in loops
    /\ loops' = loops \ {l}
    /\ UNCHANGED <<registry, cache, status, pc, task, todo, sent, said, txacks,
                   reports, backend, panicked>>

\* b.wg.Wait returns.
Stopped ==
    /\ backend = "closed"
    /\ loops = {}
    /\ backend' = "stopped"
    /\ UNCHANGED <<registry, cache, status, pc, task, todo, sent, said, txacks,
                   reports, loops, panicked>>

-----------------------------------------------------------------------------
WorkerStep(w) == GetFrame(w) \/ GetIndex(w) \/ GetAcks(w) \/ SetCache(w)
                 \/ Lookup(w) \/ Send(w)

Next ==
    /\ panicked = {}
    /\ \/ \E d \in Downlink : \/ SendDownlinkFrame(d)
                              \/ \E i \in ItemsOf(d) : \E err \in BOOLEAN :
                                   GatewayAnswers(d, i, err)
       \/ \E h \in Handler : \/ \E g \in Gateway : handlePullData(h, g)
                             \/ handlePushData(h)
                             \/ \E a \in txacks : handleTXACK(h, a)
       \/ \E w \in Worker : WorkerStep(w)
       \/ \E t \in Token : \E key \in {"frame", "index", "acks"} : Expire(t, key)
       \/ cleanup
       \/ Stop
       \/ Close
       \/ \E l \in loops : LoopEnds(l)
       \/ Stopped

Spec == Init /\ [][Next]_vars

\* Goroutines run whenever they can; nothing is assumed of gateways, of the
\* network or of the time at which Stop is called.
Fairness ==
    /\ \A w \in Worker : WF_vars(panicked = {} /\ WorkerStep(w))
    /\ WF_vars(panicked = {} /\ (Close \/ Stopped \/ \E l \in loops : LoopEnds(l)))

FairSpec == Spec /\ Fairness

-----------------------------------------------------------------------------
(* Properties                                                              *)

\* Nothing but a downlink of a mapper panics, and only on the channel that Stop
\* has closed.  Handlers, retries and the exchange never send on it, although
\* they race with Stop, and no handler indexes a slice out of its range,
\* although the items of two downlinks with the same token get mixed up.
OnlyMapperPanics ==
    /\ panicked \subseteq Mapper
    /\ panicked # {} => backend \in {"closed", "stopped"}

\* Without repeated TX_ACKs and with different tokens every status the exchange
\* can be told is what the gateway said of that very item.
StatusFaithful ==
    \A d \in Downlink : \A i \in ItemsOf(d) :
        status[d][i] # "ignored" => status[d][i] = said[d][i]

\* Under the same conditions no item is sent twice, no item is sent before the
\* gateway rejected the one before it, and a downlink is reported once at most.
EachItemOnce ==
    \A d \in Downlink :
        /\ \A i \in ItemsOf(d) :
             /\ sent[d][i] <= 1
             /\ i > 0 /\ sent[d][i] > 0 => said[d][i - 1] = "error"
        /\ reports[d] <= 1

\* Under the same conditions this is, seen from the packet exchange, the backend
\* of DownlinkContract: items are tried in order, the next one when the rejection
\* of those before is noted, and the exchange is told once, at the end.
DC == INSTANCE DownlinkContract
ImplementsDownlinkContract == DC!Spec

\* Stop returns: handlers that hold the read lock are not stuck in a send.
StopReturns == backend = "locking" ~> (panicked # {} \/ backend = "stopped")

=============================================================================
