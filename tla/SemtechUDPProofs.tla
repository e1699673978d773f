-------------------------- MODULE SemtechUDPProofs --------------------------
(***************************************************************************)
(* Proofs about the Semtech UDP backend.  For every set of gateways,       *)
(* downlinks and tokens, shared or not, and with repeated TX_ACKs: the     *)
(* state stays within its types, and nothing panics but the downlink of a  *)
(* mapper that comes after Stop.  When tokens tell downlinks apart and no  *)
(* TX_ACK is repeated: every recorded status is what the gateway said of   *)
(* that item, no item is sent twice or too early, and a downlink is        *)
(* reported once at most.                                                  *)
(***************************************************************************)
EXTENDS SemtechUDP, TLAPS

Reading == {"getFrame", "getIndex", "getAcks"}
Filling == {"setAcks", "setFrame", "setIndex", "lookup"}

\* The tables by downlink have an entry for each downlink and for nothing else.
Tables ==
    /\ status = [d \in Downlink |-> status[d]]
    /\ sent = [d \in Downlink |-> sent[d]]
    /\ said = [d \in Downlink |-> said[d]]

\* What a goroutine's local variables hold at each of its steps.
Locals(w) ==
    /\ pc[w] = "idle" => task[w].frame = None
    /\ pc[w] \in Reading => w \in Handler /\ \E d \in Downlink : task[w].tok = TokenOf[d]
    /\ pc[w] \in {"getIndex", "getAcks"} => task[w].frame \in Downlink
    /\ pc[w] = "getAcks" => task[w].index \in ItemIndex
    /\ pc[w] \in Filling => task[w].frame \in Downlink /\ task[w].acks \in Downlink
    /\ pc[w] \in Filling \cup {"send"} =>
         task[w].frame = None \/ task[w].index \in ItemsOf(task[w].frame)

\* Stop is called by the goroutine of the exchange, which has therefore nothing
\* to send any more, and closes the channel when no handler is left.
Quiet ==
    /\ backend # "run" => pc[Exchange] = "idle"
    /\ backend \in {"closed", "stopped"} => \A h \in Handler : pc[h] = "idle"

SafeInv == TypeOK /\ Tables /\ (\A w \in Worker : Locals(w)) /\ Quiet /\ OnlyMapperPanics

-----------------------------------------------------------------------------
\* Goroutine w is sending an item of d, or handles a TX_ACK that is about d.
Sending(w, d) == pc[w] \in Filling \cup {"send"} /\ task[w].frame = d
Handling(w, d) == pc[w] \in Reading /\ task[w].tok = TokenOf[d]
Busy(w, d) == Sending(w, d) \/ Handling(w, d)

\* Item i of d is the last one that was sent.
LastSent(d, i) ==
    /\ i \in ItemsOf(d)
    /\ sent[d][i] > 0
    /\ \A j \in ItemsOf(d) : j > i => sent[d][j] = 0

Verdict(err) == IF err THEN "error" ELSE "ok"

\* An item of d was sent and the gateway did not answer yet.
Awaiting(d) == \E i \in ItemsOf(d) : sent[d][i] > 0 /\ said[d][i] = "ignored"

\* Items are sent in order, each once, the next after the gateway rejected all
\* before it, and what is recorded is what the gateway said.
InOrder(d) ==
    /\ \A i \in ItemsOf(d) :
         /\ sent[d][i] \in {0, 1}
         /\ said[d][i] # "ignored" => sent[d][i] = 1
         /\ status[d][i] # "ignored" => status[d][i] = said[d][i]
    /\ \A i, j \in ItemsOf(d) : sent[d][i] > 0 /\ j < i => said[d][j] = "error"
    /\ reports[d] \in {0, 1}

\* A downlink that was not sent yet.
Fresh(d) ==
    /\ \A i \in ItemsOf(d) : sent[d][i] = 0
    /\ \A w \in Worker : ~Busy(w, d)
    /\ \A a \in txacks : a.of # d
    /\ reports[d] = 0

\* A goroutine that sends an item of d: it is the next one, and the gateway
\* rejected all before it.
SenderOK(w, d) ==
    /\ task[w].acks = d
    /\ \A j \in ItemsOf(d) : IF j < task[w].index THEN said[d][j] = "error"
                                                  ELSE sent[d][j] = 0
    /\ pc[w] \in {"lookup", "send"} =>
         cache[TokenOf[d]].index \in {None, task[w].index}
    /\ \A a \in txacks : a.of # d
    /\ reports[d] = 0

\* A TX_ACK about d, or the goroutine that handles it, is about the item that
\* was sent last.
AnswerOK(d, err) ==
    /\ \E i \in ItemsOf(d) : LastSent(d, i) /\ said[d][i] = Verdict(err)
    /\ reports[d] = 0

HandlerOK(w, d) ==
    /\ AnswerOK(d, task[w].err)
    /\ pc[w] \in {"getIndex", "getAcks"} => task[w].frame = d
    /\ pc[w] = "getAcks" => LastSent(d, task[w].index)
    /\ \A a \in txacks : a.of # d

\* While an answer is expected or handled the cached index is that of the item
\* that was sent last.
IndexOK(d) ==
    Awaiting(d) \/ (\E a \in txacks : a.of = d) \/ (\E w \in Worker : Handling(w, d)) =>
      cache[TokenOf[d]].index = None \/ LastSent(d, cache[TokenOf[d]].index)

\* At any time one goroutine or one message at most carries a downlink further.
Attributed(d) ==
    /\ InOrder(d)
    /\ cache[TokenOf[d]].frame \in {None, d}
    /\ cache[TokenOf[d]].acks \in {None, d}
    /\ IndexOK(d)
    /\ d \in todo => Fresh(d)
    /\ \A w \in Worker : Sending(w, d) => SenderOK(w, d)
    /\ \A w \in Worker : Handling(w, d) => HandlerOK(w, d)
    /\ \A v, w \in Worker : Busy(v, d) /\ Busy(w, d) => v = w
    /\ \A a \in txacks : a.of = d => AnswerOK(d, a.err)
    /\ \A a, b \in txacks : a.of = d /\ b.of = d => a = b
    /\ Awaiting(d) => reports[d] = 0

\* The conditions under which answers can be told apart: the network repeats
\* none and no two downlinks share a token.
Distinguishable ==
    /\ ~Duplicates
    /\ \A d, e \in Downlink : TokenOf[d] = TokenOf[e] => d = e

AttributionInv == SafeInv /\ \A d \in Downlink : Attributed(d)

-----------------------------------------------------------------------------
(* The facts about the constants that the steps below use.                 *)

\* Item numbers are natural numbers, and None is not one.
LEMMA ItemFacts ==
    /\ \A d \in Downlink : Items[d] \in Nat /\ ItemsOf(d) \subseteq Nat
    /\ \A d \in Downlink : Items[d] # 0 => 0 \in ItemsOf(d)
    /\ \A d \in Downlink : ItemsOf(d) \subseteq ItemIndex
    /\ ItemIndex \subseteq Nat
    /\ None \notin Downlink /\ None \notin ItemIndex
    /\ \A d \in Downlink : TokenOf[d] \in Token /\ GatewayOf[d] \in Gateway
<1>1. \A d \in Downlink : Items[d] \in Nat
  BY DownlinkAssumption
<1>2. \A d \in Downlink : ItemsOf(d) \subseteq Nat /\ (Items[d] # 0 => 0 \in ItemsOf(d))
  BY <1>1 DEF ItemsOf
<1>3. \A d \in Downlink : ItemsOf(d) \subseteq ItemIndex
  BY DEF ItemIndex
<1>4. ItemIndex \subseteq Nat
  BY <1>2 DEF ItemIndex
<1>5. QED
  BY <1>1, <1>2, <1>3, <1>4, DownlinkAssumption

\* Initially the invariant behind TypeOK and OnlyMapperPanics holds.
LEMMA InitSafe == Init => SafeInv
<1> SUFFICES ASSUME Init PROVE SafeInv
  OBVIOUS
<1>1. TypeOK
  <2>1. \A d \in Downlink : /\ status[d] \in [ItemsOf(d) -> Status]
                           /\ sent[d] \in [ItemsOf(d) -> 0 .. 2]
                           /\ said[d] \in [ItemsOf(d) -> Status]
    BY DEF Init, Status
  <2>2. NoTask \in Task
    BY DEF NoTask, Task
  <2>3. cache \in [Token -> [frame : Downlink \cup {None}, index : ItemIndex \cup {None},
                             acks : Downlink \cup {None}]]
    BY DEF Init
  <2>4. registry \in [Gateway -> {"none", "fresh", "old"}] /\ reports \in [Downlink -> 0 .. 2]
    BY DEF Init
  <2>5. pc \in [Worker -> {"idle", "getFrame", "getIndex", "getAcks", "setAcks",
                          "setFrame", "setIndex", "lookup", "send"}]
    BY DEF Init
  <2>6. task \in [Worker -> Task]
    BY <2>2 DEF Init
  <2>7. QED
    BY <2>1, <2>3, <2>4, <2>5, <2>6 DEF Init, TypeOK
<1>2. Tables
  BY DEF Init, Tables
<1>3. \A w \in Worker : Locals(w)
  BY DEF Init, Locals, NoTask, Reading, Filling
<1>4. Quiet /\ OnlyMapperPanics
  BY DEF Init, Quiet, OnlyMapperPanics, Worker
<1>5. QED
  BY <1>1, <1>2, <1>3, <1>4 DEF SafeInv

-----------------------------------------------------------------------------
(* Type correctness and the absence of panics                              *)

Label == {"idle", "getFrame", "getIndex", "getAcks", "setAcks", "setFrame",
          "setIndex", "lookup", "send"}

\* A step of one goroutine leaves the local variables of the others alone.
LEMMA LocalStep ==
    ASSUME SafeInv, NEW w \in Worker, NEW l \in Label, NEW t \in Task,
           Goto(w, l), task' = [task EXCEPT ![w] = t],
           pc'[w] = l /\ task'[w] = t => Locals(w)'
    PROVE  /\ pc' \in [Worker -> Label]
           /\ task' \in [Worker -> Task]
           /\ \A v \in Worker : Locals(v)'
<1>1. pc \in [Worker -> Label] /\ task \in [Worker -> Task]
  BY DEF SafeInv, TypeOK, Label
<1>2. pc' \in [Worker -> Label] /\ task' \in [Worker -> Task]
  BY <1>1 DEF Goto
<1>3. \A v \in Worker \ {w} : pc'[v] = pc[v] /\ task'[v] = task[v]
  BY <1>1 DEF Goto
<1>4. Locals(w)'
  BY <1>1 DEF Goto
<1>5. \A v \in Worker \ {w} : Locals(v)'
  BY <1>3 DEF SafeInv, Locals
<1>6. QED
  BY <1>2, <1>4, <1>5

\* So does a return.
LEMMA LocalReturn ==
    ASSUME SafeInv, NEW w \in Worker, Return(w)
    PROVE  /\ pc' \in [Worker -> Label]
           /\ task' \in [Worker -> Task]
           /\ \A v \in Worker : Locals(v)'
<1>1. NoTask \in Task
  BY DEF NoTask, Task
<1>2. pc'[w] = "idle" /\ task'[w] = NoTask => Locals(w)'
  BY DEF Locals, NoTask, Reading, Filling
<1>3. QED
  BY <1>1, <1>2, LocalStep DEF Return, Label

\* And a step that only moves on to the next label.
LEMMA LocalGoto ==
    ASSUME SafeInv, NEW w \in Worker, NEW l \in Label, Goto(w, l), UNCHANGED task,
           pc'[w] = l /\ task'[w] = task[w] => Locals(w)'
    PROVE  /\ pc' \in [Worker -> Label]
           /\ task' \in [Worker -> Task]
           /\ \A v \in Worker : Locals(v)'
<1>1. task[w] \in Task /\ task' = [task EXCEPT ![w] = task[w]]
  BY DEF SafeInv, TypeOK
<1>2. QED
  BY <1>1, LocalStep

\* The steps of gateways, network, time and shut-down.
LEMMA OutsideSafe ==
    ASSUME SafeInv,
           \/ \E d \in Downlink : \E i \in ItemsOf(d) : \E err \in BOOLEAN :
                GatewayAnswers(d, i, err)
           \/ \E t \in Token : \E key \in {"frame", "index", "acks"} : Expire(t, key)
           \/ cleanup \/ Stop \/ Close \/ Stopped
           \/ \E l \in loops : LoopEnds(l)
           \/ UNCHANGED vars
    PROVE  SafeInv'
<1>1. ASSUME NEW d \in Downlink, NEW i \in ItemsOf(d), NEW err \in BOOLEAN,
             GatewayAnswers(d, i, err)
      PROVE  SafeInv'
  <2>1. [of |-> d, item |-> i, err |-> err] \in TxAck
    BY ItemFacts DEF TxAck
  <2>2. txacks' \in SUBSET TxAck
    BY <1>1, <2>1 DEF GatewayAnswers, SafeInv, TypeOK
  <2>3. (\A e \in Downlink : said'[e] \in [ItemsOf(e) -> Status])
        /\ said' = [e \in Downlink |-> said'[e]]
    BY <1>1 DEF GatewayAnswers, SafeInv, TypeOK, Tables, Status
  <2>4. TypeOK' /\ Tables'
    BY <1>1, <2>2, <2>3 DEF GatewayAnswers, SafeInv, TypeOK, Tables
  <2>5. QED
    BY <1>1, <2>4 DEF GatewayAnswers, SafeInv, Locals, Quiet, OnlyMapperPanics
<1>2. ASSUME NEW t \in Token, NEW key \in {"frame", "index", "acks"}, Expire(t, key)
      PROVE  SafeInv'
  <2>1. cache' \in [Token -> [frame : Downlink \cup {None}, index : ItemIndex \cup {None},
                              acks : Downlink \cup {None}]]
    <3> DEFINE Entry == [frame : Downlink \cup {None}, index : ItemIndex \cup {None},
                         acks : Downlink \cup {None}]
    <3>1. cache \in [Token -> Entry] /\ cache' = [cache EXCEPT ![t][key] = None]
      BY <1>2 DEF Expire, SafeInv, TypeOK
    <3>2. [cache[t] EXCEPT ![key] = None] \in Entry
      BY <3>1
    <3> HIDE DEF Entry
    <3>3. cache' \in [Token -> Entry]
      BY <3>1, <3>2
    <3>4. QED
      BY <3>3 DEF Entry
  <2>2. UNCHANGED <<registry, status, pc, task, todo, sent, said, txacks, reports,
                    backend, loops, panicked>>
    BY <1>2 DEF Expire
  <2>3. TypeOK'
    BY <2>1, <2>2 DEF SafeInv, TypeOK
  <2>4. QED
    BY <2>2, <2>3 DEF SafeInv, Tables, Locals, Quiet, OnlyMapperPanics
<1>3. CASE cleanup
  <2>1. registry' \in [Gateway -> {"none", "fresh", "old"}]
    BY <1>3 DEF cleanup
  <2>2. QED
    BY <1>3, <2>1 DEF cleanup, SafeInv, TypeOK, Tables, Locals, Quiet, OnlyMapperPanics
<1>4. ASSUME UNCHANGED <<registry, cache, status, pc, task, todo, sent, said, txacks,
                         reports, panicked>>,
             backend' \in {"run", "locking", "closed", "stopped"},
             loops' \in SUBSET {"readPackets", "sendPackets"}, Quiet', OnlyMapperPanics'
      PROVE  SafeInv'
  <2>1. TypeOK'
    BY <1>4 DEF SafeInv, TypeOK
  <2>2. QED
    BY <1>4, <2>1 DEF SafeInv, Tables, Locals
<1>5. CASE Stop
  BY <1>4, <1>5 DEF Stop, SafeInv, TypeOK, Quiet, OnlyMapperPanics
<1>6. CASE Close
  BY <1>4, <1>6 DEF Close, SafeInv, TypeOK, Quiet, OnlyMapperPanics
<1>7. CASE Stopped
  BY <1>4, <1>7 DEF Stopped, SafeInv, TypeOK, Quiet, OnlyMapperPanics
<1>8. CASE \E l \in loops : LoopEnds(l)
  BY <1>4, <1>8 DEF LoopEnds, SafeInv, TypeOK, Quiet, OnlyMapperPanics
<1>9. CASE UNCHANGED vars
  BY <1>4, <1>9 DEF vars, SafeInv, TypeOK, Quiet, OnlyMapperPanics
<1>10. QED
  BY <1>1, <1>2, <1>3, <1>5, <1>6, <1>7, <1>8, <1>9

\* The start of a goroutine, and of a downlink.
LEMMA StartSafe ==
    ASSUME SafeInv,
           \/ \E d \in Downlink : SendDownlinkFrame(d)
           \/ \E h \in Handler : \/ \E g \in Gateway : handlePullData(h, g)
                                 \/ handlePushData(h)
                                 \/ \E a \in txacks : handleTXACK(h, a)
    PROVE  SafeInv'
<1>1. ASSUME NEW d \in Downlink, SendDownlinkFrame(d) PROVE SafeInv'
  <2> DEFINE t == [NoTask EXCEPT !.frame = d, !.index = 0, !.acks = d]
             s == SenderOf[d]
  <2>1. /\ s \in Worker /\ s \notin Handler
        /\ todo' = todo \ {d} /\ (s = Exchange => backend = "run")
        /\ UNCHANGED <<registry, cache, status, sent, said, txacks, reports, backend,
                       loops, panicked>>
    BY <1>1, DownlinkAssumption DEF SendDownlinkFrame, Worker
  <2>2. CASE Items[d] = 0
    <3>1. UNCHANGED <<pc, task>>
      BY <1>1, <2>2 DEF SendDownlinkFrame
    <3>2. QED
      BY <2>1, <3>1 DEF SafeInv, TypeOK, Tables, Locals, Quiet, OnlyMapperPanics
  <2>3. CASE Items[d] # 0
    <3>1. t \in Task /\ t.frame = d /\ t.index = 0 /\ t.acks = d
      BY <2>3, ItemFacts DEF NoTask, Task
    <3>2. pc'[s] = "setAcks" /\ task'[s] = t => Locals(s)'
      BY <2>3, <3>1, ItemFacts DEF Locals, Reading, Filling
    <3>3. Goto(s, "setAcks") /\ task' = [task EXCEPT ![s] = t]
      BY <1>1, <2>3 DEF SendDownlinkFrame
    <3> HIDE DEF t, s
    <3>4. /\ pc' \in [Worker -> Label] /\ task' \in [Worker -> Task]
          /\ \A v \in Worker : Locals(v)'
      BY <2>1, <3>1, <3>2, <3>3, LocalStep DEF Label
    <3>5. \A v \in Worker \ {s} : pc'[v] = pc[v]
      BY <2>1, <3>3 DEF Goto, SafeInv, TypeOK
    <3>6. TypeOK' /\ Tables' /\ OnlyMapperPanics'
      BY <2>1, <3>4 DEF SafeInv, TypeOK, Tables, OnlyMapperPanics, Label
    <3>7. Quiet'
      BY <2>1, <3>5 DEF SafeInv, Quiet, Worker
    <3>8. QED
      BY <3>4, <3>6, <3>7 DEF SafeInv
  <2>4. QED
    BY <2>2, <2>3
<1>2. ASSUME NEW h \in Handler,
             handlePushData(h) \/ \E g \in Gateway : handlePullData(h, g)
      PROVE  SafeInv'
  <2>1. Starts(h) /\ Goto(h, "send") /\ UNCHANGED task
    BY <1>2 DEF handlePushData, handlePullData
  <2>2. pc'[h] = "send" /\ task'[h] = task[h] => Locals(h)'
    BY <2>1 DEF SafeInv, Starts, Locals, Worker, Reading, Filling
  <2>3. /\ pc' \in [Worker -> Label] /\ task' \in [Worker -> Task]
        /\ \A v \in Worker : Locals(v)'
    BY <2>1, <2>2, LocalGoto DEF Worker, Label
  <2>4. registry' \in [Gateway -> {"none", "fresh", "old"}]
    BY <1>2 DEF handlePushData, handlePullData, SafeInv, TypeOK
  <2>5. UNCHANGED <<cache, status, todo, sent, said, txacks, reports, backend, loops, panicked>>
        /\ backend = "run"
    BY <1>2 DEF handlePushData, handlePullData, Starts
  <2>6. QED
    BY <2>3, <2>4, <2>5 DEF SafeInv, TypeOK, Tables, Quiet, OnlyMapperPanics, Label
<1>3. ASSUME NEW h \in Handler, NEW a \in txacks, handleTXACK(h, a) PROVE SafeInv'
  <2> DEFINE t == [NoTask EXCEPT !.tok = TokenOf[a.of], !.err = a.err]
  <2>1. a.of \in Downlink /\ a.err \in BOOLEAN
    BY DEF SafeInv, TypeOK, TxAck
  <2>2. t \in Task /\ t.tok = TokenOf[a.of] /\ t.frame = None
    BY <2>1, ItemFacts DEF NoTask, Task
  <2>3. pc'[h] = "getFrame" /\ task'[h] = t => Locals(h)'
    BY <2>1, <2>2 DEF Locals, Reading, Filling
  <2> HIDE DEF t
  <2>4. /\ pc' \in [Worker -> Label] /\ task' \in [Worker -> Task]
        /\ \A v \in Worker : Locals(v)'
    BY <1>3, <2>2, <2>3, LocalStep DEF handleTXACK, Worker, Label, t
  <2>5. txacks' \in SUBSET TxAck /\ backend = "run"
        /\ UNCHANGED <<registry, cache, status, todo, sent, said, reports, backend, loops,
                       panicked>>
    BY <1>3 DEF handleTXACK, Starts, SafeInv, TypeOK
  <2>6. QED
    BY <2>4, <2>5 DEF SafeInv, TypeOK, Tables, Quiet, OnlyMapperPanics, Label
<1>4. QED
  BY <1>1, <1>2, <1>3

\* A goroutine that runs is one that Stop waits for, or a mapper's.
LEMMA Running ==
    ASSUME SafeInv, NEW w \in Worker, pc[w] # "idle", w \notin Mapper
    PROVE  backend \in {"run", "locking"} /\ (w = Exchange => backend = "run")
BY DEF SafeInv, TypeOK, Quiet, Worker

\* A step of a goroutine that changes its own locals, and perhaps the cache, and
\* reads or writes nothing else that Stop looks at.
LEMMA WorkerSafe ==
    ASSUME SafeInv, NEW w \in Worker, pc[w] # "idle",
           pc' \in [Worker -> Label], task' \in [Worker -> Task],
           \A v \in Worker : Locals(v)', \A v \in Worker \ {w} : pc'[v] = pc[v],
           cache' \in [Token -> [frame : Downlink \cup {None}, index : ItemIndex \cup {None},
                                 acks : Downlink \cup {None}]],
           \A d \in Downlink : /\ status'[d] \in [ItemsOf(d) -> Status]
                               /\ sent'[d] \in [ItemsOf(d) -> 0 .. 2],
           status' = [d \in Downlink |-> status'[d]],
           sent' = [d \in Downlink |-> sent'[d]],
           reports' \in [Downlink -> 0 .. 2],
           UNCHANGED <<registry, todo, said, txacks, backend, loops, panicked>>
    PROVE  SafeInv'
<1>1. TypeOK' /\ Tables' /\ OnlyMapperPanics'
  BY DEF SafeInv, TypeOK, Tables, OnlyMapperPanics, Label
<1>2. Quiet'
  <2>1. CASE w \in Mapper
    <3>1. pc'[Exchange] = pc[Exchange] /\ \A h \in Handler : pc'[h] = pc[h]
      BY <2>1, DownlinkAssumption DEF Worker
    <3>2. QED
      BY <3>1 DEF SafeInv, Quiet
  <2>2. CASE w \notin Mapper
    <3>1. backend' \in {"run", "locking"} /\ (w = Exchange => backend' = "run")
      BY <2>2, Running
    <3>2. Exchange \in Worker
      BY DEF Worker
    <3>3. QED
      BY <3>1, <3>2 DEF SafeInv, Quiet
  <2>3. QED
    BY <2>1, <2>2
<1>3. QED
  BY <1>1, <1>2 DEF SafeInv

\* The steps that read the cache for a TX_ACK.
LEMMA ReadSafe ==
    ASSUME SafeInv, NEW w \in Worker, GetFrame(w) \/ GetIndex(w)
    PROVE  SafeInv'
<1> DEFINE f == cache[task[w].tok].frame
           i == cache[task[w].tok].index
<1>1. pc[w] \in Reading /\ task[w] \in Task /\ task[w].tok \in Token
  BY ItemFacts DEF GetFrame, GetIndex, SafeInv, TypeOK, Locals, Reading
<1>2. f \in Downlink \cup {None} /\ i \in ItemIndex \cup {None}
  BY <1>1 DEF SafeInv, TypeOK
<1>3. /\ pc' \in [Worker -> Label] /\ task' \in [Worker -> Task]
      /\ \A v \in Worker : Locals(v)'
  <2>1. CASE Return(w)
    BY <2>1, LocalReturn
  <2>2. CASE GetFrame(w) /\ ~Return(w)
    <3> DEFINE t == [task[w] EXCEPT !.frame = f]
    <3>1. f \in Downlink /\ Goto(w, "getIndex") /\ task' = [task EXCEPT ![w] = t]
      BY <1>2, <2>2 DEF GetFrame
    <3>2. t \in Task /\ t.tok = task[w].tok /\ t.frame = f
      BY <1>1, <3>1 DEF Task
    <3>3. pc'[w] = "getIndex" /\ task'[w] = t => Locals(w)'
      BY <1>1, <3>1, <3>2 DEF SafeInv, Locals, Reading, Filling
    <3> HIDE DEF t
    <3>4. QED
      BY <3>1, <3>2, <3>3, LocalStep DEF Label
  <2>3. CASE GetIndex(w) /\ ~Return(w)
    <3> DEFINE t == [task[w] EXCEPT !.index = i]
    <3>1. i \in ItemIndex /\ Goto(w, "getAcks") /\ task' = [task EXCEPT ![w] = t]
      BY <1>2, <2>3 DEF GetIndex
    <3>2. t \in Task /\ t.tok = task[w].tok /\ t.frame = task[w].frame /\ t.index = i
      BY <1>1, <3>1 DEF Task
    <3>3. pc'[w] = "getAcks" /\ task'[w] = t => Locals(w)'
      BY <2>3, <1>1, <3>1, <3>2 DEF GetIndex, SafeInv, Locals, Reading, Filling
    <3> HIDE DEF t
    <3>4. QED
      BY <3>1, <3>2, <3>3, LocalStep DEF Label
  <2>4. QED
    BY <2>1, <2>2, <2>3 DEF GetFrame, GetIndex
<1>4. UNCHANGED <<registry, cache, status, todo, sent, said, txacks, reports, backend,
                  loops, panicked>>
      /\ \A v \in Worker \ {w} : pc'[v] = pc[v]
  BY DEF GetFrame, GetIndex, Return, Goto, SafeInv, TypeOK
<1>5. QED
  BY <1>1, <1>3, <1>4, WorkerSafe DEF SafeInv, TypeOK, Tables, Reading

\* What the checks of handleTXACK guarantee: the acks slice is that of a
\* downlink and the index is within it.
LEMMA SaneInRange ==
    ASSUME SafeInv, NEW w \in Worker, pc[w] = "getAcks", NEW a \in Downlink, Sane(w, a)
    PROVE  task[w].index \in ItemsOf(a) /\ task[w].frame \in Downlink
<1>1. task[w].index \in Nat /\ task[w].frame \in Downlink
  BY ItemFacts DEF SafeInv, Locals
<1>2. QED
  BY <1>1, ItemFacts DEF Sane, ItemsOf

\* The step that reads the acks slice, sets the status and retries or reports.
LEMMA GetAcksSafe ==
    ASSUME SafeInv, NEW w \in Worker, GetAcks(w)
    PROVE  SafeInv'
<1> DEFINE a == cache[task[w].tok].acks
<1>1. /\ pc[w] = "getAcks" /\ task[w] \in Task /\ task[w].tok \in Token
      /\ task[w].frame \in Downlink /\ task[w].index \in ItemIndex
  BY ItemFacts DEF GetAcks, SafeInv, TypeOK, Locals, Reading
<1>2. /\ pc \in [Worker -> Label] /\ reports \in [Downlink -> 0 .. 2]
      /\ Tables /\ \A d \in Downlink : /\ status[d] \in [ItemsOf(d) -> Status]
                                      /\ sent[d] \in [ItemsOf(d) -> 0 .. 2]
  BY DEF SafeInv, TypeOK, Label
<1>3. UNCHANGED <<registry, cache, todo, sent, said, txacks, backend, loops>>
  BY DEF GetAcks
<1>4. CASE Return(w) /\ UNCHANGED <<status, reports, panicked>>
  <2>1. Return(w) /\ UNCHANGED <<status, reports, panicked>>
    BY <1>4
  <2>2. \A v \in Worker \ {w} : pc'[v] = pc[v]
    BY <2>1, <1>2 DEF Return, Goto
  <2>3. QED
    BY <1>1, <1>3, <2>1, <2>2, LocalReturn, WorkerSafe DEF SafeInv, TypeOK, Tables
<1>5. CASE /\ a \in Downlink /\ Sane(w, a)
           /\ ~(Return(w) /\ UNCHANGED <<status, reports, panicked>>)
  <2>1. task[w].index \in ItemsOf(a)
    BY <1>1, <1>5, SaneInRange
  <2>2. SetStatus(w, a) /\ (Retry(w, a) \/ Report(w)) /\ UNCHANGED panicked
    BY <1>5, <2>1 DEF GetAcks
  <2>3. (\A d \in Downlink : status'[d] \in [ItemsOf(d) -> Status])
        /\ status' = [d \in Downlink |-> status'[d]]
    BY <1>2, <1>5, <2>1, <2>2 DEF SetStatus, Tables, Status
  <2>4. CASE Retry(w, a)
    <3> DEFINE t == [task[w] EXCEPT !.index = @ + 1, !.acks = a]
    <3>1. task[w].index + 1 \in ItemsOf(task[w].frame)
      BY <1>1, <2>4, ItemFacts DEF Retry, ItemsOf
    <3>2. Goto(w, "setAcks") /\ task' = [task EXCEPT ![w] = t] /\ UNCHANGED reports
      BY <1>1, <2>4 DEF Retry, SafeInv, TypeOK, Task
    <3>3. t \in Task /\ t.index = task[w].index + 1 /\ t.frame = task[w].frame /\ t.acks = a
      BY <1>1, <1>5, <3>1, ItemFacts DEF Task
    <3>4. pc'[w] = "setAcks" /\ task'[w] = t => Locals(w)'
      BY <1>1, <1>5, <3>1, <3>3 DEF Locals, Reading, Filling
    <3> HIDE DEF t
    <3>5. /\ pc' \in [Worker -> Label] /\ task' \in [Worker -> Task]
          /\ \A v \in Worker : Locals(v)'
      BY <3>2, <3>3, <3>4, LocalStep DEF Label
    <3>6. \A v \in Worker \ {w} : pc'[v] = pc[v]
      BY <3>2, <1>2 DEF Goto
    <3>7. QED
      BY <1>1, <1>2, <1>3, <2>2, <2>3, <3>2, <3>5, <3>6, WorkerSafe
         DEF SafeInv, TypeOK, Tables
  <2>5. CASE Report(w)
    <3>1. reports' \in [Downlink -> 0 .. 2]
      BY <1>1, <1>2, <2>5 DEF Report, More
    <3>2. Return(w) /\ \A v \in Worker \ {w} : pc'[v] = pc[v]
      BY <1>2, <2>5 DEF Report, Return, Goto
    <3>3. QED
      BY <1>1, <1>2, <1>3, <2>2, <2>3, <3>1, <3>2, LocalReturn, WorkerSafe
         DEF SafeInv, TypeOK, Tables
  <2>6. QED
    BY <2>2, <2>4, <2>5
<1>6. QED
  BY <1>4, <1>5 DEF GetAcks

\* The steps that fill the cache and look the gateway up.
LEMMA FillSafe ==
    ASSUME SafeInv, NEW w \in Worker, SetCache(w) \/ Lookup(w)
    PROVE  SafeInv'
<1> DEFINE Entry == [frame : Downlink \cup {None}, index : ItemIndex \cup {None},
                     acks : Downlink \cup {None}]
<1>1. pc[w] \in Filling /\ task[w] \in Task /\ pc \in [Worker -> Label]
  BY DEF SetCache, FillCache, Lookup, Filling, SafeInv, TypeOK, Label
<1>2. /\ task[w].frame \in Downlink /\ task[w].acks \in Downlink
      /\ task[w].index \in ItemsOf(task[w].frame)
  BY <1>1, ItemFacts DEF SafeInv, Locals
<1>3. TokenOf[task[w].frame] \in Token /\ task[w].index \in ItemIndex
  BY <1>2, ItemFacts
<1>4. cache \in [Token -> Entry] /\ Cached(w) \in Entry
  BY <1>3 DEF SafeInv, TypeOK, Cached
<1>5. UNCHANGED <<registry, status, todo, sent, said, txacks, reports, backend, loops,
                  panicked>>
  BY DEF SetCache, FillCache, Lookup
<1>6. /\ [Cached(w) EXCEPT !.acks = task[w].acks] \in Entry
      /\ [Cached(w) EXCEPT !.frame = task[w].frame] \in Entry
      /\ [Cached(w) EXCEPT !.index = task[w].index] \in Entry
  BY <1>2, <1>3, <1>4
<1>7. ASSUME NEW l \in {"setFrame", "setIndex", "lookup", "send"}, Goto(w, l), UNCHANGED task
      PROVE  /\ pc' \in [Worker -> Label] /\ task' \in [Worker -> Task]
             /\ \A v \in Worker : Locals(v)'
  <2>1. pc'[w] = l /\ task'[w] = task[w] => Locals(w)'
    BY <1>2, ItemFacts DEF Locals, Reading, Filling
  <2>2. QED
    BY <1>7, <2>1, LocalGoto DEF Label
<1>8. CASE SetCache(w)
  <2>1. PICK l \in {"setFrame", "setIndex", "lookup"} : Goto(w, l) /\ UNCHANGED task
    BY <1>8 DEF SetCache, FillCache
  <2>2. cache' \in [Token -> Entry]
    BY <1>3, <1>4, <1>6, <1>8 DEF SetCache, FillCache
  <2>3. \A v \in Worker \ {w} : pc'[v] = pc[v]
    BY <1>1, <2>1 DEF Goto
  <2>4. QED
    BY <1>1, <1>5, <1>7, <2>1, <2>2, <2>3, WorkerSafe DEF SafeInv, TypeOK, Tables, Filling
<1>9. CASE Lookup(w)
  <2>1. UNCHANGED cache /\ (Return(w) \/ (Goto(w, "send") /\ UNCHANGED task))
    BY <1>9 DEF Lookup
  <2>2. \A v \in Worker \ {w} : pc'[v] = pc[v]
    BY <1>1, <2>1 DEF Goto, Return
  <2>3. /\ pc' \in [Worker -> Label] /\ task' \in [Worker -> Task]
        /\ \A v \in Worker : Locals(v)'
    BY <1>7, <2>1, LocalReturn
  <2>4. QED
    BY <1>1, <1>5, <2>1, <2>2, <2>3, WorkerSafe DEF SafeInv, TypeOK, Tables, Filling
<1>10. QED
  BY <1>8, <1>9

\* A mapper's goroutine sends on the closed channel, and that is the end.
LEMMA SendPanics ==
    ASSUME SafeInv, NEW w \in Worker, Send(w), backend \notin {"run", "locking"}
    PROVE  /\ SafeInv'
           /\ UNCHANGED <<registry, cache, status, pc, task, todo, sent, said, txacks,
                          reports, backend, loops>>
<1>1. /\ pc[w] = "send" /\ panicked' = {w} /\ backend \in {"closed", "stopped"}
      /\ UNCHANGED <<registry, cache, status, pc, task, todo, sent, said, txacks,
                     reports, backend, loops>>
  BY DEF Send
<1>2. w \in Mapper
  BY <1>1, Running
<1>3. QED
  BY <1>1, <1>2 DEF SafeInv, TypeOK, Tables, Locals, Quiet, OnlyMapperPanics

\* The write to the socket.
LEMMA SendSafe ==
    ASSUME SafeInv, NEW w \in Worker, Send(w)
    PROVE  SafeInv'
<1> SUFFICES ASSUME backend \in {"run", "locking"} PROVE SafeInv'
  BY SendPanics
<1>1. pc[w] = "send" /\ backend \in {"run", "locking"} /\ pc \in [Worker -> Label]
  BY DEF Send, SafeInv, TypeOK, Label
<1>2. Return(w) /\ \A v \in Worker \ {w} : pc'[v] = pc[v]
  BY <1>1 DEF Send, Return, Goto
<1>3. /\ sent' = IF task[w].frame = None THEN sent
                 ELSE [sent EXCEPT ![task[w].frame][task[w].index] = More(@)]
      /\ UNCHANGED <<registry, cache, status, todo, said, txacks, reports, backend, loops,
                     panicked>>
  BY <1>1 DEF Send
<1>4. \A d \in Downlink : sent[d] \in [ItemsOf(d) -> 0 .. 2]
  BY DEF SafeInv, TypeOK
<1>5. task[w].frame # None =>
        task[w].frame \in Downlink /\ task[w].index \in ItemsOf(task[w].frame)
  BY <1>1 DEF SafeInv, TypeOK, Task, Locals, Filling
<1>6. sent = [d \in Downlink |-> sent[d]]
  BY DEF SafeInv, Tables
<1>7. (\A d \in Downlink : sent'[d] \in [ItemsOf(d) -> 0 .. 2])
      /\ sent' = [d \in Downlink |-> sent'[d]]
  <2>1. CASE task[w].frame = None
    BY <1>3, <1>4, <1>6, <2>1
  <2>2. CASE task[w].frame # None
    <3>1. \A n \in 0 .. 2 : More(n) \in 0 .. 2
      BY DEF More
    <3>2. sent' = [sent EXCEPT ![task[w].frame][task[w].index] = More(@)]
      BY <1>3, <2>2
    <3>3. QED
      BY <1>4, <1>5, <1>6, <2>2, <3>1, <3>2
  <2>3. QED
    BY <2>1, <2>2
<1>8. /\ pc' \in [Worker -> Label] /\ task' \in [Worker -> Task]
      /\ \A v \in Worker : Locals(v)'
  BY <1>2, LocalReturn
<1>9. UNCHANGED <<registry, cache, status, todo, said, txacks, reports, backend, loops,
                  panicked>>
  BY <1>3
<1>10. QED
  BY <1>1, <1>2, <1>7, <1>8, <1>9, WorkerSafe DEF SafeInv, TypeOK, Tables

\* Every step keeps the invariant.
LEMMA NextSafe == SafeInv /\ [Next]_vars => SafeInv'
<1> SUFFICES ASSUME SafeInv, [Next]_vars PROVE SafeInv'
  OBVIOUS
<1>1. CASE \E w \in Worker : WorkerStep(w)
  BY <1>1, ReadSafe, GetAcksSafe, FillSafe, SendSafe DEF WorkerStep
<1>2. CASE ~\E w \in Worker : WorkerStep(w)
  BY <1>2, OutsideSafe, StartSafe DEF Next
<1>3. QED
  BY <1>1, <1>2

\* The invariant holds in every reachable state, for every choice of the
\* constants: tokens may be shared and TX_ACKs repeated.
THEOREM UDPInvariant == Spec => []SafeInv
  BY InitSafe, NextSafe, PTL DEF Spec

\* The registry, the cache, the acks slices, the local variables of the
\* goroutines and the packets on their way stay within their types.
THEOREM UDPTypeOK == Spec => []TypeOK
<1>1. SafeInv => TypeOK
  BY DEF SafeInv
<1>2. QED
  BY UDPInvariant, <1>1, PTL

\* Nothing panics but a mapper's downlink on the channel that Stop has closed:
\* no handler or retry and not the exchange, and nobody indexes an acks slice out
\* of its range, whatever expiring cache items, repeated TX_ACKs, shared tokens
\* and Stop do in whatever order.
THEOREM UDPOnlyMapperPanics == Spec => []OnlyMapperPanics
<1>1. SafeInv => OnlyMapperPanics
  BY DEF SafeInv
<1>2. QED
  BY UDPInvariant, <1>1, PTL

-----------------------------------------------------------------------------
(* The attribution of answers.  Each step is about one downlink, and the   *)
(* others are not touched by it.                                           *)

\* What is known of a goroutine that is busy with a downlink, and that there is
\* one at most, depends on its locals and on the entries of that downlink.
\* Cached items may be lost and TX_ACKs may have been taken.
LEMMA Untouched ==
    ASSUME NEW d \in Downlink, Attributed(d),
           d \in todo' => d \in todo,
           sent'[d] = sent[d], said'[d] = said[d], status'[d] = status[d],
           reports'[d] = reports[d],
           cache'[TokenOf[d]].frame \in {None, cache[TokenOf[d]].frame},
           cache'[TokenOf[d]].index \in {None, cache[TokenOf[d]].index},
           cache'[TokenOf[d]].acks \in {None, cache[TokenOf[d]].acks},
           \A a \in txacks' : a.of = d => a \in txacks,
           \A w \in Worker : Busy(w, d)' => pc'[w] = pc[w] /\ task'[w] = task[w]
    PROVE  Attributed(d)'
<1>1. \A w \in Worker : /\ Sending(w, d)' => Sending(w, d)
                        /\ Handling(w, d)' => Handling(w, d)
                        /\ Busy(w, d)' => Busy(w, d)
  BY DEF Sending, Handling, Busy
<1>2. InOrder(d)' /\ (Awaiting(d)' <=> Awaiting(d))
  BY DEF Attributed, InOrder, Awaiting
<1>3. \A i : LastSent(d, i)' <=> LastSent(d, i)
  BY DEF LastSent
<1>4. \A err : AnswerOK(d, err)' <=> AnswerOK(d, err)
  BY <1>3 DEF AnswerOK
<1>5. IndexOK(d)'
  BY <1>1, <1>2, <1>3 DEF Attributed, IndexOK
<1>6. d \in todo' => Fresh(d)'
  BY <1>1 DEF Attributed, Fresh
<1>7. ASSUME NEW w \in Worker, Sending(w, d)' PROVE SenderOK(w, d)'
  BY <1>1, <1>7 DEF Attributed, SenderOK, Busy
<1>8. ASSUME NEW w \in Worker, Handling(w, d)' PROVE HandlerOK(w, d)'
  <2>1. HandlerOK(w, d) /\ pc'[w] = pc[w] /\ task'[w] = task[w]
    BY <1>1, <1>8 DEF Attributed, Busy
  <2>2. QED
    BY <1>3, <1>4, <2>1 DEF HandlerOK
<1>9. \A v, w \in Worker : Busy(v, d)' /\ Busy(w, d)' => v = w
  BY <1>1 DEF Attributed
<1>10. \A a \in txacks' : a.of = d => AnswerOK(d, a.err)'
  BY <1>4 DEF Attributed
<1>11. QED
  BY <1>1, <1>2, <1>5, <1>6, <1>7, <1>8, <1>9, <1>10 DEF Attributed

\* When the last item sent was answered, no item awaits its answer.
LEMMA Answered ==
    ASSUME NEW d \in Downlink, InOrder(d), NEW i \in ItemsOf(d), LastSent(d, i),
           said[d][i] # "ignored"
    PROVE  ~Awaiting(d)
<1>1. ASSUME NEW j \in ItemsOf(d), sent[d][j] > 0, said[d][j] = "ignored" PROVE FALSE
  <2>1. i \in Nat /\ j \in Nat
    BY ItemFacts
  <2>2. j < i \/ j = i \/ j > i
    BY <2>1
  <2>3. QED
    BY <1>1, <2>2 DEF InOrder, LastSent
<1>2. QED
  BY <1>1 DEF Awaiting

\* An item that awaits its answer is the last one that was sent.
LEMMA AwaitedIsLast ==
    ASSUME NEW d \in Downlink, InOrder(d), NEW i \in ItemsOf(d), sent[d][i] > 0,
           said[d][i] = "ignored"
    PROVE  LastSent(d, i)
BY DEF InOrder, LastSent

\* One item at most is the last one that was sent.
LEMMA LastUnique ==
    ASSUME NEW d \in Downlink, NEW i, NEW j, LastSent(d, i), LastSent(d, j)
    PROVE  i = j
<1>1. i \in Nat /\ j \in Nat
  BY ItemFacts DEF LastSent
<1>2. i < j \/ i = j \/ j < i
  BY <1>1
<1>3. QED
  BY <1>2 DEF LastSent

\* Nobody is busy with a downlink whose answer is awaited, and no TX_ACK about
\* it is on its way.
LEMMA AwaitingAlone ==
    ASSUME NEW d \in Downlink, Attributed(d), Awaiting(d)
    PROVE  /\ d \notin todo
           /\ \A w \in Worker : ~Busy(w, d)
           /\ \A a \in txacks : a.of # d
<1>1. d \notin todo
  BY DEF Attributed, Fresh, Awaiting
<1>2. ASSUME NEW err, AnswerOK(d, err) PROVE FALSE
  BY <1>2, Answered DEF AnswerOK, Attributed, Verdict
<1>3. ASSUME NEW w \in Worker, Sending(w, d) PROVE FALSE
  BY <1>3 DEF Attributed, SenderOK, Awaiting
<1>4. QED
  BY <1>1, <1>2, <1>3 DEF Attributed, HandlerOK, Busy

\* Initially no downlink was sent.
LEMMA InitAttribution == Init => AttributionInv
<1> SUFFICES ASSUME Init PROVE AttributionInv
  OBVIOUS
<1>1. SafeInv
  BY InitSafe
<1>2. ASSUME NEW d \in Downlink PROVE Attributed(d)
  <2>1. /\ \A i \in ItemsOf(d) : /\ sent[d][i] = 0 /\ said[d][i] = "ignored"
                                 /\ status[d][i] = "ignored"
        /\ reports[d] = 0 /\ txacks = {}
    BY DEF Init
  <2>2. \A w \in Worker : ~Busy(w, d) /\ ~Sending(w, d) /\ ~Handling(w, d)
    BY DEF Init, Busy, Sending, Handling, Reading, Filling
  <2>3. /\ cache[TokenOf[d]].frame = None /\ cache[TokenOf[d]].index = None
        /\ cache[TokenOf[d]].acks = None
    BY ItemFacts DEF Init
  <2>4. InOrder(d) /\ ~Awaiting(d) /\ Fresh(d)
    BY <2>1, <2>2 DEF InOrder, Awaiting, Fresh
  <2>5. QED
    BY <2>1, <2>2, <2>3, <2>4 DEF Attributed, IndexOK
<1>3. QED
  BY <1>1, <1>2 DEF AttributionInv

\* The steps that start nothing for a downlink, or end the work on one.
LEMMA OtherAttribution ==
    ASSUME AttributionInv,
           \/ \E t \in Token : \E key \in {"frame", "index", "acks"} : Expire(t, key)
           \/ cleanup \/ Stop \/ Close \/ Stopped
           \/ \E l \in loops : LoopEnds(l)
           \/ UNCHANGED vars,
           NEW d \in Downlink
    PROVE  Attributed(d)'
<1>1. Attributed(d) /\ TokenOf[d] \in Token /\ SafeInv
  BY ItemFacts DEF AttributionInv
<1>2. ASSUME NEW t \in Token, NEW key \in {"frame", "index", "acks"}, Expire(t, key)
      PROVE  Attributed(d)'
  <2>1. /\ cache'[TokenOf[d]].frame \in {None, cache[TokenOf[d]].frame}
        /\ cache'[TokenOf[d]].index \in {None, cache[TokenOf[d]].index}
        /\ cache'[TokenOf[d]].acks \in {None, cache[TokenOf[d]].acks}
    BY <1>1, <1>2 DEF Expire, SafeInv, TypeOK
  <2>2. QED
    BY <1>1, <1>2, <2>1, Untouched DEF Expire
<1>3. CASE cleanup \/ Stop \/ Close \/ Stopped \/ (\E l \in loops : LoopEnds(l))
           \/ UNCHANGED vars
  <2>1. UNCHANGED <<cache, status, pc, task, todo, sent, said, txacks, reports>>
    BY <1>3 DEF cleanup, Stop, Close, Stopped, LoopEnds, vars
  <2>2. QED
    BY <1>1, <2>1, Untouched
<1>4. QED
  BY <1>2, <1>3

\* A gateway answers: the item awaited its answer, so nobody was busy with the
\* downlink, and the TX_ACK is the only one about it.
LEMMA AnswerAttribution ==
    ASSUME AttributionInv, NEW e \in Downlink, NEW i \in ItemsOf(e), NEW err \in BOOLEAN,
           GatewayAnswers(e, i, err), NEW d \in Downlink
    PROVE  Attributed(d)'
<1>1. Attributed(d) /\ SafeInv
  BY DEF AttributionInv
<1>2. UNCHANGED <<cache, status, pc, task, todo, sent, reports>>
  BY DEF GatewayAnswers
<1>3. CASE d # e
  <2>1. said'[d] = said[d]
    BY <1>1, <1>3 DEF GatewayAnswers, SafeInv, Tables
  <2>2. \A a \in txacks' : a.of = d => a \in txacks
    BY <1>3 DEF GatewayAnswers
  <2>3. QED
    BY <1>1, <1>2, <2>1, <2>2, Untouched
<1>4. CASE d = e
  <2>1. sent[d][i] > 0 /\ said[d][i] = "ignored"
    BY <1>4 DEF GatewayAnswers
  <2>2. Awaiting(d) /\ LastSent(d, i) /\ InOrder(d)
    BY <1>1, <1>4, <2>1, AwaitedIsLast DEF Awaiting, Attributed
  <2>3. /\ d \notin todo /\ (\A w \in Worker : ~Busy(w, d)) /\ \A a \in txacks : a.of # d
        /\ reports[d] = 0
    BY <1>1, <2>2, AwaitingAlone DEF Attributed
  <2>4. \A j \in ItemsOf(d) : said'[d][j] = IF j = i THEN Verdict(err) ELSE said[d][j]
    BY <1>1, <1>4 DEF GatewayAnswers, SafeInv, TypeOK, Tables, Verdict
  <2>5. \A a \in txacks' : a.of = d => a = [of |-> d, item |-> i, err |-> err]
    BY <1>4, <2>3 DEF GatewayAnswers
  <2>6. LastSent(d, i)' /\ said'[d][i] = Verdict(err)
    BY <1>2, <1>4, <2>2, <2>4 DEF LastSent
  <2>7. InOrder(d)'
    BY <1>2, <1>4, <2>1, <2>2, <2>4 DEF InOrder, Verdict
  <2>8. AnswerOK(d, err)' /\ ~Awaiting(d)'
    <3>1. \A j \in ItemsOf(d) : sent[d][j] > 0 /\ said[d][j] = "ignored" => j = i
      BY <2>2, <2>1, AwaitedIsLast, LastUnique
    <3>2. QED
      BY <1>2, <1>4, <2>3, <2>4, <2>6, <3>1 DEF AnswerOK, Awaiting, Verdict
  <2>9. \A w \in Worker : ~Busy(w, d)' /\ ~Sending(w, d)' /\ ~Handling(w, d)'
    BY <1>2, <2>3 DEF Busy, Sending, Handling
  <2>10. cache[TokenOf[d]].index = None \/ LastSent(d, cache[TokenOf[d]].index)
    BY <1>1, <2>2 DEF Attributed, IndexOK
  <2>11. IndexOK(d)'
    BY <1>2, <2>10 DEF IndexOK, LastSent
  <2>12. QED
    BY <1>1, <1>2, <2>3, <2>5, <2>7, <2>8, <2>9, <2>11 DEF Attributed
<1>5. QED
  BY <1>3, <1>4

\* The sender of a downlink with items goes on with the first of them, and the
\* other goroutines do not move.
LEMMA FirstSend ==
    ASSUME SafeInv, NEW e \in Downlink, SendDownlinkFrame(e), Items[e] # 0
    PROVE  /\ SenderOf[e] \in Worker
           /\ pc'[SenderOf[e]] = "setAcks" /\ task'[SenderOf[e]].frame = e
           /\ task'[SenderOf[e]].index = 0 /\ task'[SenderOf[e]].acks = e
           /\ \A v \in Worker \ {SenderOf[e]} : pc'[v] = pc[v] /\ task'[v] = task[v]
<1> DEFINE s == SenderOf[e]
<1>1. s \in Worker
  BY DownlinkAssumption DEF Worker
<1>2. /\ task' = [task EXCEPT ![s] = [NoTask EXCEPT !.frame = e, !.index = 0, !.acks = e]]
      /\ pc' = [pc EXCEPT ![s] = "setAcks"]
  BY DEF SendDownlinkFrame, Goto
<1>3. DOMAIN pc = Worker /\ DOMAIN task = Worker
  BY DEF SafeInv, TypeOK
<1> HIDE DEF s
<1>4. QED
  <2>1. /\ pc'[s] = "setAcks" /\ task'[s].frame = e
        /\ task'[s].index = 0 /\ task'[s].acks = e
        /\ \A v \in Worker \ {s} : pc'[v] = pc[v] /\ task'[v] = task[v]
    BY <1>1, <1>2, <1>3 DEF NoTask
  <2>2. QED
    BY <1>1, <2>1 DEF s

\* A downlink is sent for the first time.
LEMMA StartAttribution ==
    ASSUME AttributionInv, NEW e \in Downlink, SendDownlinkFrame(e), NEW d \in Downlink
    PROVE  Attributed(d)'
<1> DEFINE s == SenderOf[e]
<1>1. Attributed(d) /\ SafeInv /\ s \in Worker /\ pc[s] = "idle" /\ e \in todo
  BY DownlinkAssumption DEF AttributionInv, Worker, SendDownlinkFrame
<1>2. UNCHANGED <<cache, status, sent, said, txacks, reports>> /\ todo' = todo \ {e}
  BY DEF SendDownlinkFrame
<1> SUFFICES ASSUME Items[e] # 0 PROVE Attributed(d)'
  BY <1>1, <1>2, Untouched DEF SendDownlinkFrame
<1>3. /\ pc'[s] = "setAcks" /\ task'[s].frame = e
      /\ task'[s].index = 0 /\ task'[s].acks = e
      /\ \A v \in Worker \ {s} : pc'[v] = pc[v] /\ task'[v] = task[v]
  BY <1>1, FirstSend
<1> HIDE DEF s
<1>4. CASE d # e
  <2>1. \A w \in Worker : Busy(w, d)' => pc'[w] = pc[w] /\ task'[w] = task[w]
    BY <1>3, <1>4 DEF Busy, Sending, Handling, Reading, Filling
  <2>2. QED
    BY <1>1, <1>2, <2>1, Untouched
<1>5. CASE d = e
  <2>1. Fresh(d) /\ InOrder(d)
    BY <1>1, <1>5 DEF Attributed
  <2>2. \A w \in Worker : /\ Sending(w, d)' => w = s
                          /\ ~Handling(w, d)'
                          /\ Busy(w, d)' => w = s
    BY <1>3, <2>1 DEF Fresh, Busy, Sending, Handling, Reading, Filling
  <2>3. SenderOK(s, d)'
    <3>1. \A j \in ItemsOf(d) : ~(j < 0)
      BY ItemFacts
    <3>2. QED
      BY <1>2, <1>3, <1>5, <2>1, <3>1 DEF SenderOK, Fresh
  <2>4. ~Awaiting(d)' /\ InOrder(d)'
    BY <1>2, <2>1 DEF Awaiting, Fresh, InOrder
  <2>5. IndexOK(d)'
    BY <1>2, <2>1, <2>2, <2>4 DEF IndexOK, Fresh
  <2>6. QED
    BY <1>1, <1>2, <1>5, <2>1, <2>2, <2>3, <2>4, <2>5 DEF Attributed, Fresh
<1>6. QED
  BY <1>4, <1>5

\* A goroutine that handles a poll or an uplink is not busy with a downlink.
LEMMA PacketAttribution ==
    ASSUME AttributionInv, NEW h \in Handler,
           handlePushData(h) \/ \E g \in Gateway : handlePullData(h, g),
           NEW d \in Downlink
    PROVE  Attributed(d)'
<1>1. Attributed(d) /\ SafeInv /\ h \in Worker
  BY DEF AttributionInv, Worker
<1>2. UNCHANGED <<cache, status, task, todo, sent, said, txacks, reports>>
      /\ Starts(h) /\ Goto(h, "send")
  BY DEF handlePushData, handlePullData
<1>3. task[h].frame = None /\ pc'[h] = "send" /\ \A v \in Worker \ {h} : pc'[v] = pc[v]
  BY <1>1, <1>2 DEF Starts, Goto, SafeInv, TypeOK, Locals
<1>4. \A w \in Worker : Busy(w, d)' => pc'[w] = pc[w] /\ task'[w] = task[w]
  BY <1>2, <1>3, ItemFacts DEF Busy, Sending, Handling, Reading
<1>5. QED
  BY <1>1, <1>2, <1>4, Untouched

\* A goroutine that returns is not busy any more.
LEMMA ReturnAttribution ==
    ASSUME AttributionInv, NEW w \in Worker, Return(w),
           UNCHANGED <<cache, status, todo, sent, said, txacks, reports>>,
           NEW d \in Downlink
    PROVE  Attributed(d)'
<1>1. Attributed(d) /\ SafeInv
  BY DEF AttributionInv
<1>2. pc'[w] = "idle" /\ \A v \in Worker \ {w} : pc'[v] = pc[v] /\ task'[v] = task[v]
  BY <1>1 DEF Return, Goto, SafeInv, TypeOK
<1>3. \A v \in Worker : Busy(v, d)' => pc'[v] = pc[v] /\ task'[v] = task[v]
  BY <1>2 DEF Busy, Sending, Handling, Reading, Filling
<1>4. QED
  BY <1>1, <1>3, Untouched

\* The TX_ACK is taken by the goroutine that handles it, and by no other.
LEMMA TXACKAttribution ==
    ASSUME Distinguishable, AttributionInv, NEW h \in Handler, NEW a \in txacks,
           handleTXACK(h, a), NEW d \in Downlink
    PROVE  Attributed(d)'
<1>1. /\ Attributed(d) /\ SafeInv /\ h \in Worker /\ a.of \in Downlink /\ pc[h] = "idle"
      /\ a.err \in BOOLEAN
  BY DEF AttributionInv, Worker, SafeInv, TypeOK, TxAck, handleTXACK, Starts
<1>2. UNCHANGED <<cache, status, todo, sent, said, reports>> /\ txacks' = txacks \ {a}
  BY DEF handleTXACK, Distinguishable
<1>3. /\ pc'[h] = "getFrame" /\ task'[h].tok = TokenOf[a.of] /\ task'[h].err = a.err
      /\ \A v \in Worker \ {h} : pc'[v] = pc[v] /\ task'[v] = task[v]
  BY <1>1 DEF handleTXACK, Goto, NoTask, SafeInv, TypeOK
<1>4. CASE d # a.of
  <2>1. TokenOf[d] # TokenOf[a.of]
    BY <1>1, <1>4 DEF Distinguishable
  <2>2. \A w \in Worker : Busy(w, d)' => pc'[w] = pc[w] /\ task'[w] = task[w]
    BY <1>3, <2>1 DEF Busy, Sending, Handling, Reading, Filling
  <2>3. QED
    BY <1>1, <1>2, <2>2, Untouched
<1>5. CASE d = a.of
  <2>1. /\ AnswerOK(d, a.err) /\ d \notin todo /\ InOrder(d)
        /\ \A b \in txacks : b.of = d => b = a
        /\ \A w \in Worker : ~Sending(w, d) /\ ~Handling(w, d)
    BY <1>1, <1>5 DEF Attributed, Fresh, SenderOK, HandlerOK
  <2>2. \A b \in txacks' : b.of # d
    BY <1>2, <2>1
  <2>3. \A w \in Worker : /\ ~Sending(w, d)'
                          /\ Handling(w, d)' => w = h
                          /\ Busy(w, d)' => w = h
    BY <1>3, <2>1 DEF Busy, Sending, Handling, Reading, Filling
  <2>4. AnswerOK(d, a.err)' /\ InOrder(d)'
    BY <1>2, <2>1 DEF AnswerOK, LastSent, InOrder
  <2>5. HandlerOK(h, d)'
    BY <1>3, <2>2, <2>4 DEF HandlerOK, AnswerOK
  <2>6. IndexOK(d)'
    BY <1>1, <1>2, <1>5 DEF Attributed, IndexOK, LastSent
  <2>7. Awaiting(d)' => reports'[d] = 0
    BY <2>4 DEF AnswerOK
  <2>8. QED
    BY <1>1, <1>2, <2>1, <2>2, <2>3, <2>4, <2>5, <2>6, <2>7 DEF Attributed
<1>6. QED
  BY <1>4, <1>5

\* Every goroutine that handles a TX_ACK is busy with a downlink.
LEMMA HandledDownlink ==
    ASSUME SafeInv, NEW w \in Worker, pc[w] \in Reading
    PROVE  \E e \in Downlink : Handling(w, e)
BY DEF SafeInv, Locals, Handling

\* The goroutine finds its downlink, and the item sent last, in the cache.
LEMMA ReadAttribution ==
    ASSUME Distinguishable, AttributionInv, NEW w \in Worker, GetFrame(w) \/ GetIndex(w),
           NEW d \in Downlink
    PROVE  Attributed(d)'
<1>1. Attributed(d) /\ SafeInv /\ pc[w] \in Reading
  BY DEF AttributionInv, GetFrame, GetIndex, Reading
<1>2. UNCHANGED <<cache, status, todo, sent, said, txacks, reports>>
  BY DEF GetFrame, GetIndex
<1>3. CASE Return(w)
  BY <1>2, <1>3, ReturnAttribution
<1>4. CASE ~Return(w)
  <2>1. PICK e \in Downlink : Handling(w, e)
    BY <1>1, HandledDownlink
  <2>2. /\ pc'[w] \in {"getIndex", "getAcks"}
        /\ task'[w].tok = task[w].tok /\ task'[w].err = task[w].err
        /\ \A v \in Worker \ {w} : pc'[v] = pc[v] /\ task'[v] = task[v]
    BY <1>1, <1>4 DEF GetFrame, GetIndex, Goto, SafeInv, TypeOK, Task
  <2>3. CASE d # e
    <3>1. TokenOf[d] # TokenOf[e]
      BY <2>3 DEF Distinguishable
    <3>2. \A v \in Worker : Busy(v, d)' => pc'[v] = pc[v] /\ task'[v] = task[v]
      BY <2>1, <2>2, <3>1 DEF Busy, Sending, Handling, Filling
    <3>3. QED
      BY <1>1, <1>2, <3>2, Untouched
  <2>4. CASE d = e
    <3>1. HandlerOK(w, d) /\ task[w].tok = TokenOf[d]
      BY <1>1, <2>1, <2>4 DEF Attributed, Handling
    <3>2. /\ pc'[w] \in {"getIndex", "getAcks"} => task'[w].frame = d
          /\ pc'[w] = "getAcks" => LastSent(d, task'[w].index)
      <4>1. CASE GetFrame(w)
        BY <1>1, <1>4, <3>1, <4>1
           DEF GetFrame, Goto, SafeInv, TypeOK, Task, Attributed
      <4>2. CASE GetIndex(w)
        <5>1. pc'[w] = "getAcks" /\ task'[w].index = cache[TokenOf[d]].index
              /\ task'[w].frame = task[w].frame /\ cache[TokenOf[d]].index # None
          BY <1>1, <1>4, <3>1, <4>2 DEF GetIndex, Goto, SafeInv, TypeOK, Task
        <5>2. LastSent(d, cache[TokenOf[d]].index)
          BY <1>1, <2>1, <2>4, <5>1 DEF Attributed, IndexOK
        <5>3. QED
          BY <3>1, <4>2, <5>1, <5>2 DEF HandlerOK, GetIndex
      <4>3. QED
        BY <4>1, <4>2
    <3>3. \A v \in Worker : /\ Handling(v, d)' <=> Handling(v, d)
                            /\ Sending(v, d)' <=> Sending(v, d)
      BY <1>1, <2>1, <2>2, <2>4 DEF Handling, Sending, Reading, Filling
    <3>4. HandlerOK(w, d)'
      BY <1>2, <2>2, <3>1, <3>2 DEF HandlerOK, AnswerOK, LastSent
    <3>5. \A v \in Worker : Handling(v, d)' => HandlerOK(v, d)'
      BY <1>1, <2>1, <2>4, <3>3, <3>4 DEF Attributed, Busy
    <3>6. \A v \in Worker : Busy(v, d) => v = w
      BY <1>1, <2>1, <2>4 DEF Attributed, Busy
    <3>7. \A v \in Worker : ~Sending(v, d)'
      BY <1>1, <2>1, <2>4, <3>3, <3>6 DEF Busy, Sending, Handling, Reading, Filling
    <3>8. InOrder(d)' /\ IndexOK(d)' /\ (Awaiting(d)' => reports'[d] = 0)
      <4>1. InOrder(d)' /\ (Awaiting(d)' <=> Awaiting(d))
        BY <1>1, <1>2 DEF Attributed, InOrder, Awaiting
      <4>2. IndexOK(d)'
        BY <1>1, <1>2, <3>3, <4>1 DEF Attributed, IndexOK, LastSent
      <4>3. QED
        BY <1>1, <1>2, <4>1, <4>2 DEF Attributed
    <3>9. d \notin todo
      BY <1>1, <2>1, <2>4 DEF Attributed, Fresh, Busy
    <3>10. \A a \in txacks' : a.of # d
      BY <1>2, <3>1 DEF HandlerOK
    <3>11. QED
      BY <1>1, <1>2, <3>3, <3>5, <3>6, <3>7, <3>8, <3>9, <3>10 DEF Attributed, Busy
  <2>5. QED
    BY <2>3, <2>4
<1>5. QED
  BY <1>3, <1>4

\* What GetAcks does: the goroutine gives up, or it notes the answer for the item
\* that was sent last, for which it was given.
Notes(w, e) ==
    /\ Handling(w, e) /\ HandlerOK(w, e)
    /\ cache[task[w].tok].acks = e /\ task[w].frame = e
    /\ task[w].index \in ItemsOf(e) /\ LastSent(e, task[w].index)
    /\ said[e][task[w].index] = Verdict(task[w].err)
    /\ SetStatus(w, e) /\ (Retry(w, e) \/ Report(w))

\* That is all it does.
LEMMA GetAcksNotes ==
    ASSUME AttributionInv, NEW w \in Worker, GetAcks(w)
    PROVE  \/ Return(w) /\ UNCHANGED <<status, reports>>
           \/ \E e \in Downlink : Notes(w, e)
<1> DEFINE a == cache[task[w].tok].acks
<1>1. SafeInv /\ pc[w] = "getAcks" /\ pc[w] \in Reading
  BY DEF AttributionInv, GetAcks, Reading
<1>2. CASE Return(w) /\ UNCHANGED <<status, reports>>
  BY <1>2
<1>3. CASE a \in Downlink /\ Sane(w, a) /\ ~(Return(w) /\ UNCHANGED <<status, reports>>)
  <2>1. PICK e \in Downlink : Handling(w, e)
    BY <1>1, HandledDownlink
  <2>2. HandlerOK(w, e) /\ a = e /\ task[w].frame = e
    BY <1>1, <1>3, <2>1, ItemFacts DEF AttributionInv, Attributed, Handling, HandlerOK
  <2>3. /\ task[w].index \in ItemsOf(e) /\ LastSent(e, task[w].index)
        /\ said[e][task[w].index] = Verdict(task[w].err)
    BY <1>1, <2>2, LastUnique DEF HandlerOK, AnswerOK, LastSent
  <2>4. SetStatus(w, e) /\ (Retry(w, e) \/ Report(w))
    BY <1>3, <2>2, <2>3 DEF GetAcks
  <2>5. QED
    BY <2>1, <2>2, <2>3, <2>4 DEF Notes
<1>4. QED
  BY <1>2, <1>3 DEF GetAcks

\* The status is set for the item the gateway answered for, and then the next
\* item is tried or the downlink is reported.
LEMMA GetAcksAttribution ==
    ASSUME Distinguishable, AttributionInv, NEW w \in Worker, GetAcks(w),
           NEW d \in Downlink
    PROVE  Attributed(d)'
<1> DEFINE i == task[w].index
<1>1. Attributed(d) /\ SafeInv /\ pc[w] = "getAcks" /\ pc[w] \in Reading
  BY DEF AttributionInv, GetAcks, Reading
<1>2. UNCHANGED <<cache, todo, sent, said, txacks>>
  BY DEF GetAcks
<1>3. CASE Return(w) /\ UNCHANGED <<status, reports>>
  BY <1>2, <1>3, ReturnAttribution
<1>4. CASE \E e \in Downlink : Notes(w, e)
  <2>1. PICK e \in Downlink : Notes(w, e)
    BY <1>4
  <2>2. Handling(w, e) /\ HandlerOK(w, e) /\ Attributed(e) /\ task[w].frame = e
    BY <2>1 DEF Notes, AttributionInv
  <2>3. i \in ItemsOf(e) /\ LastSent(e, i) /\ said[e][i] = Verdict(task[w].err)
    BY <2>1 DEF Notes
  <2>4. SetStatus(w, e) /\ (Retry(w, e) \/ Report(w))
    BY <2>1 DEF Notes
  <2>5. /\ \A v \in Worker \ {w} : pc'[v] = pc[v] /\ task'[v] = task[v]
        /\ pc'[w] \in {"idle", "setAcks"}
        /\ pc'[w] = "setAcks" => task'[w].frame = e
    BY <1>1, <2>2, <2>4 DEF Retry, Report, Return, Goto, SafeInv, TypeOK, Task
  <2>6. CASE d # e
    <3>1. status'[d] = status[d] /\ reports'[d] = reports[d]
      BY <1>1, <2>2, <2>4, <2>6 DEF SetStatus, Retry, Report, SafeInv, TypeOK, Tables
    <3>2. \A v \in Worker : Busy(v, d)' => pc'[v] = pc[v] /\ task'[v] = task[v]
      BY <2>5, <2>6 DEF Busy, Sending, Handling, Reading, Filling
    <3>3. QED
      BY <1>1, <1>2, <3>1, <3>2, Untouched
  <2>7. CASE d = e
    <3>1. \A j \in ItemsOf(d) : status'[d][j] = IF j = i THEN Verdict(task[w].err)
                                                         ELSE status[d][j]
      BY <1>1, <2>3, <2>4, <2>7 DEF SetStatus, SafeInv, TypeOK, Tables, Verdict
    <3>2. /\ d \notin todo /\ reports[d] = 0 /\ (\A b \in txacks : b.of # d)
          /\ \A v \in Worker : Busy(v, d) => v = w
      BY <1>1, <2>2, <2>7 DEF Attributed, Fresh, Busy, HandlerOK, AnswerOK
    <3>3. InOrder(d) /\ ~Awaiting(d)
      BY <1>1, <2>3, <2>7, Answered DEF Attributed, Verdict
    <3>4. ~Awaiting(d)'
      BY <1>2, <3>3 DEF Awaiting
    <3>5. \A v \in Worker : /\ ~Handling(v, d)'
                            /\ Sending(v, d)' => v = w /\ pc'[w] = "setAcks"
      BY <2>5, <3>2 DEF Busy, Sending, Handling, Reading, Filling
    <3>6. reports'[d] \in {0, 1} /\ (pc'[w] = "setAcks" => Retry(w, e) /\ reports'[d] = 0)
      BY <1>1, <2>2, <2>4, <2>7, <3>2
         DEF Retry, Report, Return, Goto, More, SafeInv, TypeOK
    <3>7. InOrder(d)'
      BY <1>2, <2>3, <2>7, <3>1, <3>3, <3>6 DEF InOrder
    <3>8. pc'[w] = "setAcks" => SenderOK(w, d)'
      <4> SUFFICES ASSUME pc'[w] = "setAcks" PROVE SenderOK(w, d)'
        OBVIOUS
      <4>1. task'[w].index = i + 1 /\ task'[w].acks = d /\ task[w].err
        BY <1>1, <2>2, <2>7, <3>6 DEF Retry, SafeInv, TypeOK, Task
      <4>2. said[d][i] = "error" /\ i \in Nat /\ ItemsOf(d) \subseteq Nat
        BY <2>3, <2>7, <4>1, ItemFacts DEF Verdict
      <4>3. \A j \in ItemsOf(d) : IF j < i + 1 THEN said[d][j] = "error"
                                               ELSE sent[d][j] = 0
        <5>1. ASSUME NEW j \in ItemsOf(d), j < i PROVE said[d][j] = "error"
          BY <5>1, <2>3, <2>7, <3>3 DEF InOrder, LastSent
        <5>2. ASSUME NEW j \in ItemsOf(d), j > i PROVE sent[d][j] = 0
          BY <5>2, <2>3, <2>7 DEF LastSent
        <5>3. \A j \in ItemsOf(d) : j < i \/ j = i \/ j > i
          BY <4>2
        <5>4. QED
          BY <4>2, <5>1, <5>2, <5>3
      <4>4. QED
        BY <1>2, <3>2, <3>6, <4>1, <4>3 DEF SenderOK
    <3>9. IndexOK(d)'
      BY <1>2, <3>2, <3>4, <3>5 DEF IndexOK
    <3>10. QED
      BY <1>1, <1>2, <3>2, <3>4, <3>5, <3>7, <3>8, <3>9 DEF Attributed, Busy
  <2>8. QED
    BY <2>6, <2>7
<1>5. QED
  BY <1>3, <1>4, GetAcksNotes

\* The goroutine puts its own downlink, and the item it is about to send, into
\* the cache.
LEMMA FillAttribution ==
    ASSUME Distinguishable, AttributionInv, NEW w \in Worker, SetCache(w) \/ Lookup(w),
           NEW d \in Downlink
    PROVE  Attributed(d)'
<1> DEFINE e == task[w].frame
<1>1. /\ Attributed(d) /\ SafeInv /\ pc[w] \in Filling /\ e \in Downlink
      /\ Sending(w, e) /\ SenderOK(w, e) /\ Attributed(e)
  <2>1. SafeInv /\ pc[w] \in Filling /\ e \in Downlink
    BY DEF AttributionInv, SafeInv, Locals, SetCache, FillCache, Lookup, Filling
  <2>2. Sending(w, e)
    BY <2>1 DEF Sending
  <2>3. QED
    BY <2>1, <2>2 DEF AttributionInv, Attributed
<1>2. UNCHANGED <<status, todo, sent, said, txacks, reports>>
  BY DEF SetCache, FillCache, Lookup
<1>3. CASE Return(w) /\ UNCHANGED cache
  BY <1>2, <1>3, ReturnAttribution
<1>4. CASE ~(Return(w) /\ UNCHANGED cache)
  <2>1. /\ UNCHANGED task /\ pc'[w] \in Filling \cup {"send"}
        /\ \A v \in Worker \ {w} : pc'[v] = pc[v]
        /\ pc'[w] \in {"lookup", "send"} =>
             cache'[TokenOf[e]].index \in {None, task[w].index}
    <3>1. CASE SetCache(w)
      BY <1>1, <3>1, ItemFacts
         DEF SetCache, FillCache, Goto, Cached, SafeInv, TypeOK, Filling
    <3>2. CASE Lookup(w)
      BY <1>1, <1>4, <3>2 DEF Lookup, Goto, SafeInv, TypeOK, SenderOK
    <3>3. QED
      BY <3>1, <3>2
  <2>2. \A v \in Worker : /\ Sending(v, d)' <=> Sending(v, d)
                          /\ Handling(v, d)' <=> Handling(v, d)
                          /\ Busy(v, d)' <=> Busy(v, d)
    BY <1>1, <2>1 DEF Sending, Handling, Busy, Filling, Reading
  <2>3. CASE d # e
    <3>1. cache'[TokenOf[d]] = cache[TokenOf[d]]
      <4>1. TokenOf[d] # TokenOf[e] /\ TokenOf[d] \in Token
        BY <1>1, <2>3, ItemFacts DEF Distinguishable
      <4>2. QED
        BY <1>1, <4>1 DEF SetCache, FillCache, Lookup, SafeInv, TypeOK
    <3>2. \A v \in Worker : Busy(v, d)' => pc'[v] = pc[v] /\ task'[v] = task[v]
      BY <1>1, <2>1, <2>3 DEF Busy, Sending, Handling, Filling, Reading
    <3>3. QED
      BY <1>1, <1>2, <3>1, <3>2, Untouched
  <2>4. CASE d = e
    <3>1. /\ cache'[TokenOf[d]].frame \in {None, d} /\ cache'[TokenOf[d]].acks \in {None, d}
      <4>1. /\ cache[TokenOf[d]].frame \in {None, d} /\ cache[TokenOf[d]].acks \in {None, d}
            /\ task[w].acks = d /\ task[w].frame = d /\ TokenOf[d] \in Token
        BY <1>1, <2>4, ItemFacts DEF Attributed, SenderOK
      <4>2. CASE Lookup(w)
        BY <4>1, <4>2 DEF Lookup
      <4>3. CASE SetCache(w)
        BY <1>1, <4>1, <4>3 DEF SetCache, FillCache, Cached, SafeInv, TypeOK
      <4>4. QED
        BY <4>2, <4>3
    <3>2. SenderOK(w, d)'
      BY <1>1, <1>2, <2>1, <2>4 DEF SenderOK
    <3>3. \A v \in Worker : Busy(v, d) => v = w
      BY <1>1, <2>4 DEF Attributed, Busy
    <3>4. \A v \in Worker : ~Handling(v, d)
      BY <1>1, <3>3 DEF Busy, Handling, Filling, Reading
    <3>5. InOrder(d)' /\ ~Awaiting(d)'
      BY <1>1, <1>2, <2>4 DEF Attributed, InOrder, Awaiting, SenderOK
    <3>6. IndexOK(d)' /\ (\A a \in txacks' : a.of # d) /\ d \notin todo'
      BY <1>1, <1>2, <2>2, <2>4, <3>4, <3>5 DEF Attributed, IndexOK, SenderOK, Fresh, Busy
    <3>7. QED
      BY <2>2, <3>1, <3>2, <3>3, <3>4, <3>5, <3>6 DEF Attributed, Busy
  <2>5. QED
    BY <2>3, <2>4
<1>5. QED
  BY <1>3, <1>4

\* The item is written to the socket, for the first time, and awaits its answer.
LEMMA SendAttribution ==
    ASSUME AttributionInv, NEW w \in Worker, Send(w), NEW d \in Downlink
    PROVE  Attributed(d)'
<1> DEFINE e == task[w].frame
           i == task[w].index
<1>0. Attributed(d) /\ SafeInv
  BY DEF AttributionInv
<1> SUFFICES ASSUME backend \in {"run", "locking"} PROVE Attributed(d)'
  BY <1>0, SendPanics, Untouched
<1>1. Attributed(d) /\ SafeInv /\ pc[w] = "send" /\ backend \in {"run", "locking"}
  BY <1>0 DEF Send
<1>2. /\ Return(w) /\ UNCHANGED <<cache, status, todo, said, txacks, reports>>
      /\ sent' = IF e = None THEN sent ELSE [sent EXCEPT ![e][i] = More(@)]
  BY <1>1 DEF Send
<1>3. CASE e = None
  BY <1>2, <1>3, ReturnAttribution
<1>4. CASE e # None
  <2>1. e \in Downlink /\ i \in ItemsOf(e)
    BY <1>1, <1>4 DEF SafeInv, TypeOK, Task, Locals, Filling
  <2>2. Sending(w, e) /\ Attributed(e) /\ SenderOK(w, e)
    BY <1>1, <2>1 DEF AttributionInv, Attributed, Sending, Filling
  <2>3. pc'[w] = "idle" /\ \A v \in Worker \ {w} : pc'[v] = pc[v] /\ task'[v] = task[v]
    BY <1>1, <1>2 DEF Return, Goto, SafeInv, TypeOK
  <2>4. sent' = [sent EXCEPT ![e][i] = More(@)]
    BY <1>2, <1>4
  <2>5. CASE d # e
    <3>1. sent'[d] = sent[d]
      BY <1>1, <2>4, <2>5 DEF SafeInv, Tables
    <3>2. \A v \in Worker : Busy(v, d)' => pc'[v] = pc[v] /\ task'[v] = task[v]
      BY <2>3 DEF Busy, Sending, Handling, Filling, Reading
    <3>3. QED
      BY <1>1, <1>2, <3>1, <3>2, Untouched
  <2>6. CASE d = e
    <3>1. i \in Nat /\ ItemsOf(d) \subseteq Nat
      BY <2>1, <2>6, ItemFacts
    <3>2. sent[d][i] = 0 /\ InOrder(d)
      BY <2>1, <2>2, <2>6, <3>1 DEF SenderOK, Attributed
    <3>3. \A j \in ItemsOf(d) : sent'[d][j] = IF j = i THEN 1 ELSE sent[d][j]
      BY <1>1, <2>1, <2>4, <2>6, <3>2 DEF SafeInv, TypeOK, Tables, More
    <3>4. /\ d \notin todo /\ reports[d] = 0 /\ (\A a \in txacks : a.of # d)
          /\ \A v \in Worker : Busy(v, d) => v = w
      BY <2>2, <2>6 DEF Attributed, Fresh, Busy, SenderOK
    <3>5. \A v \in Worker : ~Sending(v, d)' /\ ~Handling(v, d)'
      BY <2>3, <3>4 DEF Busy, Sending, Handling, Reading, Filling
    <3>6. PICK k \in ItemsOf(d) : k = i
      BY <2>1, <2>6
    <3>7. LastSent(d, k)'
      <4>1. \A j \in ItemsOf(d) : j > k => sent[d][j] = 0 /\ j # k
        BY <2>2, <2>6, <3>1, <3>6 DEF SenderOK
      <4>2. QED
        BY <3>3, <3>6, <4>1 DEF LastSent
    <3>8. InOrder(d)'
      <4>1. \A j \in ItemsOf(d) : j < i => said[d][j] = "error"
        BY <2>2, <2>6 DEF SenderOK
      <4>2. \A m, j \in ItemsOf(d) : sent'[d][m] > 0 /\ j < m => said[d][j] = "error"
        BY <3>2, <3>3, <4>1 DEF InOrder
      <4>3. QED
        BY <1>2, <2>1, <2>6, <3>2, <3>3, <3>4, <4>2 DEF InOrder
    <3>9. IndexOK(d)'
      <4>1. cache'[TokenOf[d]].index \in {None, i}
        BY <1>1, <1>2, <2>2, <2>6 DEF SenderOK
      <4>2. QED
        BY <3>6, <3>7, <4>1 DEF IndexOK
    <3>10. QED
      BY <1>1, <1>2, <3>4, <3>5, <3>8, <3>9 DEF Attributed, Busy
  <2>7. QED
    BY <2>5, <2>6
<1>5. QED
  BY <1>3, <1>4

\* Every step keeps the attribution of every downlink.
LEMMA NextAttribution ==
    ASSUME Distinguishable
    PROVE  AttributionInv /\ [Next]_vars => AttributionInv'
<1> SUFFICES ASSUME AttributionInv, [Next]_vars, NEW d \in Downlink PROVE Attributed(d)'
  BY NextSafe DEF AttributionInv
<1>1. CASE \E w \in Worker : WorkerStep(w)
  BY <1>1, ReadAttribution, GetAcksAttribution, FillAttribution, SendAttribution
     DEF WorkerStep
<1>2. CASE \E e \in Downlink : \/ SendDownlinkFrame(e)
                               \/ \E i \in ItemsOf(e) : \E err \in BOOLEAN :
                                    GatewayAnswers(e, i, err)
  BY <1>2, StartAttribution, AnswerAttribution
<1>3. CASE \E h \in Handler : \/ \E g \in Gateway : handlePullData(h, g)
                              \/ handlePushData(h)
                              \/ \E a \in txacks : handleTXACK(h, a)
  BY <1>3, PacketAttribution, TXACKAttribution
<1>4. QED
  BY <1>1, <1>2, <1>3, OtherAttribution DEF Next

\* When answers can be told apart, the attribution holds in every reachable
\* state.
THEOREM UDPAttribution ==
    ASSUME Distinguishable
    PROVE  Spec => []AttributionInv
<1>1. AttributionInv /\ [Next]_vars => AttributionInv'
  BY NextAttribution
<1>2. QED
  BY InitAttribution, <1>1, PTL DEF Spec

\* When no two downlinks share a token and no TX_ACK is repeated, every status
\* in an acks slice is what the gateway said of that very item, although items
\* of the cache expire one by one and handlers, retries and Stop race.
THEOREM UDPStatusFaithful ==
    ASSUME Distinguishable
    PROVE  Spec => []StatusFaithful
<1>1. AttributionInv => StatusFaithful
  BY DEF AttributionInv, Attributed, InOrder, StatusFaithful
<1>2. QED
  BY UDPAttribution, <1>1, PTL

\* Under the same conditions no item is sent twice, none before the gateway
\* rejected the one before it, and a downlink is reported once at most.
THEOREM UDPEachItemOnce ==
    ASSUME Distinguishable
    PROVE  Spec => []EachItemOnce
<1>1. AttributionInv => EachItemOnce
  <2> SUFFICES ASSUME AttributionInv, NEW d \in Downlink
               PROVE  /\ reports[d] <= 1
                      /\ \A i \in ItemsOf(d) :
                           /\ sent[d][i] <= 1
                           /\ i > 0 /\ sent[d][i] > 0 => said[d][i - 1] = "error"
    BY DEF EachItemOnce
  <2>1. InOrder(d)
    BY DEF AttributionInv, Attributed
  <2>2. \A i \in ItemsOf(d) : i > 0 => i - 1 \in ItemsOf(d) /\ i - 1 < i
    BY ItemFacts DEF ItemsOf
  <2>3. QED
    BY <2>1, <2>2 DEF InOrder
<1>2. QED
  BY UDPAttribution, <1>1, PTL

-----------------------------------------------------------------------------
(* The contract with the packet exchange                                   *)

\* The rejections of all items before the one that is sent next, or was sent
\* last, are noted; the answer that is on its way or being handled is not.
Recorded(d) ==
    /\ \A i, j \in ItemsOf(d) : sent[d][i] > 0 /\ j < i => status[d][j] = "error"
    /\ \A w \in Worker : Sending(w, d) =>
         \A j \in ItemsOf(d) : j < task[w].index => status[d][j] = "error"
    /\ (\E a \in txacks : a.of = d) \/ (\E w \in Worker : Handling(w, d)) =>
         \A i : LastSent(d, i) => status[d][i] = "ignored"

ContractInv == AttributionInv /\ \A d \in Downlink : Recorded(d)

\* What is recorded of a downlink lasts while nothing is sent or noted for it, no
\* goroutine starts to send another item than its first, and no answer turns up.
LEMMA RecordUntouched ==
    ASSUME NEW d \in Downlink, Recorded(d), sent'[d] = sent[d], status'[d] = status[d],
           \A w \in Worker : Sending(w, d)' =>
             task'[w].index = 0 \/ (Sending(w, d) /\ task'[w].index = task[w].index),
           (\E a \in txacks' : a.of = d) \/ (\E w \in Worker : Handling(w, d)') =>
             (\E a \in txacks : a.of = d) \/ (\E w \in Worker : Handling(w, d))
    PROVE  Recorded(d)'
<1>1. \A i : LastSent(d, i)' <=> LastSent(d, i)
  BY DEF LastSent
<1>2. \A j \in ItemsOf(d) : ~(j < 0)
  BY ItemFacts
<1>3. ASSUME NEW w \in Worker, Sending(w, d)', NEW j \in ItemsOf(d), j < task'[w].index
      PROVE  status'[d][j] = "error"
  BY <1>2, <1>3 DEF Recorded
<1>4. QED
  BY <1>1, <1>3 DEF Recorded

\* A goroutine that returns is busy with nothing.
LEMMA ReturnsIdle ==
    ASSUME SafeInv, NEW w \in Worker, Return(w), NEW d \in Downlink
    PROVE  \A v \in Worker : /\ Sending(v, d)' => Sending(v, d) /\ task'[v] = task[v]
                             /\ Handling(v, d)' => Handling(v, d) /\ v # w
<1>1. pc'[w] = "idle" /\ \A v \in Worker \ {w} : pc'[v] = pc[v] /\ task'[v] = task[v]
  BY DEF Return, Goto, SafeInv, TypeOK
<1>2. QED
  BY <1>1 DEF Sending, Handling, Reading, Filling

\* The gateways, the start of a downlink, and the packets that arrive.
LEMMA ArrivalRecorded ==
    ASSUME Distinguishable, ContractInv, NEW d \in Downlink,
           \/ \E e \in Downlink : \/ SendDownlinkFrame(e)
                                  \/ \E i \in ItemsOf(e) : \E err \in BOOLEAN :
                                       GatewayAnswers(e, i, err)
           \/ \E h \in Handler : \/ \E g \in Gateway : handlePullData(h, g)
                                 \/ handlePushData(h)
                                 \/ \E a \in txacks : handleTXACK(h, a)
    PROVE  Recorded(d)'
<1>1. Recorded(d) /\ Attributed(d) /\ SafeInv /\ UNCHANGED <<sent, status>>
  BY DEF ContractInv, AttributionInv, SendDownlinkFrame, GatewayAnswers, handlePullData,
         handlePushData, handleTXACK
<1>2. ASSUME NEW e \in Downlink, SendDownlinkFrame(e) PROVE Recorded(d)'
  <2> DEFINE s == SenderOf[e]
  <2>1. /\ UNCHANGED txacks /\ \A v \in Worker \ {s} : pc'[v] = pc[v] /\ task'[v] = task[v]
        /\ s \in Worker
        /\ \/ pc'[s] = pc[s] /\ task'[s] = task[s]
           \/ pc'[s] = "setAcks" /\ task'[s].index = 0
    <3>1. s \in Worker /\ UNCHANGED txacks
      BY <1>2, DownlinkAssumption DEF SendDownlinkFrame, Worker
    <3>2. CASE Items[e] = 0
      BY <1>2, <3>1, <3>2 DEF SendDownlinkFrame
    <3>3. CASE Items[e] # 0
      BY <1>1, <1>2, <3>1, <3>3, FirstSend
    <3>4. QED
      BY <3>2, <3>3
  <2> HIDE DEF s
  <2>2. \A v \in Worker : /\ Handling(v, d)' => Handling(v, d)
                          /\ Sending(v, d)' => task'[v].index = 0
                               \/ (Sending(v, d) /\ task'[v].index = task[v].index)
    BY <2>1 DEF Handling, Sending, Reading
  <2>3. QED
    BY <1>1, <2>1, <2>2, RecordUntouched
<1>3. ASSUME NEW e \in Downlink, NEW i \in ItemsOf(e), NEW err \in BOOLEAN,
             GatewayAnswers(e, i, err)
      PROVE  Recorded(d)'
  <2>1. /\ UNCHANGED <<pc, task>> /\ sent[e][i] > 0 /\ said[e][i] = "ignored"
        /\ txacks' = txacks \cup {[of |-> e, item |-> i, err |-> err]}
    BY <1>3 DEF GatewayAnswers
  <2>2. \A v \in Worker : /\ Handling(v, d)' <=> Handling(v, d)
                          /\ Sending(v, d)' <=> Sending(v, d)
    BY <2>1 DEF Handling, Sending
  <2>3. CASE d # e
    <3>1. \A a \in txacks' : a.of = d => a \in txacks
      BY <2>1, <2>3
    <3>2. QED
      BY <1>1, <2>1, <2>2, <3>1, RecordUntouched
  <2>4. CASE d = e
    <3>1. status[d][i] = "ignored" /\ LastSent(d, i)
      BY <1>1, <1>3, <2>1, <2>4, AwaitedIsLast DEF Attributed, InOrder
    <3>2. \A k : LastSent(d, k)' => status'[d][k] = "ignored"
      <4>1. \A k : LastSent(d, k)' <=> LastSent(d, k)
        BY <1>1 DEF LastSent
      <4>2. QED
        BY <1>1, <3>1, <4>1, LastUnique
    <3>3. QED
      BY <1>1, <2>1, <2>2, <3>2 DEF Recorded
  <2>5. QED
    BY <2>3, <2>4
<1>4. ASSUME NEW h \in Handler, (\E g \in Gateway : handlePullData(h, g)) \/ handlePushData(h)
      PROVE  Recorded(d)'
  <2>1. /\ pc[h] = "idle" /\ pc'[h] = "send" /\ UNCHANGED <<task, txacks>> /\ h \in Worker
        /\ \A v \in Worker \ {h} : pc'[v] = pc[v]
    BY <1>1, <1>4 DEF handlePullData, handlePushData, Starts, Goto, SafeInv, TypeOK, Worker
  <2>2. task[h].frame = None /\ None # d
    BY <1>1, <2>1, ItemFacts DEF SafeInv, Locals
  <2>3. \A v \in Worker : /\ Handling(v, d)' => Handling(v, d)
                          /\ Sending(v, d)' => Sending(v, d)
    BY <2>1, <2>2 DEF Handling, Sending, Reading
  <2>4. QED
    BY <1>1, <2>1, <2>3, RecordUntouched
<1>5. ASSUME NEW h \in Handler, NEW a \in txacks, handleTXACK(h, a) PROVE Recorded(d)'
  <2>1. /\ pc'[h] = "getFrame" /\ task'[h].tok = TokenOf[a.of] /\ h \in Worker
        /\ a.of \in Downlink /\ txacks' \subseteq txacks
        /\ \A v \in Worker \ {h} : pc'[v] = pc[v] /\ task'[v] = task[v]
    BY <1>1, <1>5 DEF handleTXACK, Goto, SafeInv, TypeOK, Worker, NoTask, TxAck
  <2>2. \A v \in Worker : /\ Handling(v, d)' => Handling(v, d) \/ a.of = d
                          /\ Sending(v, d)' => Sending(v, d) /\ task'[v] = task[v]
    BY <2>1 DEF Handling, Sending, Filling, Distinguishable
  <2>3. QED
    BY <1>1, <2>1, <2>2, RecordUntouched
<1>6. QED
  BY <1>2, <1>3, <1>4, <1>5

\* Reading and filling the cache, which neither sends nor notes anything.
LEMMA CacheRecorded ==
    ASSUME ContractInv, NEW d \in Downlink, NEW w \in Worker,
           GetFrame(w) \/ GetIndex(w) \/ SetCache(w) \/ Lookup(w)
    PROVE  Recorded(d)'
<1>1. Recorded(d) /\ SafeInv /\ UNCHANGED <<sent, status, txacks>>
  BY DEF ContractInv, AttributionInv, GetFrame, GetIndex, SetCache, FillCache, Lookup
<1>2. CASE Return(w)
  BY <1>1, <1>2, ReturnsIdle, RecordUntouched
<1>3. CASE ~Return(w)
  <2>1. \A v \in Worker \ {w} : pc'[v] = pc[v] /\ task'[v] = task[v]
    BY <1>1, <1>3 DEF GetFrame, GetIndex, SetCache, FillCache, Lookup, Goto, SafeInv, TypeOK
  <2>2. CASE GetFrame(w) \/ GetIndex(w)
    <3>1. /\ pc[w] \in Reading /\ pc'[w] \in {"getIndex", "getAcks"}
          /\ task'[w].tok = task[w].tok
      BY <1>1, <1>3, <2>2 DEF GetFrame, GetIndex, Goto, SafeInv, TypeOK, Task, Reading
    <3>2. \A v \in Worker : /\ Handling(v, d)' => Handling(v, d)
                            /\ Sending(v, d)' => Sending(v, d) /\ task'[v] = task[v]
      BY <2>1, <3>1 DEF Handling, Sending, Reading, Filling
    <3>3. QED
      BY <1>1, <3>2, RecordUntouched
  <2>3. CASE SetCache(w) \/ Lookup(w)
    <3>1. pc[w] \in Filling /\ pc'[w] \in Filling \cup {"send"} /\ UNCHANGED task
      BY <1>1, <1>3, <2>3 DEF SetCache, FillCache, Lookup, Goto, SafeInv, TypeOK, Filling
    <3>2. \A v \in Worker : /\ Handling(v, d)' => Handling(v, d)
                            /\ Sending(v, d)' => Sending(v, d) /\ task'[v] = task[v]
      BY <2>1, <3>1 DEF Handling, Sending, Reading, Filling
    <3>3. QED
      BY <1>1, <3>2, RecordUntouched
  <2>4. QED
    BY <2>2, <2>3
<1>4. QED
  BY <1>2, <1>3

\* The answer is noted; if it is a rejection and another item is left, that one
\* is sent next.
LEMMA NoteRecorded ==
    ASSUME ContractInv, NEW d \in Downlink, NEW w \in Worker, GetAcks(w)
    PROVE  Recorded(d)'
<1> DEFINE i == task[w].index
<1>1. Recorded(d) /\ Attributed(d) /\ SafeInv /\ AttributionInv /\ UNCHANGED <<sent, txacks>>
  BY DEF ContractInv, AttributionInv, GetAcks
<1>2. CASE Return(w) /\ UNCHANGED <<status, reports>>
  BY <1>1, <1>2, ReturnsIdle, RecordUntouched
<1>3. ASSUME NEW e \in Downlink, Notes(w, e) PROVE Recorded(d)'
  <2>1. /\ Handling(w, e) /\ HandlerOK(w, e) /\ task[w].frame = e
        /\ i \in ItemsOf(e) /\ LastSent(e, i) /\ said[e][i] = Verdict(task[w].err)
        /\ SetStatus(w, e) /\ (Retry(w, e) \/ Report(w))
    BY <1>3 DEF Notes
  <2>2. /\ \A v \in Worker \ {w} : pc'[v] = pc[v] /\ task'[v] = task[v]
        /\ \/ pc'[w] = "idle"
           \/ pc'[w] = "setAcks" /\ task'[w].frame = e /\ task'[w].index = i + 1 /\ task[w].err
    BY <1>1, <2>1 DEF Retry, Report, Return, Goto, SafeInv, TypeOK, Task
  <2>3. CASE d # e
    <3>1. status'[d] = status[d]
      BY <1>1, <2>1, <2>3 DEF SetStatus, SafeInv, TypeOK, Tables
    <3>2. \A v \in Worker : /\ Handling(v, d)' => Handling(v, d)
                            /\ Sending(v, d)' => Sending(v, d) /\ task'[v] = task[v]
      BY <2>2, <2>3 DEF Handling, Sending, Reading, Filling
    <3>3. QED
      BY <1>1, <3>1, <3>2, RecordUntouched
  <2>4. CASE d = e
    <3>1. \A j \in ItemsOf(d) : status'[d][j] = IF j = i THEN Verdict(task[w].err)
                                                         ELSE status[d][j]
      BY <1>1, <2>1, <2>4 DEF SetStatus, SafeInv, TypeOK, Tables, Verdict
    <3>2. (\A b \in txacks : b.of # d) /\ \A v \in Worker : Busy(v, d) => v = w
      BY <1>1, <2>1, <2>4 DEF Attributed, Busy, HandlerOK
    <3>3. \A v \in Worker : /\ ~Handling(v, d)'
                            /\ Sending(v, d)' => v = w /\ pc'[w] = "setAcks"
      BY <2>2, <3>2 DEF Busy, Sending, Handling, Reading, Filling
    <3>4. i \in Nat /\ ItemsOf(d) \subseteq Nat
      BY <2>1, <2>4, ItemFacts
    <3>5. \A j \in ItemsOf(d) : j < i => status[d][j] = "error"
      BY <1>1, <2>1, <2>4 DEF Recorded, LastSent
    <3>6. ASSUME NEW k \in ItemsOf(d), NEW j \in ItemsOf(d), sent[d][k] > 0, j < k
          PROVE  status'[d][j] = "error"
      <4>1. ~(k > i)
        BY <2>1, <2>4, <3>6 DEF LastSent
      <4>2. j < i /\ j # i
        BY <3>4, <3>6, <4>1
      <4>3. QED
        BY <3>1, <3>5, <4>2
    <3>7. ASSUME pc'[w] = "setAcks", NEW j \in ItemsOf(d), j < task'[w].index
          PROVE  status'[d][j] = "error"
      <4>1. j < i + 1 /\ task[w].err
        BY <2>2, <3>7
      <4>2. j < i \/ j = i
        BY <3>4, <4>1
      <4>3. QED
        BY <3>1, <3>5, <4>1, <4>2 DEF Verdict
    <3>8. QED
      BY <1>1, <3>2, <3>3, <3>6, <3>7 DEF Recorded
  <2>5. QED
    BY <2>3, <2>4
<1>4. QED
  BY <1>1, <1>2, <1>3, GetAcksNotes

\* What Send does: a goroutine that answers a gateway returns, one that has an
\* item of a downlink sends it for the first time.
Sends(w, e) ==
    /\ Sending(w, e) /\ SenderOK(w, e) /\ Return(w)
    /\ task[w].index \in ItemsOf(e) /\ sent[e][task[w].index] = 0
    /\ sent' = [sent EXCEPT ![e][task[w].index] = 1]

\* That is all it does, if the channel is open.
LEMMA SendSends ==
    ASSUME AttributionInv, NEW w \in Worker, Send(w), backend \in {"run", "locking"}
    PROVE  \/ Return(w) /\ UNCHANGED sent
           \/ \E e \in Downlink : Sends(w, e)
<1> DEFINE e == task[w].frame
           i == task[w].index
<1>1. SafeInv /\ pc[w] = "send"
  BY DEF AttributionInv, Send
<1>2. Return(w) /\ sent' = IF e = None THEN sent ELSE [sent EXCEPT ![e][i] = More(@)]
  BY <1>1 DEF Send
<1>3. CASE e = None
  BY <1>2, <1>3
<1>4. CASE e # None
  <2>1. e \in Downlink /\ i \in ItemsOf(e)
    BY <1>1, <1>4 DEF SafeInv, TypeOK, Task, Locals, Filling
  <2>2. Sending(w, e) /\ SenderOK(w, e)
    BY <1>1, <2>1 DEF AttributionInv, Attributed, Sending, Filling
  <2>3. sent[e][i] = 0
    <3>1. i \in Nat
      BY <2>1, ItemFacts
    <3>2. QED
      BY <2>1, <2>2, <3>1 DEF SenderOK
  <2>4. sent' = [sent EXCEPT ![e][i] = 1]
    BY <1>2, <1>4, <2>3 DEF More
  <2>5. QED
    BY <1>2, <2>1, <2>2, <2>3, <2>4 DEF Sends
<1>5. QED
  BY <1>3, <1>4

\* An item is sent after the rejection of those before it was noted.
LEMMA SendRecorded ==
    ASSUME ContractInv, NEW d \in Downlink, NEW w \in Worker, Send(w)
    PROVE  Recorded(d)'
<1> DEFINE i == task[w].index
<1>1. Recorded(d) /\ Attributed(d) /\ SafeInv /\ AttributionInv /\ UNCHANGED <<status, txacks>>
  BY DEF ContractInv, AttributionInv, Send
<1> SUFFICES ASSUME backend \in {"run", "locking"} PROVE Recorded(d)'
  BY <1>1, SendPanics, RecordUntouched DEF Sending, Handling
<1>2. CASE Return(w) /\ UNCHANGED sent
  BY <1>1, <1>2, ReturnsIdle, RecordUntouched
<1>3. ASSUME NEW e \in Downlink, Sends(w, e) PROVE Recorded(d)'
  <2>1. /\ Sending(w, e) /\ SenderOK(w, e) /\ Return(w) /\ i \in ItemsOf(e)
        /\ sent' = [sent EXCEPT ![e][i] = 1]
    BY <1>3 DEF Sends
  <2>2. \A v \in Worker : /\ Sending(v, d)' => Sending(v, d) /\ task'[v] = task[v]
                          /\ Handling(v, d)' => Handling(v, d) /\ v # w
    BY <1>1, <2>1, ReturnsIdle
  <2>3. CASE d # e
    <3>1. sent'[d] = sent[d]
      BY <1>1, <2>1, <2>3 DEF SafeInv, Tables
    <3>2. QED
      BY <1>1, <2>2, <3>1, RecordUntouched
  <2>4. CASE d = e
    <3>1. \A j \in ItemsOf(d) : j # i => sent'[d][j] = sent[d][j]
      BY <1>1, <2>1, <2>4 DEF SafeInv, TypeOK, Tables
    <3>2. (\A b \in txacks : b.of # d) /\ \A v \in Worker : Busy(v, d) => v = w
      BY <1>1, <2>1, <2>4 DEF Attributed, Busy, SenderOK
    <3>3. \A v \in Worker : ~Handling(v, d)'
      BY <2>2, <3>2 DEF Busy
    <3>4. \A j \in ItemsOf(d) : j < i => status[d][j] = "error"
      BY <1>1, <2>1, <2>4 DEF Recorded
    <3>5. \A k, j \in ItemsOf(d) : sent'[d][k] > 0 /\ j < k => status'[d][j] = "error"
      BY <1>1, <3>1, <3>4 DEF Recorded
    <3>6. QED
      BY <1>1, <2>2, <3>2, <3>3, <3>5 DEF Recorded
  <2>5. QED
    BY <2>3, <2>4
<1>4. QED
  BY <1>1, <1>2, <1>3, SendSends

\* Nothing is recorded at the start, and every step keeps what is.
LEMMA ContractInvariant ==
    ASSUME Distinguishable
    PROVE  /\ Init => ContractInv
           /\ ContractInv /\ [Next]_vars => ContractInv'
<1>1. ASSUME Init, NEW d \in Downlink PROVE Recorded(d)
  <2>1. /\ txacks = {} /\ \A w \in Worker : pc[w] = "idle"
        /\ \A i \in ItemsOf(d) : sent[d][i] = 0
    BY <1>1 DEF Init
  <2>2. \A w \in Worker : ~Sending(w, d) /\ ~Handling(w, d)
    BY <2>1 DEF Sending, Handling, Filling, Reading
  <2>3. QED
    BY <2>1, <2>2 DEF Recorded
<1>2. ASSUME ContractInv, [Next]_vars, NEW d \in Downlink PROVE Recorded(d)'
  <2>1. CASE \E w \in Worker : WorkerStep(w)
    BY <1>2, <2>1, CacheRecorded, NoteRecorded, SendRecorded DEF WorkerStep
  <2>2. CASE \/ \E t \in Token : \E key \in {"frame", "index", "acks"} : Expire(t, key)
             \/ cleanup \/ Stop \/ Close \/ (\E l \in loops : LoopEnds(l)) \/ Stopped
             \/ UNCHANGED vars
    <3>1. UNCHANGED <<pc, task, sent, status, txacks>>
      BY <2>2 DEF Expire, cleanup, Stop, Close, LoopEnds, Stopped, vars
    <3>2. \A w \in Worker : (Sending(w, d)' <=> Sending(w, d)) /\ (Handling(w, d)' <=> Handling(w, d))
      BY <3>1 DEF Sending, Handling
    <3>3. QED
      BY <1>2, <3>1, <3>2, RecordUntouched DEF ContractInv
  <2>3. QED
    BY <1>2, <2>1, <2>2, ArrivalRecorded DEF Next
<1>3. QED
  BY <1>1, <1>2, InitAttribution, NextAttribution DEF ContractInv

\* Every step is one of the contract, or is invisible to the exchange and the
\* gateways.
LEMMA ContractStep ==
    ASSUME ContractInv, [Next]_vars
    PROVE  [DC!Next]_DC!vars
<1>0. AttributionInv /\ SafeInv /\ \A d \in Downlink : Attributed(d) /\ Recorded(d)
  BY DEF ContractInv, AttributionInv
<1>1. ASSUME NEW d \in Downlink, NEW i \in ItemsOf(d), NEW err \in BOOLEAN,
             GatewayAnswers(d, i, err)
      PROVE  DC!Answer(d, i)
  <2>1. sent[d][i] = 1
    BY <1>0, <1>1 DEF GatewayAnswers, Attributed, InOrder
  <2>2. QED
    BY <1>1, <2>1 DEF GatewayAnswers, DC!Answer
<1>2. ASSUME NEW w \in Worker, Send(w), NEW d \in Downlink, Sends(w, d)
      PROVE  DC!Transmit(d, task[w].index)
  <2>1. reports[d] = 0 /\ \A j \in ItemsOf(d) : j < task[w].index => status[d][j] = "error"
    BY <1>0, <1>2 DEF Sends, SenderOK, Recorded
  <2>2. UNCHANGED <<said, status, reports>>
    BY <1>2 DEF Send
  <2>3. QED
    BY <1>2, <2>1, <2>2 DEF Sends, DC!Transmit, DC!ItemsOf, ItemsOf
<1>3. ASSUME NEW w \in Worker, GetAcks(w), NEW d \in Downlink, Notes(w, d)
      PROVE  DC!Note(d, task[w].index)
  <2> DEFINE i == task[w].index
  <2>1. /\ said[d][i] = Verdict(task[w].err) /\ status[d][i] = "ignored" /\ reports[d] = 0
        /\ task[w].frame = d
    BY <1>0, <1>3 DEF Notes, Recorded, HandlerOK, AnswerOK
  <2>2. status' = [status EXCEPT ![d][i] = said[d][i]]
    BY <1>3, <2>1 DEF Notes, SetStatus, Verdict
  <2>3. reports' = IF said[d][i] = "error" /\ i < Items[d] - 1 THEN reports
                   ELSE [reports EXCEPT ![d] = 1]
    BY <1>3, <2>1 DEF Notes, Retry, Report, More, Verdict
  <2>4. said[d][i] # "ignored" /\ UNCHANGED <<sent, said>>
    BY <1>3, <2>1 DEF GetAcks, Verdict
  <2>5. QED
    BY <2>1, <2>2, <2>3, <2>4 DEF DC!Note
<1>4. \A d \in Downlink : DC!ItemsOf(d) = ItemsOf(d)
  BY DEF DC!ItemsOf, ItemsOf
<1>5. ASSUME NEW w \in Worker, WorkerStep(w) PROVE DC!Next \/ UNCHANGED DC!vars
  <2>1. CASE GetAcks(w)
    <3>1. CASE Return(w) /\ UNCHANGED <<status, reports>>
      BY <2>1, <3>1 DEF GetAcks, DC!vars
    <3>2. CASE \E d \in Downlink : Notes(w, d)
      BY <1>3, <1>4, <2>1, <3>2 DEF DC!Next, Notes
    <3>3. QED
      BY <1>0, <2>1, <3>1, <3>2, GetAcksNotes
  <2>2. CASE Send(w)
    <3>1. CASE Return(w) /\ UNCHANGED sent
      BY <2>2, <3>1 DEF Send, DC!vars
    <3>2. CASE \E d \in Downlink : Sends(w, d)
      BY <1>2, <1>4, <2>2, <3>2 DEF DC!Next, Sends
    <3>3. CASE backend \notin {"run", "locking"}
      BY <1>0, <2>2, <3>3, SendPanics DEF DC!vars
    <3>4. QED
      BY <1>0, <2>2, <3>1, <3>2, <3>3, SendSends
  <2>3. CASE GetFrame(w) \/ GetIndex(w) \/ SetCache(w) \/ Lookup(w)
    BY <2>3 DEF GetFrame, GetIndex, SetCache, FillCache, Lookup, DC!vars
  <2>4. QED
    BY <1>5, <2>1, <2>2, <2>3 DEF WorkerStep
<1>6. CASE \E d \in Downlink : \E i \in ItemsOf(d) : \E err \in BOOLEAN : GatewayAnswers(d, i, err)
  BY <1>1, <1>4, <1>6 DEF DC!Next
<1>7. CASE \/ \E d \in Downlink : SendDownlinkFrame(d)
           \/ \E h \in Handler : \/ \E g \in Gateway : handlePullData(h, g)
                                 \/ handlePushData(h)
                                 \/ \E a \in txacks : handleTXACK(h, a)
           \/ \E t \in Token : \E key \in {"frame", "index", "acks"} : Expire(t, key)
           \/ cleanup \/ Stop \/ Close \/ (\E l \in loops : LoopEnds(l)) \/ Stopped
           \/ UNCHANGED vars
  BY <1>7 DEF SendDownlinkFrame, handlePullData, handlePushData, handleTXACK, Expire,
              cleanup, Stop, Close, LoopEnds, Stopped, vars, DC!vars
<1>8. QED
  BY <1>5, <1>6, <1>7 DEF Next

\* When answers can be told apart, the backend keeps the contract: although the
\* cache forgets its items one by one and each packet is handled by a goroutine
\* of its own, items are tried in order, each after the noted rejection of those
\* before, answers are noted for their items, and the exchange is told once.
THEOREM UDPContract ==
    ASSUME Distinguishable
    PROVE  Spec => ImplementsDownlinkContract
<1>1. Init => DC!Init
  BY DEF Init, DC!Init, ItemsOf, DC!ItemsOf
<1>2. Init => ContractInv
  BY ContractInvariant
<1>3. ContractInv /\ [Next]_vars => ContractInv'
  BY ContractInvariant
<1>4. ContractInv /\ [Next]_vars => [DC!Next]_DC!vars
  BY ContractStep
<1>5. QED
  BY <1>1, <1>2, <1>3, <1>4, PTL DEF Spec, ImplementsDownlinkContract, DC!Spec

=============================================================================
