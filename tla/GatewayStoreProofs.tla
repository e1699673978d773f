------------------------- MODULE GatewayStoreProofs -------------------------
(***************************************************************************)
(* The safety of GatewayStore for any number of gateways, keys and         *)
(* concurrent requests.  The invariant relates what each goroutine has in  *)
(* hand to what is stored and served: a key is on its way to one gateway   *)
(* only, a gateway that is inserted but not indexed is served by nobody    *)
(* else, and what a synchronisation will write back is still served, with  *)
(* the key it was looked up with.                                          *)
(***************************************************************************)
EXTENDS GatewayStore, TLAPS

Kept(id, k) == disk[id] # None /\ disk[id].key = k
Served(id, k) == byLocalId[id] # None /\ byLocalId[id].key = k
Up == {"starting", "running"}

\* What goroutine q has in hand.
DoneKept(q) == \A id \in LocalID, k \in Key : <<id, k>> \in op[q].done => Kept(id, k)
TodoServed(q) == q = Timer => \A id \in op[q].todo : byLocalId[id] # None
HasGateway(q) ==
    op[q].pc \in {"add", "index", "push", "query", "cache", "save", "apply"} =>
        op[q].gw \in Gateway
AddFresh(q) ==
    op[q].pc = "add" => /\ op[q].gw.key \in generated
                        /\ \A id \in LocalID : ~Kept(id, op[q].gw.key)
IndexNew(q) ==
    op[q].pc = "index" => /\ backend = "pg"
                          /\ Kept(op[q].gw.id, op[q].gw.key)
                          /\ byLocalId[op[q].gw.id] = None
PushKept(q) == op[q].pc = "push" => Kept(op[q].gw.id, op[q].gw.key)
SyncServed(q) ==
    op[q].pc \in {"query", "cache", "save", "apply"} =>
        Served(op[q].gw.id, op[q].gw.key)
AnswerKind(q) ==
    /\ op[q].pc = "cache" => op[q].ans # None
    /\ op[q].pc \in {"save", "apply"} => op[q].ans \in {1, 2}
OpOK(q) ==
    /\ DoneKept(q) /\ TodoServed(q) /\ HasGateway(q) /\ AddFresh(q)
    /\ IndexNew(q) /\ PushKept(q) /\ SyncServed(q) /\ AnswerKind(q)

DiskSound ==
    /\ \A id \in LocalID : disk[id] # None =>
          disk[id].id = id /\ disk[id].key \in generated
    /\ \A i, j \in LocalID, k \in Key : Kept(i, k) /\ Kept(j, k) => i = j

\* No two goroutines have the same key, or the same inserted gateway, in hand.
Distinct ==
    \A p, q \in Proc :
        /\ op[p].pc = "add" /\ op[q].pc = "add" /\ op[p].gw.key = op[q].gw.key => p = q
        /\ op[p].pc = "index" /\ op[q].pc = "index" /\ op[p].gw.id = op[q].gw.id => p = q

YamlServesAll ==
    backend = "yaml" /\ status \in Up =>
        \A id \in LocalID : disk[id] # None => byLocalId[id] # None

DownIdle == status \notin Up => \A q \in Proc : op[q] = Idle

IInv ==
    /\ TypeOK /\ IndexesAgree /\ PromisesKept /\ ServedIsStored
    /\ DiskSound /\ Distinct /\ YamlServesAll /\ DownIdle
    /\ \A q \in Proc : OpOK(q)

-----------------------------------------------------------------------------
(* Facts about the state of a goroutine                                    *)

\* The fields of an operation's state have their types.
LEMMA OpFields ==
    ASSUME NEW s \in OpState
    PROVE  /\ s.pc \in {"idle", "loop", "add", "index", "push", "query", "cache",
                        "save", "apply", "check", "append"}
           /\ s.req \in {"none", "add", "onboard", "import", "sync", "syncall", "packet"}
           /\ s.todo \in SUBSET LocalID
           /\ s.gw \in Gateway \cup {None}
           /\ s.ans \in Answer
           /\ s.done \in SUBSET (LocalID \X Key)
  BY DEF OpState

\* A gateway has an id, a key and an information, and is not None.
LEMMA GatewayFields ==
    ASSUME NEW g \in Gateway
    PROVE  g.id \in LocalID /\ g.key \in Key /\ g.info \in Info /\ g # None
  BY StoreNames DEF Gateway

\* An idle goroutine is in a state of the type.
LEMMA IdleOK == Idle \in OpState
  BY DEF Idle, OpState, Answer

\* Goroutine p moved to state s: that is a function of the type again, and the
\* other goroutines are where they were.
LEMMA Moved ==
    ASSUME op \in [Proc -> OpState], NEW p \in Proc, NEW s \in OpState,
           op' = [op EXCEPT ![p] = s]
    PROVE  /\ op' \in [Proc -> OpState]
           /\ op'[p] = s
           /\ \A q \in Proc : q # p => op'[q] = op[q]
  OBVIOUS

\* Idle goroutines have nothing in hand.
LEMMA IdleHasNothing ==
    ASSUME NEW q, op[q] = Idle
    PROVE  OpOK(q)
  BY DEF Idle, OpOK, DoneKept, TodoServed, HasGateway, AddFresh, IndexNew,
         PushKept, SyncServed, AnswerKind

\* What a goroutine has in hand stays true when nothing is lost of what is stored
\* and served, its key is not used and its inserted gateway not indexed.
LEMMA OthersOK ==
    ASSUME NEW q \in Proc, op[q] \in OpState, OpOK(q), op'[q] = op[q],
           backend' = backend, generated \subseteq generated',
           \A id \in LocalID, k \in Key : Kept(id, k) => Kept(id, k)',
           \A id \in LocalID : byLocalId[id] # None => byLocalId'[id] # None,
           \A id \in LocalID, k \in Key : Served(id, k) => Served(id, k)',
           op[q].pc = "add" => \A id \in LocalID : ~Kept(id, op[q].gw.key)',
           op[q].pc = "index" => byLocalId'[op[q].gw.id] = None
    PROVE  OpOK(q)'
  <1> USE OpFields
  <1>0. op[q].gw \in Gateway => op[q].gw.id \in LocalID /\ op[q].gw.key \in Key
    BY GatewayFields
  <1>1. DoneKept(q)'
    BY DEF OpOK, DoneKept
  <1>2. TodoServed(q)'
    BY DEF OpOK, TodoServed
  <1>3. HasGateway(q)' /\ AnswerKind(q)'
    BY DEF OpOK, HasGateway, AnswerKind
  <1>4. AddFresh(q)'
    BY DEF OpOK, AddFresh
  <1>5. IndexNew(q)' /\ PushKept(q)' /\ SyncServed(q)'
    BY <1>0 DEF OpOK, IndexNew, PushKept, SyncServed, HasGateway
  <1> QED
    BY <1>1, <1>2, <1>3, <1>4, <1>5 DEF OpOK

\* A step of goroutine p that leaves store and storage alone.
LEMMA LocalStep ==
    ASSUME IInv, TypeOK', NEW p \in Proc,
           \A q \in Proc : q # p => op'[q] = op[q],
           UNCHANGED <<backend, disk, store>>, generated \subseteq generated',
           status \in Up, status' \in Up, PromisesKept', OpOK(p)',
           op'[p].pc # "index",
           op'[p].pc = "add" => op'[p].gw.key \notin generated
    PROVE  IInv'
  <1> USE DEF IInv
  <1>0. /\ backend' = backend /\ disk' = disk /\ byLocalId' = byLocalId
        /\ byNetId' = byNetId /\ byThingsIxID' = byThingsIxID
    BY DEF store
  <1>1. IndexesAgree' /\ ServedIsStored'
    BY <1>0 DEF IndexesAgree, ServedIsStored
  <1>2. DiskSound'
    BY <1>0 DEF DiskSound, Kept
  <1>3. Distinct'
    <2>1. \A q \in Proc : op[q].pc = "add" => op[q].gw.key \in generated
      BY DEF OpOK, AddFresh
    <2> QED
      BY <2>1 DEF Distinct
  <1>4. YamlServesAll' /\ DownIdle'
    BY <1>0 DEF YamlServesAll, DownIdle
  <1>5. ASSUME NEW q \in Proc PROVE OpOK(q)'
    <2>1. CASE q = p
      BY <2>1
    <2>2. CASE q # p
      <3>1. op[q] \in OpState /\ OpOK(q) /\ op'[q] = op[q]
        BY <2>2 DEF TypeOK
      <3>2. op[q].pc = "add" => \A id \in LocalID : ~Kept(id, op[q].gw.key)'
        BY <1>0, <3>1 DEF OpOK, AddFresh, Kept
      <3>3. op[q].pc = "index" => byLocalId'[op[q].gw.id] = None
        BY <1>0, <3>1 DEF OpOK, IndexNew
      <3> QED
        BY <1>0, <3>1, <3>2, <3>3, OthersOK DEF Kept, Served
    <2> QED
      BY <2>1, <2>2
  <1> QED
    BY <1>1, <1>2, <1>3, <1>4, <1>5

\* A goroutine is at work only while the process is up.
LEMMA Busy ==
    ASSUME IInv, NEW p \in Proc, op[p].pc # "idle"
    PROVE  status \in Up
  BY DEF IInv, DownIdle, Idle

\* LocalStep with the type of the new state taken apart: goroutine p goes to s.
LEMMA Step ==
    ASSUME IInv, NEW p \in Proc, NEW s \in OpState, op' = [op EXCEPT ![p] = s],
           UNCHANGED <<backend, disk, store, registry, generated>>,
           status \in Up, status' \in Up,
           torn' \in BOOLEAN, cache' \in [Key -> {1, 2, None, Failed}],
           recDisk' \in SUBSET LocalID, recorded' \in SUBSET LocalID,
           promised' \in SUBSET (LocalID \X Key), PromisesKept',
           OpOK(p)', s.pc \notin {"add", "index"}
    PROVE  IInv'
  <1>1. op' \in [Proc -> OpState] /\ op'[p] = s /\ \A q \in Proc : q # p => op'[q] = op[q]
    BY Moved DEF IInv, TypeOK
  <1>2. TypeOK'
    BY <1>1 DEF IInv, TypeOK, store, Up
  <1> QED
    BY <1>1, <1>2, LocalStep

\* A reply that names stored gateways.
LEMMA Replied ==
    ASSUME IInv, disk' = disk, NEW pairs \in SUBSET (LocalID \X Key), Reply(pairs),
           \A id \in LocalID, k \in Key : <<id, k>> \in pairs => Kept(id, k)
    PROVE  PromisesKept' /\ promised' \in SUBSET (LocalID \X Key)
  BY DEF IInv, TypeOK, PromisesKept, Reply, Kept

\* Without a reply, what was promised is kept.
LEMMA NoReply ==
    ASSUME IInv, disk' = disk, promised' = promised
    PROVE  PromisesKept' /\ promised' \in SUBSET (LocalID \X Key)
  BY DEF IInv, TypeOK, PromisesKept

\* The reply that names one stored gateway.
LEMMA PairKept ==
    ASSUME NEW g \in Gateway, Kept(g.id, g.key)
    PROVE  /\ {Pair(g)} \in SUBSET (LocalID \X Key)
           /\ \A id \in LocalID, k \in Key : <<id, k>> \in {Pair(g)} => Kept(id, k)
  BY GatewayFields DEF Pair

\* What is served is stored, with the id and the key it is served with.
LEMMA ServedKept ==
    ASSUME IInv, NEW id \in LocalID, byLocalId[id] # None
    PROVE  /\ byLocalId[id] \in Gateway /\ byLocalId[id].id = id
           /\ Kept(id, byLocalId[id].key) /\ Served(id, byLocalId[id].key)
  BY DEF IInv, TypeOK, IndexesAgree, ServedIsStored, Kept, Served

\* A goroutine is done: it becomes idle.
LEMMA ToIdle ==
    ASSUME IInv, NEW p \in Proc, Become(p, Idle),
           UNCHANGED <<backend, disk, store, registry, generated>>,
           status \in Up, status' \in Up,
           torn' \in BOOLEAN, cache' \in [Key -> {1, 2, None, Failed}],
           recDisk' \in SUBSET LocalID, recorded' \in SUBSET LocalID,
           promised' \in SUBSET (LocalID \X Key), PromisesKept'
    PROVE  IInv'
  <1>1. op'[p] = Idle
    BY DEF Become, IInv, TypeOK
  <1>2. OpOK(p)'
    BY <1>1 DEF Idle, OpOK, DoneKept, TodoServed, HasGateway, AddFresh, IndexNew,
                PushKept, SyncServed, AnswerKind
  <1>3. Idle.pc = "idle"
    BY DEF Idle
  <1> QED
    BY <1>2, <1>3, IdleOK, Step DEF Become

\* A goroutine generated a key and is about to add the gateway.
LEMMA GenerateStep ==
    ASSUME IInv, NEW p \in Proc, NEW s \in OpState, NEW id \in LocalID,
           Generate(p, s, id), status \in Up,
           s.done = op[p].done \/ s.done = {},
           p # Timer,
           UNCHANGED <<backend, status, disk, torn, store, registry, cache, recDisk,
                       recorded, promised>>
    PROVE  IInv'
  <1>1. PICK k \in Key \ generated :
          /\ generated' = generated \cup {k}
          /\ Become(p, [s EXCEPT !.pc = "add",
                        !.gw = [id |-> id, key |-> k, info |-> 0]])
    BY DEF Generate
  <1> DEFINE g == [id |-> id, key |-> k, info |-> 0]
             t == [s EXCEPT !.pc = "add", !.gw = g]
  <1>2. g \in Gateway
    BY DEF Gateway, Info
  <1>3. t \in OpState /\ t.pc = "add" /\ t.gw = g /\ t.done = s.done
    BY <1>2 DEF OpState
  <1>4. op' = [op EXCEPT ![p] = t]
    BY <1>1 DEF Become
  <1> HIDE DEF t
  <1>5. op' \in [Proc -> OpState] /\ op'[p] = t /\ \A q \in Proc : q # p => op'[q] = op[q]
    BY <1>3, <1>4, Moved DEF IInv, TypeOK
  <1>6. TypeOK'
    BY <1>1, <1>5 DEF IInv, TypeOK, store
  <1>7. disk' = disk /\ byLocalId' = byLocalId
    BY DEF store
  <1>8. DoneKept(p)'
    BY <1>3, <1>5, <1>7 DEF IInv, OpOK, DoneKept, Kept
  <1>9. AddFresh(p)'
    <2>1. \A i \in LocalID : ~Kept(i, k)'
      BY <1>7 DEF IInv, DiskSound, Kept
    <2> QED
      BY <2>1, <1>1, <1>3, <1>5 DEF AddFresh
  <1>10. OpOK(p)'
    BY <1>2, <1>3, <1>5, <1>8, <1>9 DEF OpOK, TodoServed, HasGateway, IndexNew,
       PushKept, SyncServed, AnswerKind
  <1> QED
    BY <1>1, <1>3, <1>5, <1>6, <1>7, <1>10, NoReply, LocalStep

-----------------------------------------------------------------------------
(* Requests                                                                *)

\* POST /v1/gateways keeps the invariant: the key it generates is new.
LEMMA AddGatewayStep ==
    ASSUME IInv, NEW p \in Request, NEW id \in LocalID, AddGateway(p, id)
    PROVE  IInv'
  <1> USE DEF AddGateway
  <1>0. p \in Proc /\ p # Timer /\ status \in Up
    BY StoreNames DEF Proc, Up
  <1>1. CASE byLocalId[id] # None
    <2> DEFINE g == byLocalId[id]
    <2>1. g \in Gateway /\ Kept(g.id, g.key)
      BY <1>1, ServedKept
    <2>2. PromisesKept' /\ promised' \in SUBSET (LocalID \X Key)
      BY <1>1, <2>1, PairKept, Replied
    <2>3. op' = [op EXCEPT ![p] = op[p]]
      BY <1>0, <1>1 DEF IInv, TypeOK
    <2>4. op[p] \in OpState /\ op[p].pc = "idle" /\ op' = op
      BY <1>0, <1>1 DEF IInv, TypeOK, At
    <2>5. OpOK(p)'
      <3>1. OpOK(p) /\ op'[p] = op[p]
        BY <1>0, <2>4 DEF IInv
      <3> QED
        BY <3>1, <2>4, <1>0, OthersOK, <1>1 DEF Kept, Served, store
    <2> QED
      BY <1>0, <1>1, <2>2, <2>3, <2>4, <2>5, Step DEF IInv, TypeOK
  <1>2. CASE byLocalId[id] = None
    <2>1. [Idle EXCEPT !.req = "add"] \in OpState /\ [Idle EXCEPT !.req = "add"].done = {}
      BY DEF Idle, OpState, Answer
    <2> QED
      BY <1>0, <1>2, <2>1, GenerateStep
  <1> QED
    BY <1>1, <1>2

\* GET /v1/gateways keeps the invariant: it names gateways that are served, hence stored.
LEMMA ListGatewaysStep ==
    ASSUME IInv, NEW p \in Request, ListGateways(p)
    PROVE  IInv'
  <1> USE DEF ListGateways
  <1> DEFINE pairs == {Pair(byLocalId[id]) : id \in {i \in LocalID : byLocalId[i] # None}}
  <1>0. p \in Proc /\ status \in Up
    BY DEF Proc, Up
  <1>1. ASSUME NEW id \in LocalID, byLocalId[id] # None
        PROVE  /\ Pair(byLocalId[id]) = <<id, byLocalId[id].key>>
               /\ Pair(byLocalId[id]) \in LocalID \X Key
               /\ Kept(id, byLocalId[id].key)
    BY <1>1, ServedKept, GatewayFields DEF Pair
  <1>2. pairs \in SUBSET (LocalID \X Key)
    BY <1>1
  <1>3. \A id \in LocalID, k \in Key : <<id, k>> \in pairs => Kept(id, k)
    BY <1>1
  <1>4. PromisesKept' /\ promised' \in SUBSET (LocalID \X Key)
    BY <1>2, <1>3, Replied
  <1>5. op' = [op EXCEPT ![p] = op[p]]
    BY <1>0 DEF IInv, TypeOK
  <1>6. op[p] \in OpState /\ op[p].pc = "idle" /\ op' = op /\ OpOK(p) /\ op'[p] = op[p]
    BY <1>0 DEF IInv, TypeOK, At
  <1>7. OpOK(p)'
    BY <1>0, <1>6, OthersOK DEF Kept, Served, store
  <1> QED
    BY <1>0, <1>4, <1>5, <1>6, <1>7, Step DEF IInv, TypeOK

\* POST /v1/gateways/onboard keeps the invariant, for a new gateway and for one in the store.
LEMMA OnboardGatewayMessageStep ==
    ASSUME IInv, NEW p \in Request, NEW id \in LocalID, OnboardGatewayMessage(p, id)
    PROVE  IInv'
  <1> USE DEF OnboardGatewayMessage
  <1>0. p \in Proc /\ p # Timer /\ status \in Up
    BY StoreNames DEF Proc, Up
  <1>1. CASE byLocalId[id] = None
    <2>1. /\ [Idle EXCEPT !.req = "onboard"] \in OpState
          /\ [Idle EXCEPT !.req = "onboard"].done = {}
      BY DEF Idle, OpState, Answer
    <2> QED
      BY <1>0, <1>1, <2>1, GenerateStep
  <1>2. CASE byLocalId[id] # None
    <2> DEFINE g == byLocalId[id]
               s == [Idle EXCEPT !.pc = "push", !.req = "onboard", !.gw = g]
    <2>1. g \in Gateway /\ Kept(g.id, g.key)
      BY <1>2, ServedKept
    <2>2. s \in OpState /\ s.pc = "push" /\ s.gw = g /\ s.done = {}
      BY <2>1 DEF Idle, OpState, Answer
    <2>3. op' = [op EXCEPT ![p] = s]
      BY <1>2 DEF Become
    <2> HIDE DEF s
    <2>4. op'[p] = s /\ disk' = disk
      BY <1>0, <2>2, <2>3, Moved, <1>2 DEF IInv, TypeOK
    <2>5. OpOK(p)'
      BY <1>0, <2>1, <2>2, <2>4 DEF OpOK, DoneKept, TodoServed, HasGateway, AddFresh,
         IndexNew, PushKept, SyncServed, AnswerKind, Kept
    <2> QED
      BY <1>0, <1>2, <2>2, <2>3, <2>5, NoReply, Step DEF IInv, TypeOK
  <1> QED
    BY <1>1, <1>2

\* Starting an import keeps the invariant: it touches no gateway yet.
LEMMA ImportGatewaysStep ==
    ASSUME IInv, NEW p \in Request, ImportGateways(p)
    PROVE  IInv'
  <1> USE DEF ImportGateways, rest
  <1> DEFINE s == [Idle EXCEPT !.pc = "loop", !.req = "import",
                   !.todo = IF backend = "yaml" THEN recorded ELSE recDisk]
  <1>0. p \in Proc /\ p # Timer /\ status \in Up
    BY StoreNames DEF Proc, Up
  <1>2. s \in OpState /\ s.pc = "loop" /\ s.done = {}
    BY DEF Idle, OpState, Answer, IInv, TypeOK
  <1>3. op' = [op EXCEPT ![p] = s]
    BY DEF Become
  <1> HIDE DEF s
  <1>4. op'[p] = s
    BY <1>0, <1>2, <1>3, Moved DEF IInv, TypeOK
  <1>5. OpOK(p)'
    BY <1>0, <1>2, <1>4 DEF OpOK, DoneKept, TodoServed, HasGateway, AddFresh,
       IndexNew, PushKept, SyncServed, AnswerKind
  <1> QED
    BY <1>0, <1>2, <1>3, <1>5, NoReply, Step DEF IInv, TypeOK

\* A turn of the import loop keeps the invariant; the reply names what was added.
LEMMA ImportNextStep ==
    ASSUME IInv, NEW p \in Request, ImportNext(p)
    PROVE  IInv'
  <1> USE DEF ImportNext
  <1>0. p \in Proc /\ p # Timer /\ op[p] \in OpState /\ OpOK(p)
    BY StoreNames DEF Proc, IInv, TypeOK
  <1>a. status \in Up
    BY <1>0, Busy DEF At
  <1>1. CASE op[p].todo = {} /\ Reply(op[p].done) /\ Become(p, Idle) /\ UNCHANGED generated
    <2>1. PromisesKept' /\ promised' \in SUBSET (LocalID \X Key)
      BY <1>0, <1>1, OpFields, Replied DEF OpOK, DoneKept
    <2> QED
      BY <1>0, <1>a, <1>1, <2>1, ToIdle DEF IInv, TypeOK
  <1>2. ASSUME NEW id \in op[p].todo, UNCHANGED promised,
               IF byLocalId[id] # None
               THEN Become(p, [op[p] EXCEPT !.todo = @ \ {id}]) /\ UNCHANGED generated
               ELSE Generate(p, [op[p] EXCEPT !.todo = @ \ {id}], id)
        PROVE  IInv'
    <2> DEFINE s == [op[p] EXCEPT !.todo = @ \ {id}]
    <2>1. s \in OpState /\ s.pc = "loop" /\ s.done = op[p].done /\ id \in LocalID
      BY <1>0, OpFields DEF OpState, At
    <2>2. CASE byLocalId[id] # None
      <3>1. op' = [op EXCEPT ![p] = s]
        BY <1>2, <2>2 DEF Become
      <3> HIDE DEF s
      <3>2. op'[p] = s /\ disk' = disk
        BY <1>0, <2>1, <3>1, Moved DEF IInv, TypeOK
      <3>3. OpOK(p)'
        BY <1>0, <2>1, <3>2 DEF OpOK, DoneKept, TodoServed, HasGateway, AddFresh,
           IndexNew, PushKept, SyncServed, AnswerKind, Kept
      <3> QED
        BY <1>0, <1>a, <1>2, <2>1, <2>2, <3>1, <3>3, NoReply, Step DEF IInv, TypeOK
    <2>3. CASE byLocalId[id] = None
      <3> HIDE DEF s
      <3> QED
        BY <1>0, <1>a, <1>2, <2>1, <2>3, GenerateStep DEF s
    <2> QED
      BY <2>2, <2>3
  <1> QED
    BY <1>1, <1>2

\* Pushing an onboard message keeps the invariant, whether or not it succeeds.
LEMMA PushOnboardStep ==
    ASSUME IInv, NEW p \in Request, PushOnboard(p)
    PROVE  IInv'
  <1> USE DEF PushOnboard
  <1>0. p \in Proc /\ op[p] \in OpState /\ OpOK(p)
    BY DEF Proc, IInv, TypeOK
  <1>1. status \in Up
    BY <1>0, Busy DEF At
  <1>2. op[p].gw \in Gateway /\ Kept(op[p].gw.id, op[p].gw.key)
    BY <1>0 DEF At, OpOK, HasGateway, PushKept
  <1>3. PromisesKept' /\ promised' \in SUBSET (LocalID \X Key)
    BY <1>2, PairKept, Replied, NoReply DEF Fails
  <1> QED
    BY <1>0, <1>1, <1>3, ToIdle DEF IInv, TypeOK, Fails

\* Pushing an imported gateway keeps the invariant: it is stored when it joins the replies.
LEMMA PushImportStep ==
    ASSUME IInv, NEW p \in Request, PushImport(p)
    PROVE  IInv'
  <1> USE DEF PushImport, store
  <1>0. p \in Proc /\ p # Timer /\ op[p] \in OpState /\ OpOK(p)
    BY StoreNames DEF Proc, IInv, TypeOK
  <1>1. status \in Up
    BY <1>0, Busy DEF At
  <1>2. op[p].gw \in Gateway /\ Kept(op[p].gw.id, op[p].gw.key)
    BY <1>0 DEF At, OpOK, HasGateway, PushKept
  <1>a. PromisesKept' /\ promised' \in SUBSET (LocalID \X Key)
    <2>1. PICK posted \in SUBSET {Pair(op[p].gw)} : Reply(posted)
      OBVIOUS
    <2>2. posted = {} \/ posted = {Pair(op[p].gw)}
      BY <2>1
    <2>3. CASE posted = {}
      BY <2>1, <2>3, NoReply DEF Reply
    <2>4. CASE posted = {Pair(op[p].gw)}
      BY <1>2, <2>1, <2>4, PairKept, Replied
    <2> QED
      BY <2>2, <2>3, <2>4
  <1>3. CASE Become(p, Idle)
    BY <1>0, <1>1, <1>a, <1>3, ToIdle DEF IInv, TypeOK
  <1>4. CASE Become(p, [op[p] EXCEPT !.pc = "loop", !.gw = None,
                                     !.done = @ \cup {Pair(op[p].gw)}])
    <2> DEFINE pair == Pair(op[p].gw)
               s == [op[p] EXCEPT !.pc = "loop", !.gw = None, !.done = @ \cup {pair}]
    <2>1. pair \in LocalID \X Key /\ pair = <<op[p].gw.id, op[p].gw.key>>
      BY <1>2, GatewayFields DEF Pair
    <2>2. op' = [op EXCEPT ![p] = s]
      BY <1>4 DEF Become
    <2> HIDE DEF pair
    <2>3. s \in OpState /\ s.pc = "loop" /\ s.done = op[p].done \cup {pair}
      BY <1>0, <2>1 DEF OpState
    <2> HIDE DEF s
    <2>4. op'[p] = s /\ disk' = disk
      BY <1>0, <2>2, <2>3, Moved DEF IInv, TypeOK
    <2>5. DoneKept(p)'
      BY <1>0, <1>2, <2>1, <2>3, <2>4 DEF OpOK, DoneKept, Kept
    <2>6. OpOK(p)'
      BY <1>0, <2>3, <2>4, <2>5 DEF OpOK, TodoServed, HasGateway, AddFresh,
         IndexNew, PushKept, SyncServed, AnswerKind
    <2> QED
      BY <1>0, <1>1, <1>a, <2>2, <2>3, <2>6, Step DEF IInv, TypeOK
  <1> QED
    BY <1>3, <1>4

-----------------------------------------------------------------------------
(* Synchronisation                                                         *)

\* Goroutine p looks gateway id up, with nothing lost of what it has in hand.
LEMMA LookupStep ==
    ASSUME IInv, NEW p \in Proc, NEW s \in OpState, NEW id \in LocalID,
           byLocalId[id] # None, Lookup(p, s, id), status \in Up, status' = status,
           s.done = op[p].done \/ s.done = {},
           s.todo \subseteq op[p].todo,
           UNCHANGED <<backend, disk, torn, store, registry, cache, recDisk,
                       recorded, generated, promised>>
    PROVE  IInv'
  <1> DEFINE g == byLocalId[id]
             t == [s EXCEPT !.pc = "query", !.gw = g]
  <1>1. g \in Gateway /\ Served(g.id, g.key) /\ g.id = id
    BY ServedKept
  <1>2. t \in OpState /\ t.pc = "query" /\ t.gw = g /\ t.done = s.done /\ t.todo = s.todo
    BY <1>1 DEF OpState
  <1>3. op' = [op EXCEPT ![p] = t]
    BY DEF Lookup, Become
  <1> HIDE DEF t
  <1>4. op'[p] = t /\ disk' = disk /\ byLocalId' = byLocalId
    BY <1>2, <1>3, Moved DEF IInv, TypeOK, store
  <1>5. OpOK(p)'
    BY <1>1, <1>2, <1>4 DEF IInv, OpOK, DoneKept, TodoServed, HasGateway, AddFresh,
       IndexNew, PushKept, SyncServed, AnswerKind, Kept, Served
  <1> QED
    BY <1>2, <1>3, <1>5, NoReply, Step DEF IInv, TypeOK

\* The look-up of a forced synchronisation keeps the invariant.
LEMMA SyncGatewayStep ==
    ASSUME IInv, NEW p \in Request, NEW id \in LocalID, SyncGateway(p, id)
    PROVE  IInv'
  <1> USE DEF SyncGateway, rest
  <1>1. p \in Proc /\ status \in Up
    BY DEF Proc, Up
  <1>2. /\ [Idle EXCEPT !.req = "sync"] \in OpState
        /\ [Idle EXCEPT !.req = "sync"].done = {}
        /\ [Idle EXCEPT !.req = "sync"].todo = {}
    BY DEF Idle, OpState, Answer
  <1> QED
    BY <1>1, <1>2, LookupStep

\* The timer's synchronisation starts with gateways that are served.
LEMMA SyncAllStep ==
    ASSUME IInv, SyncAll
    PROVE  IInv'
  <1> USE DEF SyncAll, rest
  <1> DEFINE served == {id \in LocalID : byLocalId[id] # None}
             s == [Idle EXCEPT !.pc = "loop", !.req = "syncall", !.todo = served]
  <1>0. Timer \in Proc /\ status \in Up
    BY DEF Proc, Up
  <1>2. s \in OpState /\ s.pc = "loop" /\ s.done = {} /\ s.todo = served
    BY DEF Idle, OpState, Answer
  <1>3. op' = [op EXCEPT ![Timer] = s]
    BY DEF Become
  <1> HIDE DEF s
  <1>4. op'[Timer] = s /\ byLocalId' = byLocalId
    BY <1>0, <1>2, <1>3, Moved DEF IInv, TypeOK, store
  <1>5. OpOK(Timer)'
    BY <1>0, <1>2, <1>4 DEF OpOK, DoneKept, TodoServed, HasGateway, AddFresh,
       IndexNew, PushKept, SyncServed, AnswerKind
  <1> QED
    BY <1>0, <1>2, <1>3, <1>5, NoReply, Step DEF IInv, TypeOK

\* A turn of the timer's loop keeps the invariant: what it has left stays served.
LEMMA SyncNextStep ==
    ASSUME IInv, SyncNext
    PROVE  IInv'
  <1> USE DEF SyncNext
  <1>0. Timer \in Proc /\ op[Timer] \in OpState /\ OpOK(Timer)
    BY DEF Proc, IInv, TypeOK
  <1>1. status \in Up
    BY <1>0, Busy DEF At
  <1>2. CASE op[Timer].todo = {}
    BY <1>0, <1>1, <1>2, NoReply, ToIdle DEF IInv, TypeOK, Up
  <1>3. CASE op[Timer].todo # {}
    <2>1. PICK id \in op[Timer].todo :
            Lookup(Timer, [op[Timer] EXCEPT !.todo = @ \ {id}], id)
      BY <1>3
    <2> DEFINE s == [op[Timer] EXCEPT !.todo = @ \ {id}]
    <2>2. /\ id \in LocalID /\ s \in OpState /\ s.done = op[Timer].done
          /\ s.todo \subseteq op[Timer].todo
      BY <1>0, OpFields DEF OpState
    <2>3. byLocalId[id] # None
      BY <1>0 DEF OpOK, TodoServed
    <2> QED
      BY <1>0, <1>1, <1>3, <2>1, <2>2, <2>3, LookupStep
  <1> QED
    BY <1>2, <1>3

\* A synchronisation ends without a change of store or storage.
LEMMA SyncDoneStep ==
    ASSUME IInv, NEW p \in Proc, SyncDone(p), status \in Up,
           UNCHANGED <<backend, status, disk, torn, store, registry, recDisk,
                       recorded, generated>>,
           cache' \in [Key -> {1, 2, None, Failed}],
           promised' \in SUBSET (LocalID \X Key), PromisesKept'
    PROVE  IInv'
  <1>0. op[p] \in OpState /\ OpOK(p) /\ disk' = disk /\ byLocalId' = byLocalId
    BY DEF IInv, TypeOK, store
  <1>1. CASE p # Timer
    BY <1>1, ToIdle DEF SyncDone, IInv, TypeOK
  <1>2. CASE p = Timer
    <2> DEFINE s == [op[p] EXCEPT !.pc = "loop", !.gw = None, !.ans = None]
    <2>1. s \in OpState /\ s.pc = "loop" /\ s.done = op[p].done /\ s.todo = op[p].todo
      BY <1>0 DEF OpState, Answer
    <2>2. op' = [op EXCEPT ![p] = s]
      BY <1>2 DEF SyncDone, Become
    <2> HIDE DEF s
    <2>3. op'[p] = s
      BY <2>1, <2>2, Moved DEF IInv, TypeOK
    <2>4. OpOK(p)'
      BY <1>0, <2>1, <2>3 DEF OpOK, DoneKept, TodoServed, HasGateway, AddFresh,
         IndexNew, PushKept, SyncServed, AnswerKind, Kept
    <2> QED
      BY <2>1, <2>2, <2>4, Step DEF IInv, TypeOK
  <1> QED
    BY <1>1, <1>2

\* A synchronisation goes on with the same gateway: pc and ans of p change.
LEMMA SyncMoves ==
    ASSUME IInv, NEW p \in Proc, op[p].pc \in {"query", "cache"},
           NEW pc \in {"cache", "save", "apply"}, NEW ans \in Answer,
           Become(p, [op[p] EXCEPT !.pc = pc, !.ans = ans]),
           pc = "cache" => ans # None,
           pc # "cache" => ans \in {1, 2},
           UNCHANGED <<backend, status, disk, torn, store, registry, recDisk,
                       recorded, generated, promised>>,
           cache' \in [Key -> {1, 2, None, Failed}]
    PROVE  IInv'
  <1> DEFINE s == [op[p] EXCEPT !.pc = pc, !.ans = ans]
  <1>0. /\ op[p] \in OpState /\ OpOK(p) /\ status \in Up
        /\ disk' = disk /\ byLocalId' = byLocalId
    BY Busy DEF IInv, TypeOK, store
  <1>1. /\ s \in OpState /\ s.pc = pc /\ s.ans = ans /\ s.gw = op[p].gw
        /\ s.done = op[p].done /\ s.todo = op[p].todo
    BY <1>0 DEF OpState
  <1>2. op' = [op EXCEPT ![p] = s]
    BY DEF Become
  <1> HIDE DEF s
  <1>3. op'[p] = s
    BY <1>1, <1>2, Moved DEF IInv, TypeOK
  <1>4. OpOK(p)'
    BY <1>0, <1>1, <1>3 DEF OpOK, DoneKept, TodoServed, HasGateway, AddFresh,
       IndexNew, PushKept, SyncServed, AnswerKind, Kept, Served
  <1> QED
    BY <1>0, <1>1, <1>2, <1>4, NoReply, Step DEF IInv, TypeOK

\* A cached answer keeps the invariant: it is an owner or details.
LEMMA UseCacheStep ==
    ASSUME IInv, NEW p \in Proc, UseCache(p)
    PROVE  IInv'
  <1> USE DEF UseCache, rest
  <1> DEFINE a == cache[op[p].gw.key]
  <1>0. op[p].gw \in Gateway /\ status \in Up
    BY Busy DEF IInv, OpOK, HasGateway, At
  <1>1. a \in {1, 2, Failed} /\ a \in Answer
    BY <1>0, GatewayFields DEF IInv, TypeOK, Answer, Info
  <1>2. CASE a = Failed
    BY <1>0, <1>2, NoReply, SyncDoneStep DEF IInv, TypeOK
  <1>3. CASE a # Failed
    <2> DEFINE pc == IF backend = "pg" THEN "save" ELSE "apply"
    <2>1. Become(p, [op[p] EXCEPT !.ans = a, !.pc = pc])
      BY <1>3
    <2>2. [op[p] EXCEPT !.ans = a, !.pc = pc] = [op[p] EXCEPT !.pc = pc, !.ans = a]
      BY DEF IInv, TypeOK, OpState
    <2>3. a \in {1, 2} /\ pc \in {"cache", "save", "apply"} /\ pc # "cache"
      BY <1>1, <1>3
    <2>4. op[p].pc \in {"query", "cache"} /\ cache' \in [Key -> {1, 2, None, Failed}]
      BY DEF At, IInv, TypeOK
    <2>5. Become(p, [op[p] EXCEPT !.pc = pc, !.ans = a])
      BY <2>1, <2>2
    <2>6. UNCHANGED <<backend, status, disk, torn, store, registry, recDisk,
                      recorded, generated, promised>>
      OBVIOUS
    <2> HIDE DEF a, pc, UseCache
    <2> QED
      BY <1>1, <2>3, <2>4, <2>5, <2>6, SyncMoves
  <1> QED
    BY <1>2, <1>3

\* Asking the registry, with or without success, keeps the invariant.
LEMMA AskStep ==
    ASSUME IInv, NEW p \in Proc, AskOK(p) \/ AskFails(p)
    PROVE  IInv'
  <1> USE DEF AskOK, AskFails, Ask, rest
  <1>0. op[p].gw \in Gateway
    BY DEF IInv, OpOK, HasGateway, At
  <1>1. PICK a \in {registry[op[p].gw.key], Failed, 0} :
          Become(p, [op[p] EXCEPT !.pc = "cache", !.ans = a])
    OBVIOUS
  <1>2. a \in Answer /\ a # None
    <2>1. registry[op[p].gw.key] \in Info /\ 0 \in Info
      BY <1>0, GatewayFields DEF IInv, TypeOK, Info
    <2>2. \A i \in Info : i # None
      BY StoreNames
    <2> QED
      BY <2>1, <2>2, StoreNames DEF Answer
  <1>3. op[p].pc \in {"query", "cache"} /\ cache' \in [Key -> {1, 2, None, Failed}]
    BY DEF At, IInv, TypeOK
  <1> QED
    BY <1>1, <1>2, <1>3, SyncMoves

\* Caching an answer keeps the invariant; only answers with an owner go on.
LEMMA AnsweredStep ==
    ASSUME IInv, NEW p \in Proc, Answered(p)
    PROVE  IInv'
  <1> USE DEF Answered, UseAnswer
  <1>0. op[p] \in OpState /\ op[p].gw \in Gateway /\ op[p].ans \in Info \cup {Failed}
    BY OpFields DEF IInv, TypeOK, OpOK, HasGateway, AnswerKind, At, Answer
  <1>1. cache' \in [Key -> {1, 2, None, Failed}]
    BY <1>0, GatewayFields DEF IInv, TypeOK, Info
  <1>2. status \in Up /\ disk' = disk
    BY Busy DEF At
  <1>3. CASE op[p].ans \in {Failed, 0}
    <2>1. Kept(op[p].gw.id, op[p].gw.key)
      BY <1>0, GatewayFields DEF IInv, OpOK, SyncServed, At, Served, Kept, ServedIsStored
    <2>2. PromisesKept' /\ promised' \in SUBSET (LocalID \X Key)
      BY <1>0, <1>2, <1>3, <2>1, PairKept, Replied DEF ReplySynced
    <2> QED
      BY <1>1, <1>2, <1>3, <2>2, SyncDoneStep
  <1>4. CASE op[p].ans \notin {Failed, 0}
    <2> DEFINE pc == IF backend = "pg" THEN "save" ELSE "apply"
               a == op[p].ans
    <2>1. op' = [op EXCEPT ![p].pc = pc]
      BY <1>4 DEF Goto
    <2>2. [op[p] EXCEPT !.pc = pc] = [op[p] EXCEPT !.pc = pc, !.ans = a]
      BY <1>0 DEF OpState
    <2>3. Become(p, [op[p] EXCEPT !.pc = pc, !.ans = a])
      BY <2>1, <2>2 DEF Become, IInv, TypeOK
    <2>4. a \in {1, 2} /\ a \in Answer /\ pc \in {"cache", "save", "apply"} /\ pc # "cache"
      BY <1>0, <1>4 DEF Info, Answer
    <2> HIDE DEF a, pc
    <2> QED
      BY <1>1, <1>4, <2>3, <2>4, SyncMoves DEF At
  <1> QED
    BY <1>3, <1>4

\* A failing update of the row keeps the invariant: nothing is written.
LEMMA SaveFailsStep ==
    ASSUME IInv, NEW p \in Proc, SaveFails(p)
    PROVE  IInv'
  BY Busy, NoReply, SyncDoneStep DEF SaveFails, At, IInv, TypeOK, rest

-----------------------------------------------------------------------------
(* Unknown gateways                                                        *)

\* A packet of an unknown gateway keeps the invariant.
LEMMA UnknownGatewayStep ==
    ASSUME IInv, NEW p \in Request, NEW id \in LocalID, UnknownGateway(p, id)
    PROVE  IInv'
  <1> USE DEF UnknownGateway, rest
  <1> DEFINE s == [Idle EXCEPT !.pc = "check", !.req = "packet", !.todo = {id}]
  <1>0. p \in Proc /\ p # Timer /\ status \in Up
    BY StoreNames DEF Proc, Up
  <1>1. s \in OpState /\ s.pc = "check" /\ s.done = {}
    BY DEF Idle, OpState, Answer
  <1>2. op' = [op EXCEPT ![p] = s]
    BY DEF Become
  <1> HIDE DEF s
  <1>3. op'[p] = s
    BY <1>0, <1>1, <1>2, Moved DEF IInv, TypeOK
  <1>4. OpOK(p)'
    BY <1>0, <1>1, <1>3 DEF OpOK, DoneKept, TodoServed, HasGateway, AddFresh,
       IndexNew, PushKept, SyncServed, AnswerKind
  <1> QED
    BY <1>0, <1>1, <1>2, <1>4, NoReply, Step DEF IInv, TypeOK

\* Recording an unknown gateway keeps the invariant: the stores do not change.
LEMMA RecordStep ==
    ASSUME IInv, NEW p \in Request, RecordCheck(p) \/ RecordAppend(p) \/ RecordPg(p)
    PROVE  IInv'
  <1> USE DEF RecordCheck, RecordAppend, RecordPg, rest
  <1>0. p \in Proc /\ p # Timer /\ op[p] \in OpState /\ OpOK(p) /\ disk' = disk
    BY StoreNames DEF Proc, IInv, TypeOK
  <1>1. status \in Up /\ op[p].todo \in SUBSET LocalID
    BY <1>0, Busy, OpFields DEF At
  <1>2. CASE RecordCheck(p) /\ ~(op[p].todo \subseteq recorded)
    <2> DEFINE s == [op[p] EXCEPT !.pc = "append"]
    <2>1. s \in OpState /\ s.pc = "append" /\ s.done = op[p].done
      BY <1>0 DEF OpState
    <2>2. op' = [op EXCEPT ![p] = s]
      BY <1>0, <1>2 DEF Goto, IInv, TypeOK
    <2> HIDE DEF s
    <2>3. op'[p] = s
      BY <1>0, <2>1, <2>2, Moved DEF IInv, TypeOK
    <2>4. OpOK(p)'
      BY <1>0, <2>1, <2>3 DEF OpOK, DoneKept, TodoServed, HasGateway, AddFresh,
         IndexNew, PushKept, SyncServed, AnswerKind, Kept
    <2> QED
      BY <1>0, <1>1, <1>2, <2>1, <2>2, <2>4, NoReply, Step DEF IInv, TypeOK
  <1>3. CASE Become(p, Idle)
    BY <1>0, <1>1, <1>3, NoReply, ToIdle DEF IInv, TypeOK
  <1> QED
    BY <1>2, <1>3

-----------------------------------------------------------------------------
(* The environment                                                         *)

\* Expiring answers and changes of the registry keep the invariant.
LEMMA EnvironmentStep ==
    ASSUME IInv, NEW k \in Key, Expire(k) \/ RegistryChange(k)
    PROVE  IInv'
  <1> USE DEF Expire, RegistryChange
  <1>0. /\ backend' = backend /\ status' = status /\ disk' = disk
        /\ byLocalId' = byLocalId /\ byNetId' = byNetId /\ byThingsIxID' = byThingsIxID
        /\ op' = op /\ generated' = generated /\ promised' = promised
    BY DEF store
  <1>1. TypeOK'
    BY <1>0 DEF IInv, TypeOK, Info
  <1>2. IndexesAgree' /\ PromisesKept' /\ ServedIsStored' /\ DiskSound'
    BY <1>0 DEF IInv, IndexesAgree, PromisesKept, ServedIsStored, DiskSound, Kept
  <1>3. Distinct' /\ YamlServesAll' /\ DownIdle'
    BY <1>0 DEF IInv, Distinct, YamlServesAll, DownIdle
  <1>4. ASSUME NEW q \in Proc PROVE OpOK(q)'
    BY <1>0 DEF IInv, OpOK, DoneKept, TodoServed, HasGateway, AddFresh,
       IndexNew, PushKept, SyncServed, AnswerKind, Kept, Served
  <1> QED
    BY <1>1, <1>2, <1>3, <1>4 DEF IInv

-----------------------------------------------------------------------------
(* Steps that change what is stored or served                              *)

\* A step of goroutine p that loses nothing of what is stored and served.
LEMMA Assemble ==
    ASSUME IInv, NEW p \in Proc, TypeOK', IndexesAgree', PromisesKept',
           ServedIsStored', DiskSound', YamlServesAll',
           status \in Up, status' = status, backend' = backend, generated' = generated,
           \A q \in Proc : q # p => op'[q] = op[q],
           \A id \in LocalID, k \in Key : Kept(id, k) => Kept(id, k)',
           \A id \in LocalID, k \in Key : Served(id, k) => Served(id, k)',
           \A id \in LocalID : byLocalId[id] # None => byLocalId'[id] # None,
           \A q \in Proc : q # p /\ op[q].pc = "add" =>
               \A id \in LocalID : ~Kept(id, op[q].gw.key)',
           \A q \in Proc : q # p /\ op[q].pc = "index" =>
               byLocalId'[op[q].gw.id] = None,
           OpOK(p)', op'[p].pc # "add",
           op'[p].pc = "index" =>
               \A q \in Proc : q # p /\ op[q].pc = "index" =>
                   op[q].gw.id # op'[p].gw.id
    PROVE  IInv'
  <1>1. Distinct'
    BY DEF IInv, Distinct
  <1>2. DownIdle'
    BY DEF DownIdle
  <1>3. ASSUME NEW q \in Proc PROVE OpOK(q)'
    <2>1. CASE q = p
      BY <2>1
    <2>2. CASE q # p
      <3>1. op[q] \in OpState /\ OpOK(q) /\ op'[q] = op[q]
        BY <2>2 DEF IInv, TypeOK
      <3> QED
        BY <2>2, <3>1, OthersOK
    <2> QED
      BY <2>1, <2>2
  <1> QED
    BY <1>1, <1>2, <1>3 DEF IInv

\* Gateway g is put in the indexes, anew or in place of itself.
LEMMA Indexed ==
    ASSUME IInv, NEW g \in Gateway, NEW things \in BOOLEAN, Index(g, things),
           backend' = backend,
           byLocalId[g.id] = None \/ Served(g.id, g.key),
           \A id \in LocalID : Served(id, g.key) => id = g.id,
           things \/ (backend = "pg" /\ byLocalId[g.id] = None)
    PROVE  /\ IndexesAgree'
           /\ byLocalId' \in [LocalID -> Gateway \cup {None}]
           /\ byNetId' \in [Key -> Gateway \cup {None}]
           /\ byThingsIxID' \in [Key -> Gateway \cup {None}]
           /\ byLocalId'[g.id] = g
           /\ \A id \in LocalID : id # g.id => byLocalId'[id] = byLocalId[id]
           /\ \A id \in LocalID : byLocalId[id] # None => byLocalId'[id] # None
           /\ \A id \in LocalID, k \in Key : Served(id, k) => Served(id, k)'
  <1>0. g.id \in LocalID /\ g.key \in Key /\ g # None
    BY GatewayFields
  <1>1. /\ byLocalId' \in [LocalID -> Gateway \cup {None}]
        /\ byNetId' \in [Key -> Gateway \cup {None}]
        /\ byThingsIxID' \in [Key -> Gateway \cup {None}]
    BY <1>0 DEF Index, IInv, TypeOK
  <1>2. /\ byLocalId'[g.id] = g /\ byNetId'[g.key] = g
        /\ \A id \in LocalID : id # g.id => byLocalId'[id] = byLocalId[id]
        /\ \A k \in Key : k # g.key => byNetId'[k] = byNetId[k]
        /\ \A k \in Key : k # g.key => byThingsIxID'[k] = byThingsIxID[k]
        /\ byThingsIxID'[g.key] = IF things THEN g ELSE byThingsIxID[g.key]
    BY <1>0 DEF Index, IInv, TypeOK
  <1>3. byNetId[g.key] # None => Served(g.id, g.key)
    <2> SUFFICES ASSUME byNetId[g.key] # None PROVE Served(g.id, g.key)
      OBVIOUS
    <2> DEFINE h == byNetId[g.key]
    <2>1. h \in Gateway /\ h.key = g.key /\ byLocalId[h.id] = h
      BY <1>0 DEF IInv, TypeOK, IndexesAgree
    <2>2. h.id \in LocalID /\ h # None
      BY <2>1, GatewayFields
    <2> QED
      BY <2>1, <2>2 DEF Served
  <1>4. things \/ (backend = "pg" /\ byThingsIxID[g.key] = None)
    BY <1>0, <1>3 DEF Served, IInv, IndexesAgree
  <1>5. ASSUME NEW id \in LocalID, byLocalId'[id] # None
        PROVE  LET h == byLocalId'[id]
               IN /\ h.id = id
                  /\ byNetId'[h.key] = h
                  /\ \/ byThingsIxID'[h.key] = h
                     \/ backend' = "pg" /\ byThingsIxID'[h.key] = None
    <2>1. CASE id = g.id
      BY <1>0, <1>2, <1>4, <2>1
    <2>2. CASE id # g.id
      <3>1. byLocalId'[id] = byLocalId[id] /\ byLocalId[id] \in Gateway
        BY <1>2, <1>5, <2>2 DEF IInv, TypeOK
      <3>2. byLocalId[id].key \in Key /\ byLocalId[id].key # g.key
        BY <1>5, <2>2, <3>1, GatewayFields DEF Served
      <3> QED
        BY <1>2, <1>5, <3>1, <3>2 DEF IInv, IndexesAgree
    <2> QED
      BY <2>1, <2>2
  <1>6. ASSUME NEW k \in Key, byNetId'[k] # None
        PROVE  byNetId'[k].key = k /\ byLocalId'[byNetId'[k].id] = byNetId'[k]
    <2>1. CASE k = g.key
      BY <1>2, <2>1
    <2>2. CASE k # g.key
      <3> DEFINE h == byNetId[k]
      <3>1. byNetId'[k] = h /\ h \in Gateway /\ h.key = k /\ byLocalId[h.id] = h
        BY <1>2, <1>6, <2>2 DEF IInv, TypeOK, IndexesAgree
      <3>2. h.id \in LocalID /\ h # None
        BY <3>1, GatewayFields
      <3>3. h.id # g.id
        BY <2>2, <3>1, <3>2 DEF Served
      <3> QED
        BY <1>2, <3>1, <3>2, <3>3
    <2> QED
      BY <2>1, <2>2
  <1>7. ASSUME NEW k \in Key, byThingsIxID'[k] # None
        PROVE  byThingsIxID'[k] = byNetId'[k]
    BY <1>2, <1>4, <1>7 DEF IInv, IndexesAgree
  <1>8. IndexesAgree'
    BY <1>5, <1>6, <1>7 DEF IndexesAgree
  <1>9. \A id \in LocalID, k \in Key : Served(id, k) => Served(id, k)'
    BY <1>0, <1>2 DEF Served
  <1> QED
    BY <1>0, <1>1, <1>2, <1>8, <1>9

\* A new gateway is stored: nothing else of the storage changes.
LEMMA StoredNew ==
    ASSUME IInv, NEW g \in Gateway, disk[g.id] = None, g.key \in generated,
           \A id \in LocalID : ~Kept(id, g.key),
           disk' = [disk EXCEPT ![g.id] = g], generated' = generated
    PROVE  /\ disk' \in [LocalID -> Gateway \cup {None}]
           /\ DiskSound' /\ Kept(g.id, g.key)'
           /\ \A id \in LocalID : id # g.id => disk'[id] = disk[id]
           /\ \A id \in LocalID, k \in Key : Kept(id, k) => Kept(id, k)'
           /\ \A id \in LocalID, k \in Key : k # g.key /\ ~Kept(id, k) => ~Kept(id, k)'
  <1>1. g.id \in LocalID /\ g.key \in Key /\ g # None
    BY GatewayFields
  <1>2. /\ disk' \in [LocalID -> Gateway \cup {None}]
        /\ disk'[g.id] = g /\ \A id \in LocalID : id # g.id => disk'[id] = disk[id]
    BY <1>1 DEF IInv, TypeOK
  <1>3. DiskSound'
    BY <1>1, <1>2 DEF IInv, DiskSound, Kept
  <1> QED
    BY <1>1, <1>2, <1>3 DEF Kept

\* The goroutine that added its gateway goes on.
LEMMA AddedStep ==
    ASSUME IInv, NEW p \in Request, op[p].pc \in {"add", "index"}, Added(p),
           NEW g \in Gateway, op[p].gw = g, Kept(g.id, g.key)',
           \A id \in LocalID, k \in Key : Kept(id, k) => Kept(id, k)'
    PROVE  /\ op' \in [Proc -> OpState] /\ \A q \in Proc : q # p => op'[q] = op[q]
           /\ op'[p].pc \notin {"add", "index"} /\ OpOK(p)'
           /\ promised' \in SUBSET (LocalID \X Key) /\ PromisesKept'
  <1>0. /\ p \in Proc /\ p # Timer /\ op[p] \in OpState /\ OpOK(p)
        /\ op \in [Proc -> OpState]
    BY StoreNames DEF Proc, IInv, TypeOK
  <1>1. CASE op[p].req = "add"
    <2>1. promised' = promised \cup {Pair(g)} /\ op' = [op EXCEPT ![p] = Idle]
      BY <1>1 DEF Added, Reply, Become
    <2>2. op' \in [Proc -> OpState] /\ op'[p] = Idle /\ \A q \in Proc : q # p => op'[q] = op[q]
      BY <1>0, <2>1, IdleOK, Moved
    <2>3. OpOK(p)' /\ op'[p].pc \notin {"add", "index"}
      BY <2>2 DEF Idle, OpOK, DoneKept, TodoServed, HasGateway, AddFresh, IndexNew,
                  PushKept, SyncServed, AnswerKind
    <2>4. Pair(g) \in LocalID \X Key /\ Pair(g) = <<g.id, g.key>>
      BY GatewayFields DEF Pair
    <2>5. promised' \in SUBSET (LocalID \X Key)
      BY <2>1, <2>4 DEF IInv, TypeOK
    <2>6. ASSUME NEW id \in LocalID, NEW k \in Key, <<id, k>> \in promised'
          PROVE  Kept(id, k)'
      <3>1. CASE <<id, k>> \in promised
        BY <3>1 DEF IInv, PromisesKept, Kept
      <3>2. CASE <<id, k>> = <<g.id, g.key>>
        BY <3>2
      <3> QED
        BY <2>1, <2>4, <2>6, <3>1, <3>2
    <2>7. PromisesKept'
      BY <2>6 DEF PromisesKept, Kept
    <2> QED
      BY <2>2, <2>3, <2>5, <2>7
  <1>2. CASE op[p].req # "add"
    <2> DEFINE s == [op[p] EXCEPT !.pc = "push"]
    <2>1. promised' = promised /\ op' = [op EXCEPT ![p] = s]
      BY <1>0, <1>2 DEF Added, Goto
    <2>2. s \in OpState /\ s.pc = "push" /\ s.done = op[p].done /\ s.gw = g
      BY <1>0 DEF OpState
    <2> HIDE DEF s
    <2>3. op' \in [Proc -> OpState] /\ op'[p] = s /\ \A q \in Proc : q # p => op'[q] = op[q]
      BY <1>0, <2>1, <2>2, Moved
    <2>4. OpOK(p)'
      BY <1>0, <2>2, <2>3 DEF OpOK, DoneKept, TodoServed, HasGateway, AddFresh,
         IndexNew, PushKept, SyncServed, AnswerKind
    <2>5. promised' \in SUBSET (LocalID \X Key) /\ PromisesKept'
      BY <2>1 DEF IInv, TypeOK, PromisesKept, Kept
    <2> QED
      BY <2>2, <2>3, <2>4, <2>5
  <1> QED
    BY <1>1, <1>2

\* yamlFileStore.Add keeps the invariant: it writes and indexes under one lock.
LEMMA AddYamlStep ==
    ASSUME IInv, NEW p \in Request, AddYaml(p)
    PROVE  IInv'
  <1> USE DEF AddYaml
  <1>0. p \in Proc /\ op[p] \in OpState /\ OpOK(p) /\ op[p].pc = "add"
    BY DEF Proc, IInv, TypeOK, At
  <1>1. status \in Up
    BY <1>0, Busy
  <1>2. PICK g \in Gateway : op[p].gw = g
    BY <1>0 DEF OpOK, HasGateway
  <1>3. /\ g.id \in LocalID /\ g.key \in Key /\ g # None /\ g.key \in generated
        /\ \A id \in LocalID : ~Kept(id, g.key)
    BY <1>0, <1>2, GatewayFields DEF OpOK, AddFresh
  <1>4. CASE Fails(p) /\ UNCHANGED <<disk, store>>
    <2>1. torn' \in BOOLEAN
      BY DEF IInv, TypeOK
    <2> QED
      BY <1>0, <1>1, <1>4, <2>1, NoReply, ToIdle DEF IInv, TypeOK, Fails
  <1>5. CASE /\ byLocalId[g.id] = None /\ disk' = [disk EXCEPT ![g.id] = g]
             /\ Index(g, TRUE) /\ Added(p) /\ UNCHANGED torn
    <2>1. disk[g.id] = None
      BY <1>1, <1>3, <1>5 DEF IInv, YamlServesAll
    <2>2. /\ disk' \in [LocalID -> Gateway \cup {None}]
          /\ DiskSound' /\ Kept(g.id, g.key)'
          /\ \A id \in LocalID : id # g.id => disk'[id] = disk[id]
          /\ \A id \in LocalID, k \in Key : Kept(id, k) => Kept(id, k)'
          /\ \A id \in LocalID, k \in Key : k # g.key /\ ~Kept(id, k) => ~Kept(id, k)'
      BY <1>3, <1>5, <2>1, StoredNew
    <2>3. \A id \in LocalID : Served(id, g.key) => id = g.id
      BY <1>3 DEF IInv, ServedIsStored, Served, Kept
    <2>4. /\ IndexesAgree'
          /\ byLocalId' \in [LocalID -> Gateway \cup {None}]
          /\ byNetId' \in [Key -> Gateway \cup {None}]
          /\ byThingsIxID' \in [Key -> Gateway \cup {None}]
          /\ byLocalId'[g.id] = g
          /\ \A id \in LocalID : id # g.id => byLocalId'[id] = byLocalId[id]
          /\ \A id \in LocalID : byLocalId[id] # None => byLocalId'[id] # None
          /\ \A id \in LocalID, k \in Key : Served(id, k) => Served(id, k)'
      BY <1>5, <2>3, Indexed
    <2>5. /\ op' \in [Proc -> OpState] /\ \A q \in Proc : q # p => op'[q] = op[q]
          /\ op'[p].pc \notin {"add", "index"} /\ OpOK(p)'
          /\ promised' \in SUBSET (LocalID \X Key) /\ PromisesKept'
      BY <1>0, <1>2, <1>5, <2>2, AddedStep
    <2>6. TypeOK'
      BY <2>2, <2>4, <2>5, <1>5 DEF IInv, TypeOK
    <2>7. ServedIsStored' /\ YamlServesAll'
      BY <2>2, <2>4, <1>3, <1>1 DEF IInv, ServedIsStored, YamlServesAll, Kept
    <2>8. ASSUME NEW q \in Proc, q # p, op[q].pc = "add"
          PROVE  \A id \in LocalID : ~Kept(id, op[q].gw.key)'
      <3>1. OpOK(q) /\ op[q].gw \in Gateway /\ op'[q] = op[q]
        BY <2>8, <2>5 DEF IInv, OpOK, HasGateway
      <3>2. op[q].gw.key \in Key /\ op[q].gw.key # g.key
        BY <3>1, <2>8, <1>0, <1>2, GatewayFields DEF IInv, Distinct
      <3>3. \A id \in LocalID : ~Kept(id, op[q].gw.key)
        BY <3>1, <2>8 DEF OpOK, AddFresh
      <3> QED
        BY <2>2, <3>1, <3>2, <3>3
    <2>9. \A q \in Proc : op[q].pc # "index"
      BY DEF IInv, OpOK, IndexNew
    <2> QED
      BY <1>0, <1>1, <2>2, <2>4, <2>5, <2>6, <2>7, <2>8, <2>9, Assemble
  <1> QED
    BY <1>2, <1>4, <1>5

\* The transaction of pgStore.Add keeps the invariant: the row was not there.
LEMMA AddPgStep ==
    ASSUME IInv, NEW p \in Request, AddPg(p)
    PROVE  IInv'
  <1> USE DEF AddPg
  <1>0. /\ p \in Proc /\ p # Timer /\ op[p] \in OpState /\ OpOK(p) /\ op[p].pc = "add"
        /\ op \in [Proc -> OpState]
    BY StoreNames DEF Proc, IInv, TypeOK, At
  <1>1. status \in Up
    BY <1>0, Busy
  <1>2. PICK g \in Gateway : op[p].gw = g
    BY <1>0 DEF OpOK, HasGateway
  <1>3. /\ g.id \in LocalID /\ g.key \in Key /\ g # None /\ g.key \in generated
        /\ \A id \in LocalID : ~Kept(id, g.key)
    BY <1>0, <1>2, GatewayFields DEF OpOK, AddFresh
  <1>4. CASE Fails(p) /\ UNCHANGED <<disk, recDisk>>
    BY <1>0, <1>1, <1>4, NoReply, ToIdle DEF IInv, TypeOK, Fails
  <1>5. CASE /\ disk[g.id] = None /\ disk' = [disk EXCEPT ![g.id] = g]
             /\ recDisk' = recDisk \ {g.id}
             /\ \/ Goto(p, "index") /\ UNCHANGED promised
                \/ Fails(p)
    <2>0. byLocalId' = byLocalId /\ byNetId' = byNetId /\ byThingsIxID' = byThingsIxID
      BY DEF store
    <2>2. /\ disk' \in [LocalID -> Gateway \cup {None}]
          /\ DiskSound' /\ Kept(g.id, g.key)'
          /\ \A id \in LocalID : id # g.id => disk'[id] = disk[id]
          /\ \A id \in LocalID, k \in Key : Kept(id, k) => Kept(id, k)'
          /\ \A id \in LocalID, k \in Key : k # g.key /\ ~Kept(id, k) => ~Kept(id, k)'
      BY <1>3, <1>5, StoredNew
    <2>3. byLocalId[g.id] = None
      BY <1>3, <1>5 DEF IInv, ServedIsStored
    <2> DEFINE s == [op[p] EXCEPT !.pc = "index"]
    <2>4. s \in OpState /\ s.pc = "index" /\ s.done = op[p].done /\ s.gw = g
      BY <1>0, <1>2 DEF OpState
    <2>5. PICK t \in {Idle, s} : op' = [op EXCEPT ![p] = t]
      BY <1>0, <1>5 DEF Goto, Fails, Become
    <2> HIDE DEF s
    <2>6. op' \in [Proc -> OpState] /\ op'[p] = t /\ \A q \in Proc : q # p => op'[q] = op[q]
      BY <1>0, <2>4, <2>5, IdleOK, Moved
    <2>7. OpOK(p)'
      <3>1. CASE t = Idle
        BY <2>6, <3>1 DEF Idle, OpOK, DoneKept, TodoServed, HasGateway, AddFresh,
           IndexNew, PushKept, SyncServed, AnswerKind
      <3>2. CASE t = s
        BY <1>0, <2>0, <2>2, <2>3, <2>4, <2>6, <3>2 DEF OpOK, DoneKept, TodoServed,
           HasGateway, AddFresh, IndexNew, PushKept, SyncServed, AnswerKind
      <3> QED
        BY <2>5, <3>1, <3>2
    <2>8. TypeOK'
      BY <2>0, <2>2, <2>6, <1>5 DEF IInv, TypeOK, Fails
    <2>9. IndexesAgree'
      BY <2>0 DEF IInv, IndexesAgree
    <2>10. ServedIsStored' /\ PromisesKept' /\ YamlServesAll'
      BY <2>0, <2>2, <1>5 DEF IInv, ServedIsStored, PromisesKept, YamlServesAll, Kept, Fails
    <2>11. ASSUME NEW q \in Proc, q # p, op[q].pc = "add"
           PROVE  \A id \in LocalID : ~Kept(id, op[q].gw.key)'
      <3>1. OpOK(q) /\ op[q].gw \in Gateway /\ op'[q] = op[q]
        BY <2>11, <2>6 DEF IInv, OpOK, HasGateway
      <3>2. op[q].gw.key \in Key /\ op[q].gw.key # g.key
        BY <3>1, <2>11, <1>0, <1>2, GatewayFields DEF IInv, Distinct
      <3>3. \A id \in LocalID : ~Kept(id, op[q].gw.key)
        BY <3>1, <2>11 DEF OpOK, AddFresh
      <3> QED
        BY <2>2, <3>1, <3>2, <3>3
    <2>12. ASSUME NEW q \in Proc, q # p, op[q].pc = "index"
           PROVE  byLocalId'[op[q].gw.id] = None /\ op[q].gw.id # g.id
      BY <2>0, <2>12, <1>5 DEF IInv, OpOK, IndexNew, Kept
    <2>13. op'[p].pc # "add" /\ (op'[p].pc = "index" => op'[p].gw = g)
      BY <2>4, <2>5, <2>6 DEF Idle
    <2>14. \A id \in LocalID, k \in Key : Served(id, k) => Served(id, k)'
      BY <2>0 DEF Served
    <2> HIDE DEF AddPg
    <2>15. status' = status /\ backend' = backend /\ generated' = generated
      BY DEF AddPg
    <2> QED
      BY <1>0, <1>1, <2>0, <2>2, <2>6, <2>7, <2>8, <2>9, <2>10, <2>11, <2>12,
         <2>13, <2>14, <2>15, Assemble
  <1> QED
    BY <1>2, <1>4, <1>5

\* Indexing after the transaction of pgStore.Add keeps the invariant: the row of
\* the gateway cannot have been changed in between.
LEMMA IndexPgStep ==
    ASSUME IInv, NEW p \in Request, IndexPg(p)
    PROVE  IInv'
  <1> USE DEF IndexPg
  <1>0. p \in Proc /\ op[p] \in OpState /\ OpOK(p) /\ op[p].pc = "index" /\ disk' = disk
    BY DEF Proc, IInv, TypeOK, At
  <1>1. status \in Up
    BY <1>0, Busy
  <1>2. PICK g \in Gateway : op[p].gw = g
    BY <1>0 DEF OpOK, HasGateway
  <1>3. /\ g.id \in LocalID /\ g.key \in Key /\ g # None
        /\ backend = "pg" /\ Kept(g.id, g.key) /\ byLocalId[g.id] = None
    BY <1>0, <1>2, GatewayFields DEF OpOK, IndexNew
  <1>4. \A id \in LocalID : Served(id, g.key) => id = g.id
    BY <1>3 DEF IInv, ServedIsStored, DiskSound, Served, Kept
  <1>5. /\ IndexesAgree'
        /\ byLocalId' \in [LocalID -> Gateway \cup {None}]
        /\ byNetId' \in [Key -> Gateway \cup {None}]
        /\ byThingsIxID' \in [Key -> Gateway \cup {None}]
        /\ byLocalId'[g.id] = g
        /\ \A id \in LocalID : id # g.id => byLocalId'[id] = byLocalId[id]
        /\ \A id \in LocalID : byLocalId[id] # None => byLocalId'[id] # None
        /\ \A id \in LocalID, k \in Key : Served(id, k) => Served(id, k)'
    BY <1>2, <1>3, <1>4, Indexed
  <1>6. Kept(g.id, g.key)' /\ \A id \in LocalID, k \in Key : Kept(id, k) <=> Kept(id, k)'
    BY <1>0, <1>3 DEF Kept
  <1>7. /\ op' \in [Proc -> OpState] /\ \A q \in Proc : q # p => op'[q] = op[q]
        /\ op'[p].pc \notin {"add", "index"} /\ OpOK(p)'
        /\ promised' \in SUBSET (LocalID \X Key) /\ PromisesKept'
    BY <1>0, <1>2, <1>6, AddedStep
  <1>8. TypeOK'
    BY <1>5, <1>7 DEF IInv, TypeOK
  <1>9. ServedIsStored' /\ DiskSound' /\ YamlServesAll'
    BY <1>0, <1>3, <1>5 DEF IInv, ServedIsStored, DiskSound, YamlServesAll, Kept
  <1>10. ASSUME NEW q \in Proc, q # p, op[q].pc = "add"
         PROVE  \A id \in LocalID : ~Kept(id, op[q].gw.key)'
    BY <1>0, <1>7, <1>10 DEF IInv, OpOK, AddFresh, Kept
  <1>11. ASSUME NEW q \in Proc, q # p, op[q].pc = "index"
         PROVE  byLocalId'[op[q].gw.id] = None
    <2>1. OpOK(q) /\ op[q].gw \in Gateway /\ op[q].gw.id # g.id
      BY <1>0, <1>2, <1>11 DEF IInv, OpOK, HasGateway, Distinct
    <2> QED
      BY <1>5, <1>11, <2>1, GatewayFields DEF OpOK, IndexNew
  <1> QED
    BY <1>0, <1>1, <1>5, <1>6, <1>7, <1>8, <1>9, <1>10, <1>11, Assemble

\* What the synchronisation of goroutine p writes: the gateway it looked up, which
\* is still served and stored, with what the registry answered.
LEMMA SyncedOK ==
    ASSUME IInv, NEW p \in Proc, op[p].pc \in {"save", "apply"}
    PROVE  /\ Synced(p) \in Gateway /\ op[p].gw \in Gateway
           /\ Synced(p).id = op[p].gw.id /\ Synced(p).key = op[p].gw.key
           /\ Served(op[p].gw.id, op[p].gw.key) /\ Kept(op[p].gw.id, op[p].gw.key)
  <1>1. /\ op[p].gw \in Gateway /\ op[p].ans \in Info
        /\ Served(op[p].gw.id, op[p].gw.key)
    BY DEF IInv, OpOK, HasGateway, SyncServed, AnswerKind, Info
  <1>2. Kept(op[p].gw.id, op[p].gw.key)
    BY <1>1, GatewayFields DEF IInv, ServedIsStored, Served, Kept
  <1>3. /\ Synced(p) \in Gateway
        /\ Synced(p).id = op[p].gw.id /\ Synced(p).key = op[p].gw.key
    BY <1>1 DEF Synced, Gateway
  <1> QED
    BY <1>1, <1>2, <1>3

\* Updating the row of a synchronised gateway keeps the invariant: its key stays.
LEMMA SaveStep ==
    ASSUME IInv, NEW p \in Proc, Save(p)
    PROVE  IInv'
  <1> USE DEF Save
  <1>0. /\ op[p] \in OpState /\ OpOK(p) /\ op[p].pc = "save" /\ op \in [Proc -> OpState]
        /\ byLocalId' = byLocalId /\ byNetId' = byNetId /\ byThingsIxID' = byThingsIxID
    BY DEF IInv, TypeOK, At, store
  <1>1. status \in Up
    BY <1>0, Busy
  <1>2. PICK g \in Gateway : g = Synced(p)
    BY <1>0, SyncedOK
  <1>3. /\ op[p].gw \in Gateway /\ g.id = op[p].gw.id /\ g.key = op[p].gw.key
        /\ Kept(g.id, g.key) /\ g.id \in LocalID /\ g.key \in Key /\ g # None
    BY <1>0, <1>2, SyncedOK, GatewayFields
  <1>4. /\ disk' \in [LocalID -> Gateway \cup {None}] /\ disk'[g.id] = g
        /\ \A id \in LocalID : id # g.id => disk'[id] = disk[id]
    BY <1>2, <1>3 DEF IInv, TypeOK
  <1>5. \A id \in LocalID, k \in Key : Kept(id, k) <=> Kept(id, k)'
    BY <1>3, <1>4 DEF Kept
  <1> DEFINE s == [op[p] EXCEPT !.pc = "apply"]
  <1>6. /\ s \in OpState /\ s.pc = "apply" /\ s.gw = op[p].gw /\ s.ans = op[p].ans
        /\ s.done = op[p].done /\ s.todo = op[p].todo
    BY <1>0 DEF OpState
  <1>7. op' = [op EXCEPT ![p] = s]
    BY <1>0 DEF Goto
  <1> HIDE DEF s
  <1>8. op' \in [Proc -> OpState] /\ op'[p] = s /\ \A q \in Proc : q # p => op'[q] = op[q]
    BY <1>0, <1>6, <1>7, Moved
  <1>9. OpOK(p)'
    BY <1>0, <1>5, <1>6, <1>8 DEF OpOK, DoneKept, TodoServed, HasGateway, AddFresh,
       IndexNew, PushKept, SyncServed, AnswerKind, Served
  <1>10. TypeOK' /\ IndexesAgree'
    BY <1>0, <1>4, <1>8 DEF IInv, TypeOK, IndexesAgree
  <1>11. DiskSound'
    <2>1. disk[g.id] # None /\ g.key \in generated
      BY <1>3 DEF IInv, DiskSound, Kept
    <2>2. \A id \in LocalID : disk'[id] # None => disk'[id].id = id /\ disk'[id].key \in generated
      BY <1>3, <1>4, <2>1 DEF IInv, DiskSound
    <2>3. \A i, j \in LocalID, k \in Key : Kept(i, k)' /\ Kept(j, k)' => i = j
      BY <1>5 DEF IInv, DiskSound
    <2> QED
      BY <2>2, <2>3 DEF DiskSound
  <1>12. PromisesKept' /\ ServedIsStored' /\ YamlServesAll'
    BY <1>0, <1>3, <1>4 DEF IInv, PromisesKept, ServedIsStored, YamlServesAll, Kept
  <1>13. ASSUME NEW q \in Proc, q # p, op[q].pc = "add"
         PROVE  \A id \in LocalID : ~Kept(id, op[q].gw.key)'
    <2>1. OpOK(q) /\ op[q].gw \in Gateway /\ op'[q] = op[q]
      BY <1>8, <1>13 DEF IInv, OpOK, HasGateway
    <2>2. op[q].gw.key \in Key /\ \A id \in LocalID : ~Kept(id, op[q].gw.key)
      BY <1>13, <2>1, GatewayFields DEF OpOK, AddFresh
    <2> QED
      BY <1>5, <2>1, <2>2
  <1>14. ASSUME NEW q \in Proc, q # p, op[q].pc = "index"
         PROVE  byLocalId'[op[q].gw.id] = None
    BY <1>0, <1>14 DEF IInv, OpOK, IndexNew
  <1>15. \A id \in LocalID, k \in Key : Served(id, k) => Served(id, k)'
    BY <1>0 DEF Served
  <1> QED
    BY <1>0, <1>1, <1>5, <1>6, <1>8, <1>9, <1>10, <1>11, <1>12, <1>13, <1>14, <1>15,
       Assemble

\* Putting a synchronised gateway in the indexes keeps the invariant: id and key stay.
LEMMA ApplyStep ==
    ASSUME IInv, NEW p \in Proc, Apply(p)
    PROVE  IInv'
  <1> USE DEF Apply
  <1>0. /\ op[p] \in OpState /\ OpOK(p) /\ op[p].pc = "apply" /\ op \in [Proc -> OpState]
        /\ disk' = disk
    BY DEF IInv, TypeOK, At
  <1>1. status \in Up
    BY <1>0, Busy
  <1>2. PICK g \in Gateway : g = Synced(p)
    BY <1>0, SyncedOK
  <1>3. /\ op[p].gw \in Gateway /\ g.id = op[p].gw.id /\ g.key = op[p].gw.key
        /\ Served(g.id, g.key) /\ Kept(g.id, g.key)
        /\ g.id \in LocalID /\ g.key \in Key /\ g # None
    BY <1>0, <1>2, SyncedOK, GatewayFields
  <1>4. \A id \in LocalID : Served(id, g.key) => id = g.id
    BY <1>3 DEF IInv, ServedIsStored, DiskSound, Served, Kept
  <1>5. /\ IndexesAgree'
        /\ byLocalId' \in [LocalID -> Gateway \cup {None}]
        /\ byNetId' \in [Key -> Gateway \cup {None}]
        /\ byThingsIxID' \in [Key -> Gateway \cup {None}]
        /\ byLocalId'[g.id] = g
        /\ \A id \in LocalID : id # g.id => byLocalId'[id] = byLocalId[id]
        /\ \A id \in LocalID : byLocalId[id] # None => byLocalId'[id] # None
        /\ \A id \in LocalID, k \in Key : Served(id, k) => Served(id, k)'
    BY <1>2, <1>3, <1>4, Indexed
  <1>6. PromisesKept' /\ promised' \in SUBSET (LocalID \X Key)
    BY <1>0, <1>3, PairKept, Replied DEF ReplySynced
  <1> DEFINE s == [op[p] EXCEPT !.pc = "loop", !.gw = None, !.ans = None]
  <1>7. s \in OpState /\ s.pc = "loop" /\ s.done = op[p].done /\ s.todo = op[p].todo
    BY <1>0 DEF OpState, Answer
  <1>8. PICK t \in {s, Idle} : op' = [op EXCEPT ![p] = t]
    BY DEF SyncDone, Become
  <1> HIDE DEF s
  <1>9. op' \in [Proc -> OpState] /\ op'[p] = t /\ \A q \in Proc : q # p => op'[q] = op[q]
    BY <1>0, <1>7, <1>8, IdleOK, Moved
  <1>10. OpOK(p)' /\ op'[p].pc \notin {"add", "index"}
    <2>1. CASE t = Idle
      BY <1>9, <2>1 DEF Idle, OpOK, DoneKept, TodoServed, HasGateway, AddFresh,
         IndexNew, PushKept, SyncServed, AnswerKind
    <2>2. CASE t = s
      <3>1. TodoServed(p)'
        BY <1>0, <1>5, <1>7, <1>9, <2>2, OpFields DEF OpOK, TodoServed
      <3> QED
        BY <1>0, <1>7, <1>9, <2>2, <3>1 DEF OpOK, DoneKept, HasGateway, AddFresh,
           IndexNew, PushKept, SyncServed, AnswerKind, Kept
    <2> QED
      BY <1>8, <2>1, <2>2
  <1>11. TypeOK'
    BY <1>5, <1>6, <1>9 DEF IInv, TypeOK
  <1>12. ServedIsStored' /\ DiskSound' /\ YamlServesAll'
    BY <1>0, <1>3, <1>5 DEF IInv, ServedIsStored, DiskSound, YamlServesAll, Kept
  <1>13. ASSUME NEW q \in Proc, q # p, op[q].pc = "add"
         PROVE  \A id \in LocalID : ~Kept(id, op[q].gw.key)'
    BY <1>0, <1>9, <1>13 DEF IInv, OpOK, AddFresh, Kept
  <1>14. ASSUME NEW q \in Proc, q # p, op[q].pc = "index"
         PROVE  byLocalId'[op[q].gw.id] = None
    <2>1. OpOK(q) /\ op[q].gw \in Gateway /\ byLocalId[op[q].gw.id] = None
      BY <1>14 DEF IInv, OpOK, HasGateway, IndexNew
    <2> QED
      BY <1>3, <1>5, <2>1, GatewayFields DEF Served
  <1>15. \A id \in LocalID, k \in Key : Kept(id, k) => Kept(id, k)'
    BY <1>0 DEF Kept
  <1> QED
    BY <1>0, <1>1, <1>5, <1>6, <1>9, <1>10, <1>11, <1>12, <1>13, <1>14, <1>15, Assemble

-----------------------------------------------------------------------------
(* Start and crash                                                         *)

\* The indexes that are loaded agree, and serve exactly what is stored.
LEMMA Loaded ==
    ASSUME IInv, Load, disk' = disk, backend' = backend
    PROVE  /\ IndexesAgree' /\ ServedIsStored'
           /\ byLocalId' \in [LocalID -> Gateway \cup {None}]
           /\ byNetId' \in [Key -> Gateway \cup {None}]
           /\ byThingsIxID' \in [Key -> Gateway \cup {None}]
           /\ \A id \in LocalID : byLocalId'[id] # None <=> disk[id] # None
  <1> USE DEF Load
  <1>1. ASSUME NEW id \in LocalID, disk[id] # None
        PROVE  /\ Stored(id) \in Gateway /\ Stored(id) # None
               /\ Stored(id).id = id /\ Stored(id).key = disk[id].key
               /\ Stored(id).key \in Key
    <2>1. disk[id] \in Gateway /\ disk[id].id = id
      BY <1>1 DEF IInv, TypeOK, DiskSound
    <2>2. Stored(id) \in Gateway /\ Stored(id).id = id /\ Stored(id).key = disk[id].key
      BY <2>1 DEF Stored, Gateway, Info
    <2> QED
      BY <2>2, GatewayFields
  <1>2. ASSUME NEW id \in LocalID, disk[id] = None
        PROVE  Stored(id) = None
    BY <1>2 DEF Stored
  <1>3. ASSUME NEW id \in LocalID, disk[id] # None
        PROVE  StoredBy(disk[id].key) = Stored(id)
    <2>1. id \in OfKey(disk[id].key) /\ disk[id] \in Gateway
      BY <1>3 DEF OfKey, IInv, TypeOK
    <2>2. \A j \in OfKey(disk[id].key) : j = id
      BY <1>3, <2>1, GatewayFields DEF OfKey, IInv, DiskSound, Kept
    <2>3. OfKey(disk[id].key) = {id}
      BY <2>1, <2>2
    <2> QED
      BY <2>3 DEF StoredBy
  <1>4. ASSUME NEW k \in Key, StoredBy(k) # None
        PROVE  \E id \in LocalID : /\ disk[id] # None /\ disk[id].key = k
                                   /\ StoredBy(k) = Stored(id)
    <2>1. OfKey(k) # {}
      BY <1>4 DEF StoredBy
    <2>2. PICK id \in LocalID : disk[id] # None /\ disk[id].key = k
      BY <2>1 DEF OfKey
    <2> QED
      BY <2>2, <1>3
  <1>5. ASSUME NEW k \in Key PROVE StoredBy(k) \in Gateway \cup {None}
    BY <1>1, <1>4
  <1>6. /\ byLocalId' \in [LocalID -> Gateway \cup {None}]
        /\ byNetId' \in [Key -> Gateway \cup {None}]
        /\ byThingsIxID' \in [Key -> Gateway \cup {None}]
    BY <1>1, <1>2, <1>5
  <1>7. ASSUME NEW id \in LocalID, byLocalId'[id] # None
        PROVE  LET h == byLocalId'[id]
               IN /\ h.id = id
                  /\ byNetId'[h.key] = h
                  /\ byThingsIxID'[h.key] = h
    <2>1. disk[id] # None /\ byLocalId'[id] = Stored(id)
      BY <1>2, <1>7
    <2> QED
      BY <1>1, <1>3, <2>1
  <1>8. ASSUME NEW k \in Key, byNetId'[k] # None
        PROVE  byNetId'[k].key = k /\ byLocalId'[byNetId'[k].id] = byNetId'[k]
    <2>1. byNetId'[k] = StoredBy(k)
      OBVIOUS
    <2>2. PICK id \in LocalID : /\ disk[id] # None /\ disk[id].key = k
                                /\ StoredBy(k) = Stored(id)
      BY <1>4, <1>8, <2>1
    <2> QED
      BY <1>1, <2>1, <2>2
  <1>9. IndexesAgree'
    BY <1>7, <1>8 DEF IndexesAgree
  <1>10. ServedIsStored'
    BY <1>1, <1>2 DEF ServedIsStored
  <1> QED
    BY <1>1, <1>2, <1>6, <1>9, <1>10

\* A start that loads what is stored, and then synchronises part of it.
LEMMA LoadStep ==
    ASSUME IInv, status = "down", status' = "starting", Load, TypeOK',
           NEW todo \in SUBSET {id \in LocalID : disk[id] # None},
           Become(Timer, [Idle EXCEPT !.pc = "loop", !.req = "syncall", !.todo = todo]),
           UNCHANGED <<backend, disk, generated, promised>>
    PROVE  IInv'
  <1> DEFINE s == [Idle EXCEPT !.pc = "loop", !.req = "syncall", !.todo = todo]
  <1>0. Timer \in Proc /\ (\A q \in Proc : op[q] = Idle) /\ op \in [Proc -> OpState]
    BY DEF Proc, IInv, DownIdle, Up, TypeOK
  <1>1. s \in OpState /\ s.pc = "loop" /\ s.done = {} /\ s.todo = todo
    BY DEF Idle, OpState, Answer
  <1>2. op' = [op EXCEPT ![Timer] = s]
    BY DEF Become
  <1> HIDE DEF s
  <1>3. op'[Timer] = s /\ \A q \in Proc : q # Timer => op'[q] = Idle
    BY <1>0, <1>1, <1>2, Moved
  <1>4. /\ IndexesAgree' /\ ServedIsStored'
        /\ \A id \in LocalID : byLocalId'[id] # None <=> disk[id] # None
    BY Loaded
  <1>5. PromisesKept' /\ DiskSound' /\ YamlServesAll' /\ DownIdle'
    BY <1>4 DEF IInv, PromisesKept, DiskSound, YamlServesAll, DownIdle, Up, Kept
  <1>6. Distinct'
    BY <1>1, <1>3 DEF Distinct, Idle
  <1>7. ASSUME NEW q \in Proc PROVE OpOK(q)'
    <2>1. CASE q = Timer
      BY <1>1, <1>3, <1>4, <2>1 DEF OpOK, DoneKept, TodoServed, HasGateway, AddFresh,
         IndexNew, PushKept, SyncServed, AnswerKind
    <2>2. CASE q # Timer
      BY <1>3, <2>2 DEF Idle, OpOK, DoneKept, TodoServed, HasGateway, AddFresh,
         IndexNew, PushKept, SyncServed, AnswerKind
    <2> QED
      BY <2>1, <2>2
  <1> QED
    BY <1>4, <1>5, <1>6, <1>7 DEF IInv

\* A start that leaves all goroutines idle and the indexes empty.
LEMMA EmptyStart ==
    ASSUME IInv, status = "down", backend = "pg" \/ status' \notin Up,
           status' \in {"running", "fatal"},
           UNCHANGED <<backend, disk, torn, store, registry, cache, recDisk, recorded,
                       op, generated, promised>>
    PROVE  IInv'
  <1>0. /\ backend' = backend /\ disk' = disk /\ byLocalId' = byLocalId
        /\ byNetId' = byNetId /\ byThingsIxID' = byThingsIxID /\ op' = op
        /\ generated' = generated /\ promised' = promised
    BY DEF store
  <1>1. TypeOK'
    BY <1>0 DEF IInv, TypeOK
  <1>2. IndexesAgree' /\ PromisesKept' /\ ServedIsStored' /\ DiskSound'
    BY <1>0 DEF IInv, IndexesAgree, PromisesKept, ServedIsStored, DiskSound, Kept
  <1>3. Distinct' /\ YamlServesAll' /\ DownIdle'
    BY <1>0 DEF IInv, Distinct, YamlServesAll, DownIdle, Up
  <1>4. ASSUME NEW q \in Proc PROVE OpOK(q)'
    BY <1>0 DEF IInv, OpOK, DoneKept, TodoServed, HasGateway, AddFresh,
       IndexNew, PushKept, SyncServed, AnswerKind, Kept, Served
  <1> QED
    BY <1>1, <1>2, <1>3, <1>4 DEF IInv

\* The start of the YAML store establishes the invariant for what it loads.
LEMMA StartYamlStep ==
    ASSUME IInv, StartYaml
    PROVE  IInv'
  <1> USE DEF StartYaml
  <1> DEFINE all == {id \in LocalID : disk[id] # None}
             s == [Idle EXCEPT !.pc = "loop", !.req = "syncall", !.todo = all]
  <1>1. CASE torn
    BY <1>1, EmptyStart DEF Up
  <1>2. CASE ~torn
    <2>1. s \in OpState
      BY DEF Idle, OpState, Answer
    <2>2. op' \in [Proc -> OpState]
      BY <1>2, <2>1 DEF Become, IInv, TypeOK
    <2>3. TypeOK'
      BY <1>2, <2>2, Loaded DEF IInv, TypeOK
    <2> QED
      BY <1>2, <2>3, LoadStep
  <1> QED
    BY <1>1, <1>2 DEF IInv, TypeOK

\* The start of the Postgres store, loaded or empty, keeps the invariant.
LEMMA StartPgStep ==
    ASSUME IInv, StartPg
    PROVE  IInv'
  <1> USE DEF StartPg
  <1>1. CASE status' = "running" /\ UNCHANGED <<store, op>>
    BY <1>1, EmptyStart
  <1>2. ASSUME status' = "starting", Load,
               NEW old \in SUBSET {id \in LocalID : disk[id] # None /\ disk[id].info > 0},
               Become(Timer, [Idle EXCEPT !.pc = "loop", !.req = "syncall", !.todo = old])
        PROVE  IInv'
    <2> DEFINE s == [Idle EXCEPT !.pc = "loop", !.req = "syncall", !.todo = old]
    <2>1. s \in OpState
      BY DEF Idle, OpState, Answer
    <2>2. op' \in [Proc -> OpState]
      BY <1>2, <2>1 DEF Become, IInv, TypeOK
    <2>3. TypeOK'
      BY <1>2, <2>2, Loaded DEF IInv, TypeOK
    <2>4. old \in SUBSET {id \in LocalID : disk[id] # None}
      OBVIOUS
    <2> QED
      BY <1>2, <2>3, <2>4, LoadStep
  <1> QED
    BY <1>1, <1>2

\* A crash keeps the invariant, whatever an unfinished append left in the file.
LEMMA CrashStep ==
    ASSUME IInv, Crash
    PROVE  IInv'
  <1> USE DEF Crash
  <1>0. /\ status' = "down" /\ status \in Up /\ backend' = backend
        /\ generated' = generated /\ promised' = promised
        /\ byLocalId' = [id \in LocalID |-> None]
        /\ byNetId' = [k \in Key |-> None] /\ byThingsIxID' = [k \in Key |-> None]
        /\ op' = [q \in Proc |-> Idle]
    BY DEF Up
  <1>1. /\ disk' \in [LocalID -> Gateway \cup {None}] /\ torn' \in BOOLEAN /\ DiskSound'
        /\ \A id \in LocalID, k \in Key : Kept(id, k) => Kept(id, k)'
    <2>1. CASE disk' = disk
      BY <2>1, <1>0 DEF IInv, TypeOK, DiskSound, Kept
    <2>2. ASSUME NEW p \in Proc, backend = "yaml", At(p, "add"),
                 byLocalId[op[p].gw.id] = None,
                 disk' = [disk EXCEPT ![op[p].gw.id] = op[p].gw], UNCHANGED torn
          PROVE  /\ disk' \in [LocalID -> Gateway \cup {None}] /\ torn' \in BOOLEAN
                 /\ DiskSound'
                 /\ \A id \in LocalID, k \in Key : Kept(id, k) => Kept(id, k)'
      <3>1. PICK g \in Gateway : op[p].gw = g
        BY <2>2 DEF IInv, OpOK, HasGateway, At
      <3>2. g.key \in generated /\ g.id \in LocalID /\ \A id \in LocalID : ~Kept(id, g.key)
        BY <2>2, <3>1, GatewayFields DEF IInv, OpOK, AddFresh, At
      <3>3. disk[g.id] = None
        BY <1>0, <2>2, <3>1, <3>2 DEF IInv, YamlServesAll
      <3> QED
        BY <1>0, <2>2, <3>1, <3>2, <3>3, StoredNew DEF IInv, TypeOK
    <2> QED
      BY <2>1, <2>2
  <1>2. TypeOK'
    BY <1>0, <1>1, IdleOK DEF IInv, TypeOK
  <1>3. IndexesAgree' /\ ServedIsStored' /\ YamlServesAll' /\ DownIdle'
    BY <1>0 DEF IndexesAgree, ServedIsStored, YamlServesAll, DownIdle, Up
  <1>4. PromisesKept'
    BY <1>0, <1>1 DEF IInv, PromisesKept, Kept
  <1>5. Distinct'
    BY <1>0 DEF Distinct, Idle
  <1>6. ASSUME NEW q \in Proc PROVE OpOK(q)'
    BY <1>0 DEF Idle, OpOK, DoneKept, TodoServed, HasGateway, AddFresh,
       IndexNew, PushKept, SyncServed, AnswerKind
  <1> QED
    BY <1>1, <1>2, <1>3, <1>4, <1>5, <1>6 DEF IInv

-----------------------------------------------------------------------------
(* The invariant and what it implies                                       *)

\* The forwarder's first start satisfies the invariant.
LEMMA InitInv == Init => IInv
  <1> SUFFICES ASSUME Init PROVE IInv
    OBVIOUS
  <1> USE DEF Init
  <1>1. TypeOK
    <2>1. op \in [Proc -> OpState]
      BY IdleOK
    <2>2. /\ disk \in [LocalID -> Gateway \cup {None}]
          /\ byLocalId \in [LocalID -> Gateway \cup {None}]
          /\ byNetId \in [Key -> Gateway \cup {None}]
          /\ byThingsIxID \in [Key -> Gateway \cup {None}]
      OBVIOUS
    <2>3. registry \in [Key -> Info] /\ cache \in [Key -> {1, 2, None, Failed}]
      BY DEF Info
    <2>4. /\ backend \in {"yaml", "pg"} /\ torn \in BOOLEAN
          /\ status \in {"down", "starting", "running", "fatal"}
          /\ recDisk \in SUBSET LocalID /\ recorded \in SUBSET LocalID
          /\ generated \in SUBSET Key /\ promised \in SUBSET (LocalID \X Key)
      OBVIOUS
    <2> QED
      BY <2>1, <2>2, <2>3, <2>4 DEF TypeOK
  <1>2. IndexesAgree /\ PromisesKept /\ ServedIsStored /\ DiskSound /\ YamlServesAll
    BY DEF IndexesAgree, PromisesKept, ServedIsStored, DiskSound, YamlServesAll, Up, Kept
  <1>3. Distinct /\ DownIdle
    BY DEF Distinct, DownIdle, Idle
  <1>4. ASSUME NEW q \in Proc PROVE OpOK(q)
    BY IdleHasNothing
  <1> QED
    BY <1>1, <1>2, <1>3, <1>4 DEF IInv

\* Every step of every handler keeps the invariant.
LEMMA NextInv == IInv /\ [Next]_vars => IInv'
  <1> SUFFICES ASSUME IInv, [Next]_vars PROVE IInv'
    OBVIOUS
  <1>1. CASE StartYaml \/ StartPg \/ Crash
    BY <1>1, StartYamlStep, StartPgStep, CrashStep
  <1>2. ASSUME NEW p \in Request, NEW id \in LocalID,
               \/ AddGateway(p, id) \/ OnboardGatewayMessage(p, id)
               \/ SyncGateway(p, id) \/ UnknownGateway(p, id)
        PROVE  IInv'
    BY <1>2, AddGatewayStep, OnboardGatewayMessageStep, SyncGatewayStep,
       UnknownGatewayStep
  <1>3. ASSUME NEW p \in Request, ListGateways(p) \/ ImportGateways(p)
        PROVE  IInv'
    BY <1>3, ListGatewaysStep, ImportGatewaysStep
  <1>4. ASSUME NEW p \in Request, RequestStep(p)
        PROVE  IInv'
    BY <1>4, ImportNextStep, AddYamlStep, AddPgStep, IndexPgStep, PushOnboardStep,
       PushImportStep, RecordStep DEF RequestStep
  <1>5. CASE SyncAll \/ SyncNext
    BY <1>5, SyncAllStep, SyncNextStep
  <1>6. ASSUME NEW p \in Proc, SyncStep(p)
        PROVE  IInv'
    BY <1>6, UseCacheStep, AskStep, AnsweredStep, SaveStep, SaveFailsStep, ApplyStep
       DEF SyncStep
  <1>7. ASSUME NEW k \in Key, Expire(k) \/ RegistryChange(k)
        PROVE  IInv'
    BY <1>7, EnvironmentStep
  <1>8. CASE UNCHANGED vars
    <2>1. /\ backend' = backend /\ status' = status /\ disk' = disk /\ torn' = torn
          /\ byLocalId' = byLocalId /\ byNetId' = byNetId
          /\ byThingsIxID' = byThingsIxID /\ registry' = registry /\ cache' = cache
          /\ recDisk' = recDisk /\ recorded' = recorded /\ op' = op
          /\ generated' = generated /\ promised' = promised
      BY <1>8 DEF vars, rest, store
    <2>2. TypeOK' /\ IndexesAgree' /\ PromisesKept' /\ ServedIsStored' /\ DiskSound'
      BY <2>1 DEF IInv, TypeOK, IndexesAgree, PromisesKept, ServedIsStored, DiskSound,
         Kept
    <2>3. Distinct' /\ YamlServesAll' /\ DownIdle'
      BY <2>1 DEF IInv, Distinct, YamlServesAll, DownIdle
    <2>4. ASSUME NEW q \in Proc PROVE OpOK(q)'
      BY <2>1 DEF IInv, OpOK, DoneKept, TodoServed, HasGateway, AddFresh,
         IndexNew, PushKept, SyncServed, AnswerKind, Kept, Served
    <2> QED
      BY <2>2, <2>3, <2>4 DEF IInv
  <1> QED
    BY <1>1, <1>2, <1>3, <1>4, <1>5, <1>6, <1>7, <1>8 DEF Next

\* The inductive invariant holds in every reachable state of the store.
THEOREM StoreInv == Spec => []IInv
  BY InitInv, NextInv, PTL DEF Spec

\* The state of store, recorder, registry cache and goroutines keeps its type.
THEOREM StoreTypeOK == Spec => []TypeOK
  BY StoreInv, PTL DEF IInv

\* Looking a gateway up by local, network or ThingsIX id gives the same gateway,
\* however requests, synchronisations, failing writes and crashes interleave.
THEOREM LookupsAgree == Spec => []IndexesAgree
  BY StoreInv, PTL DEF IInv

\* The key that a reply of the API named stays the stored key of the gateway.
THEOREM PromisesHold == Spec => []PromisesKept
  BY StoreInv, PTL DEF IInv

\* A gateway served from memory is stored with the same key.
THEOREM ServedStored == Spec => []ServedIsStored
  BY StoreInv, PTL DEF IInv

=============================================================================
