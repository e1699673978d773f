---------------------------- MODULE GatewayStore ----------------------------
(***************************************************************************)
(* The forwarder's gateway store (gateway/store_yaml_file.go and           *)
(* store_postgres.go), with what reads and writes it at the same time: the *)
(* handlers of the HTTP API (forwarder/api.go), the periodic               *)
(* synchronisation with the ThingsIX registry, and the recorder of unknown *)
(* gateways (unknown_recorder.go) that the callbacks of the gateway        *)
(* backend call.                                                           *)
(*                                                                         *)
(* A gateway is its local id, its key and what the forwarder knows of its  *)
(* registration: 0 is nothing (no owner), 1 an owner, 2 an owner and the   *)
(* details, band included (details with an antenna gain of 0 are taken for *)
(* none by registry_thingsix_api.go:105 and count as 1).  Its network id   *)
(* and its ThingsIX id are derived from its key, so both indexes have keys *)
(* for their domain.  Keys are random: a key is never generated twice.     *)
(*                                                                         *)
(* The registry is asked through the ThingsIX API, whose answers are       *)
(* cached (registry_thingsix_api.go).                                      *)
(***************************************************************************)
EXTENDS Naturals, FiniteSets

CONSTANTS
    LocalID,   \* local ids of gateways
    Key,       \* private keys: a bound on how many are generated
    Request,   \* goroutines of the HTTP server and of the gateway backend
    OnlyAdd,   \* a bound: requests that do nothing but add a gateway
    Timer,     \* the goroutine that runs the store's Run
    None,      \* no gateway, no record, no cached answer
    Failed     \* the registry cannot be reached, or its answer not be read

VARIABLES
    backend,       \* the configured store and recorder: "yaml" or "pg"
    status,        \* of the process: down, starting, running, or refusing to start
    disk,          \* gateways in the file or in the table
    torn,          \* the file ends in half an entry
    byLocalId, byNetId, byThingsIxID,
    registry,      \* what the ThingsIX registry holds of a key
    cache,         \* answers of the registry younger than 10 minutes
    recDisk,       \* recorded unknown gateways in the file or in the table
    recorded,      \* the list of the yaml recorder
    op,            \* what each goroutine is doing
    generated,     \* keys generated so far
    promised       \* the id and key of every gateway a reply or a posted message named

store == <<byLocalId, byNetId, byThingsIxID>>
\* All but op: what a step that only moves a goroutine leaves alone.
rest == <<backend, status, disk, torn, store, registry, cache, recDisk, recorded,
          generated, promised>>
vars == <<rest, op>>

-----------------------------------------------------------------------------
Proc == Request \cup {Timer}
Info == 0 .. 2
Gateway == [id : LocalID, key : Key, info : Info]
ASSUME StoreNames ==
    /\ Timer \notin Request /\ OnlyAdd \subseteq Request
    /\ {None, Failed} \cap Info = {} /\ None # Failed
    /\ None \notin Gateway
Answer == Info \cup {None, Failed}   \* 0: not registered, or an error status

\* pc: where the goroutine is; req: the handler; todo: what its loop has left;
\* gw: the gateway in hand; ans: the registry's answer; done: replies so far.
OpState ==
    [pc : {"idle", "loop", "add", "index", "push", "query", "cache", "save",
           "apply", "check", "append"},
     req : {"none", "add", "onboard", "import", "sync", "syncall", "packet"},
     todo : SUBSET LocalID,
     gw : Gateway \cup {None},
     ans : Answer,
     done : SUBSET (LocalID \X Key)]

Idle == [pc |-> "idle", req |-> "none", todo |-> {}, gw |-> None,
         ans |-> None, done |-> {}]

TypeOK ==
    /\ backend \in {"yaml", "pg"}
    /\ status \in {"down", "starting", "running", "fatal"}
    /\ disk \in [LocalID -> Gateway \cup {None}]
    /\ torn \in BOOLEAN
    /\ byLocalId \in [LocalID -> Gateway \cup {None}]
    /\ byNetId \in [Key -> Gateway \cup {None}]
    /\ byThingsIxID \in [Key -> Gateway \cup {None}]
    /\ registry \in [Key -> Info]
    /\ cache \in [Key -> {1, 2, None, Failed}]
    /\ recDisk \in SUBSET LocalID /\ recorded \in SUBSET LocalID
    /\ op \in [Proc -> OpState]
    /\ generated \in SUBSET Key
    /\ promised \in SUBSET (LocalID \X Key)

Init ==
    /\ backend \in {"yaml", "pg"}
    /\ status = "down"
    /\ disk = [id \in LocalID |-> None]
    /\ torn = FALSE
    /\ byLocalId = [id \in LocalID |-> None]
    /\ byNetId = [k \in Key |-> None]
    /\ byThingsIxID = [k \in Key |-> None]
    /\ registry = [k \in Key |-> 0]
    /\ cache = [k \in Key |-> None]
    /\ recDisk = {} /\ recorded = {}
    /\ op = [p \in Proc |-> Idle]
    /\ generated = {} /\ promised = {}

At(p, pc) == op[p].pc = pc
Become(p, s) == op' = [op EXCEPT ![p] = s]
Goto(p, pc) == op' = [op EXCEPT ![p].pc = pc]

-----------------------------------------------------------------------------
(* Start and crash                                                         *)

\* asGateway: the file keeps id and key only, the table also what was last
\* retrieved from the registry.
Stored(id) == IF backend = "yaml" /\ disk[id] # None
              THEN [disk[id] EXCEPT !.info = 0] ELSE disk[id]
OfKey(k) == {id \in LocalID : disk[id] # None /\ disk[id].key = k}
StoredBy(k) == IF OfKey(k) = {} THEN None ELSE Stored(CHOOSE id \in OfKey(k) : TRUE)

\* loadFromFile, loadFromPostgres.
Load ==
    /\ byLocalId' = [id \in LocalID |-> Stored(id)]
    /\ byNetId' = [k \in Key |-> StoredBy(k)]
    /\ byThingsIxID' = [k \in Key |-> StoredBy(k)]

\* NewYamlFileStore and recordUnkownGatewaysToFile: a file that cannot be
\* decoded is fatal.  All gateways are synchronised before requests are served.
StartYaml ==
    /\ backend = "yaml" /\ status = "down"
    /\ IF torn
       THEN status' = "fatal" /\ UNCHANGED <<store, recorded, op>>
       ELSE /\ status' = "starting"
            /\ Load
            /\ recorded' = recDisk
            /\ Become(Timer, [Idle EXCEPT !.pc = "loop", !.req = "syncall",
                              !.todo = {id \in LocalID : disk[id] # None}])
    /\ UNCHANGED <<backend, disk, torn, registry, cache, recDisk, generated,
                   promised>>

\* NewPostgresStore: gateways last synchronised 10 minutes ago are synchronised
\* again.  When the query fails the store starts empty; when the tables cannot be
\* made the process stays down.
StartPg ==
    /\ backend = "pg" /\ status = "down"
    /\ \/ /\ status' = "starting"
          /\ Load
          /\ \E old \in SUBSET {id \in LocalID : disk[id] # None /\ disk[id].info > 0} :
                Become(Timer, [Idle EXCEPT !.pc = "loop", !.req = "syncall",
                               !.todo = old])
       \/ status' = "running" /\ UNCHANGED <<store, op>>
    /\ UNCHANGED <<backend, disk, torn, registry, cache, recDisk, recorded,
                   generated, promised>>

\* The process ends at any point.  An append to a file may have happened then,
\* in full or in part.
Crash ==
    /\ status \in {"starting", "running"}
    /\ status' = "down"
    /\ byLocalId' = [id \in LocalID |-> None]
    /\ byNetId' = [k \in Key |-> None]
    /\ byThingsIxID' = [k \in Key |-> None]
    /\ cache' = [k \in Key |-> None]
    /\ recorded' = {}
    /\ op' = [p \in Proc |-> Idle]
    /\ \/ UNCHANGED <<disk, torn>>
       \/ \E p \in Proc :
            /\ backend = "yaml" /\ At(p, "add") /\ byLocalId[op[p].gw.id] = None
            /\ \/ disk' = [disk EXCEPT ![op[p].gw.id] = op[p].gw] /\ UNCHANGED torn
               \/ torn' = TRUE /\ UNCHANGED disk
    /\ UNCHANGED <<backend, registry, recDisk, generated, promised>>

-----------------------------------------------------------------------------
(* Adding gateways: AddGateway, OnboardGatewayMessage and ImportGateways    *)

\* GenerateNewGateway: the request goes on with a gateway that has a new key.
Generate(p, s, id) ==
    \E k \in Key \ generated :
        /\ generated' = generated \cup {k}
        /\ Become(p, [s EXCEPT !.pc = "add",
                      !.gw = [id |-> id, key |-> k, info |-> 0]])

Reply(pairs) == promised' = promised \cup pairs
Pair(g) == <<g.id, g.key>>

\* POST /v1/gateways: an existing gateway is the reply.
AddGateway(p, id) ==
    /\ status = "running" /\ At(p, "idle")
    /\ IF byLocalId[id] # None
       THEN Reply({Pair(byLocalId[id])}) /\ UNCHANGED <<op, generated>>
       ELSE Generate(p, [Idle EXCEPT !.req = "add"], id) /\ UNCHANGED promised
    /\ UNCHANGED <<backend, status, disk, torn, store, registry, cache, recDisk,
                   recorded>>

\* GET /v1/gateways, pending and onboarded, or one of them.
ListGateways(p) ==
    /\ status = "running" /\ At(p, "idle")
    /\ Reply({Pair(byLocalId[id]) : id \in {i \in LocalID : byLocalId[i] # None}})
    /\ UNCHANGED <<backend, status, disk, torn, store, registry, cache, recDisk,
                   recorded, op, generated>>

\* POST /v1/gateways/onboard: a gateway with an owner is refused.
OnboardGatewayMessage(p, id) ==
    /\ status = "running" /\ At(p, "idle")
    /\ \/ /\ byLocalId[id] = None
          /\ Generate(p, [Idle EXCEPT !.req = "onboard"], id)
       \/ /\ byLocalId[id] # None
          /\ byLocalId[id].info = 0
          /\ Become(p, [Idle EXCEPT !.pc = "push", !.req = "onboard",
                        !.gw = byLocalId[id]])
          /\ UNCHANGED generated
    /\ UNCHANGED <<backend, status, disk, torn, store, registry, cache, recDisk,
                   recorded, promised>>

\* POST /v1/gateways/import: loop over what Recorded returned.
ImportGateways(p) ==
    /\ status = "running" /\ At(p, "idle")
    /\ Become(p, [Idle EXCEPT !.pc = "loop", !.req = "import",
                  !.todo = IF backend = "yaml" THEN recorded ELSE recDisk])
    /\ UNCHANGED rest

ImportNext(p) ==
    /\ At(p, "loop") /\ op[p].req = "import"
    /\ \/ /\ op[p].todo = {}
          /\ Reply(op[p].done)
          /\ Become(p, Idle)
          /\ UNCHANGED generated
       \/ \E id \in op[p].todo :
            LET next == [op[p] EXCEPT !.todo = @ \ {id}]
            IN /\ IF byLocalId[id] # None
                  THEN Become(p, next) /\ UNCHANGED generated
                  ELSE Generate(p, next, id)
               /\ UNCHANGED promised
    /\ UNCHANGED <<backend, status, disk, torn, store, registry, cache, recDisk,
                   recorded>>

\* What a handler does once Add returned the gateway: AddGateway replies with
\* it, the other two sign the onboard messages first, and may push them.
Added(p) ==
    IF op[p].req = "add"
    THEN Reply({Pair(op[p].gw)}) /\ Become(p, Idle)
    ELSE Goto(p, "push") /\ UNCHANGED promised

\* Mutant: the network index is left alone too.
IndexLocalOnly(g, things) ==
    /\ byLocalId' = [byLocalId EXCEPT ![g.id] = g]
    /\ UNCHANGED byNetId
    /\ byThingsIxID' = IF things THEN [byThingsIxID EXCEPT ![g.key] = g]
                       ELSE byThingsIxID

\* Put g in the indexes; pgStore.Add leaves byThingsIxID alone.
Index(g, things) ==
    /\ byLocalId' = [byLocalId EXCEPT ![g.id] = g]
    /\ byNetId' = [byNetId EXCEPT ![g.key] = g]
    /\ byThingsIxID' = IF things THEN [byThingsIxID EXCEPT ![g.key] = g]
                       ELSE byThingsIxID

\* The handler replies 500 and forgets what it did so far.
Fails(p) == Become(p, Idle) /\ UNCHANGED promised

\* Mutant: the gateway is indexed before the write, which may fail.
AddYamlIndexFirst(p) ==
    /\ At(p, "add") /\ backend = "yaml"
    /\ LET g == op[p].gw
       IN \/ /\ byLocalId[g.id] = None
             /\ Index(g, TRUE)
             /\ \/ disk' = [disk EXCEPT ![g.id] = g] /\ Added(p)
                \/ Fails(p) /\ UNCHANGED disk
          \/ /\ byLocalId[g.id] # None
             /\ Fails(p)
             /\ UNCHANGED <<disk, store>>
    /\ UNCHANGED <<backend, status, torn, registry, cache, recDisk, recorded, generated>>

\* yamlFileStore.Add, all of it under the lock: the id must be new, the entry
\* is appended, then indexed.  A failing write may leave half an entry.
AddYaml(p) ==
    /\ At(p, "add") /\ backend = "yaml"
    /\ LET g == op[p].gw
       IN \/ /\ byLocalId[g.id] = None
             /\ disk' = [disk EXCEPT ![g.id] = g]
             /\ Index(g, TRUE)
             /\ Added(p)
             /\ UNCHANGED torn
          \/ /\ byLocalId[g.id] # None
             /\ Fails(p)
             /\ UNCHANGED <<disk, torn, store>>
          \/ /\ byLocalId[g.id] = None
             /\ torn' \in {torn, TRUE}
             /\ Fails(p)
             /\ UNCHANGED <<disk, store>>
    /\ UNCHANGED <<backend, status, registry, cache, recDisk, recorded, generated>>

\* Mutant: the insert overwrites the row of the id.
AddPgUpserts(p) ==
    /\ At(p, "add") /\ backend = "pg"
    /\ disk' = [disk EXCEPT ![op[p].gw.id] = op[p].gw]
    /\ recDisk' = recDisk \ {op[p].gw.id}
    /\ Goto(p, "index")
    /\ UNCHANGED <<backend, status, torn, store, registry, cache, recorded,
                   generated, promised>>

\* pgStore.Add: one transaction removes the id from the recorded gateways and
\* inserts the gateway, whose id is the primary key ...
AddPg(p) ==
    /\ At(p, "add") /\ backend = "pg"
    /\ LET g == op[p].gw
       IN \/ /\ disk[g.id] = None
             /\ disk' = [disk EXCEPT ![g.id] = g]
             /\ recDisk' = recDisk \ {g.id}
             /\ \/ Goto(p, "index") /\ UNCHANGED promised
                \/ Fails(p)   \* committed, but the answer of the database is lost
          \/ Fails(p) /\ UNCHANGED <<disk, recDisk>>
    /\ UNCHANGED <<backend, status, torn, store, registry, cache, recorded,
                   generated>>

\* ... and then the gateway is indexed.
IndexPg(p) ==
    /\ At(p, "index")
    /\ Index(op[p].gw, FALSE)
    /\ Added(p)
    /\ UNCHANGED <<backend, status, disk, torn, registry, cache, recDisk,
                   recorded, generated>>

\* Both onboard messages are signed and, if asked for, posted to ThingsIX; when
\* that fails the handler returns.  The key is named by the reply, or by the
\* first message when posting the second one fails.
PushOnboard(p) ==
    /\ At(p, "push") /\ op[p].req = "onboard"
    /\ \/ Reply({Pair(op[p].gw)}) /\ Become(p, Idle)
       \/ Fails(p)
    /\ UNCHANGED <<backend, status, disk, torn, store, registry, cache, recDisk,
                   recorded, generated>>

\* The same for a gateway that is imported; with a failure what was imported so
\* far gets no reply, but messages may have been posted.
PushImport(p) ==
    /\ At(p, "push") /\ op[p].req = "import"
    /\ \E posted \in SUBSET {Pair(op[p].gw)} : Reply(posted)
    /\ \/ Become(p, [op[p] EXCEPT !.pc = "loop", !.gw = None,
                                  !.done = @ \cup {Pair(op[p].gw)}])
       \/ Become(p, Idle)
    /\ UNCHANGED <<backend, status, disk, torn, store, registry, cache, recDisk,
                   recorded, generated>>

-----------------------------------------------------------------------------
(* Synchronisation with the ThingsIX registry                              *)

\* ByLocalID, the first step of SyncGatewayByLocalID.
Lookup(p, s, id) == Become(p, [s EXCEPT !.pc = "query", !.gw = byLocalId[id]])

\* GET /v1/gateways/{local_id}/sync.
SyncGateway(p, id) ==
    /\ status = "running" /\ At(p, "idle") /\ byLocalId[id] # None
    /\ Lookup(p, [Idle EXCEPT !.req = "sync"], id)
    /\ UNCHANGED rest

\* Run: the timer fires and all gateways of the store are synchronised.
SyncAll ==
    /\ status = "running" /\ At(Timer, "idle")
    /\ Become(Timer, [Idle EXCEPT !.pc = "loop", !.req = "syncall",
                      !.todo = {id \in LocalID : byLocalId[id] # None}])
    /\ UNCHANGED rest

SyncNext ==
    /\ At(Timer, "loop")
    /\ IF op[Timer].todo = {}
       THEN Become(Timer, Idle) /\ status' = "running"
       ELSE /\ \E id \in op[Timer].todo :
                  Lookup(Timer, [op[Timer] EXCEPT !.todo = @ \ {id}], id)
            /\ UNCHANGED status
    /\ UNCHANGED <<backend, disk, torn, store, registry, cache, recDisk, recorded,
                   generated, promised>>

\* The synchronisation of one gateway is over, for better or worse.
SyncDone(p) ==
    IF p = Timer THEN Become(p, [op[p] EXCEPT !.pc = "loop", !.gw = None, !.ans = None])
    ELSE Become(p, Idle)

\* GatewayDetails finds an answer, or a failure, in the cache; a request of the
\* API is forced and does not look.
UseCache(p) ==
    /\ At(p, "query") /\ p = Timer
    /\ cache[op[p].gw.key] # None
    /\ IF cache[op[p].gw.key] = Failed THEN SyncDone(p)
       ELSE Become(p, [op[p] EXCEPT !.ans = cache[op[p].gw.key],
                       !.pc = IF backend = "pg" THEN "save" ELSE "apply"])
    /\ UNCHANGED rest

\* GatewayDetails asks the registry.
Ask(p) == /\ At(p, "query")
          /\ ~(p = Timer /\ cache[op[p].gw.key] # None)
AskOK(p) ==
    /\ Ask(p)
    /\ Become(p, [op[p] EXCEPT !.pc = "cache", !.ans = registry[op[p].gw.key]])
    /\ UNCHANGED rest
AskFails(p) ==
    /\ Ask(p)
    /\ \E ans \in {Failed, 0} :
         Become(p, [op[p] EXCEPT !.pc = "cache", !.ans = ans])
    /\ UNCHANGED rest

\* SyncGatewayByLocalID returned the gateway: the handler replies with it.
ReplySynced(p) == Reply(IF p = Timer THEN {} ELSE {Pair(op[p].gw)})

\* What is done with an answer that arrived: without a registration the gateway
\* stays as it is.
UseAnswer(p) ==
    IF op[p].ans \in {Failed, 0} THEN SyncDone(p) /\ ReplySynced(p)
    ELSE /\ Goto(p, IF backend = "pg" THEN "save" ELSE "apply")
         /\ UNCHANGED promised

\* Mutant: that the registry does not know the gateway is cached.
AnsweredAlwaysCached(p) ==
    /\ At(p, "cache")
    /\ cache' = [cache EXCEPT ![op[p].gw.key] = op[p].ans]
    /\ UseAnswer(p)
    /\ UNCHANGED <<backend, status, disk, torn, store, registry, recDisk,
                   recorded, generated>>

\* Answers and failures are cached; that the gateway is not registered is not.
Answered(p) ==
    /\ At(p, "cache")
    /\ cache' = IF op[p].ans = 0 THEN cache
                ELSE [cache EXCEPT ![op[p].gw.key] = op[p].ans]
    /\ UseAnswer(p)
    /\ UNCHANGED <<backend, status, disk, torn, store, registry, recDisk,
                   recorded, generated>>

\* NewOnboardedGateway, with the id and the key that were looked up.
Synced(p) == [op[p].gw EXCEPT !.info = op[p].ans]

\* pgStore: the row of the gateway is saved, or the synchronisation fails.
Save(p) ==
    /\ At(p, "save")
    /\ disk' = [disk EXCEPT ![op[p].gw.id] = Synced(p)]
    /\ Goto(p, "apply")
    /\ UNCHANGED <<backend, status, torn, store, registry, cache, recDisk,
                   recorded, generated, promised>>
SaveFails(p) ==
    /\ At(p, "save")
    /\ SyncDone(p)
    /\ UNCHANGED rest

\* The synchronised gateway replaces the old one in the indexes; the handler
\* replies with it.
Apply(p) ==
    /\ At(p, "apply")
    /\ Index(Synced(p), TRUE)
    /\ SyncDone(p) /\ ReplySynced(p)
    /\ UNCHANGED <<backend, status, disk, torn, registry, cache, recDisk,
                   recorded, generated>>

\* Mutant: a cached failure does not expire.
ExpireAnswers(k) ==
    /\ cache[k] \notin {None, Failed}
    /\ cache' = [cache EXCEPT ![k] = None]
    /\ UNCHANGED <<backend, status, disk, torn, store, registry, recDisk,
                   recorded, op, generated, promised>>

\* An answer in the cache turns 10 minutes old.
Expire(k) ==
    /\ cache[k] # None
    /\ cache' = [cache EXCEPT ![k] = None]
    /\ UNCHANGED <<backend, status, disk, torn, store, registry, recDisk,
                   recorded, op, generated, promised>>

\* The owner of a gateway onboards it, and then sets its details.
RegistryChange(k) ==
    /\ registry[k] < 2 /\ \E id \in LocalID : <<id, k>> \in promised
    /\ registry' = [registry EXCEPT ![k] = @ + 1]
    /\ UNCHANGED <<backend, status, disk, torn, store, cache, recDisk, recorded,
                   op, generated, promised>>

-----------------------------------------------------------------------------
(* Unknown gateways                                                        *)

\* A packet, event or ack of a gateway that is not in the store.
UnknownGateway(p, id) ==
    /\ status = "running" /\ At(p, "idle") /\ byLocalId[id] = None
    /\ Become(p, [Idle EXCEPT !.pc = "check", !.req = "packet", !.todo = {id}])
    /\ UNCHANGED rest

\* yaml Record: nothing is done for an id that is in the list; the lock is
\* released before the entry is appended.
RecordCheck(p) ==
    /\ At(p, "check") /\ backend = "yaml"
    /\ IF op[p].todo \subseteq recorded THEN Become(p, Idle) ELSE Goto(p, "append")
    /\ UNCHANGED rest

RecordAppend(p) ==
    /\ At(p, "append")
    /\ \/ /\ recDisk' = recDisk \cup op[p].todo
          /\ recorded' = recorded \cup op[p].todo
          /\ UNCHANGED torn
       \/ torn' \in {torn, TRUE} /\ UNCHANGED <<recDisk, recorded>>
    /\ Become(p, Idle)
    /\ UNCHANGED <<backend, status, disk, store, registry, cache, generated,
                   promised>>

\* pg Record: an insert that ignores a record that exists, or fails.
RecordPg(p) ==
    /\ At(p, "check") /\ backend = "pg"
    /\ recDisk' \in {recDisk, recDisk \cup op[p].todo}
    /\ Become(p, Idle)
    /\ UNCHANGED <<backend, status, disk, torn, store, registry, cache, recorded,
                   generated, promised>>

-----------------------------------------------------------------------------
RequestStep(p) ==
    \/ ImportNext(p) \/ AddYaml(p) \/ AddPg(p) \/ IndexPg(p)
    \/ PushOnboard(p) \/ PushImport(p)
    \/ RecordCheck(p) \/ RecordAppend(p) \/ RecordPg(p)
SyncStep(p) ==
    \/ UseCache(p) \/ AskOK(p) \/ AskFails(p) \/ Answered(p) \/ Save(p)
    \/ SaveFails(p) \/ Apply(p)

Next ==
    \/ StartYaml \/ StartPg \/ Crash
    \/ \E p \in Request :
         \/ \E id \in LocalID : AddGateway(p, id)
         \/ RequestStep(p)
         \/ /\ p \notin OnlyAdd
            /\ \/ ListGateways(p) \/ ImportGateways(p)
               \/ \E id \in LocalID : \/ OnboardGatewayMessage(p, id)
                                      \/ SyncGateway(p, id) \/ UnknownGateway(p, id)
    \/ SyncAll \/ SyncNext
    \/ \E p \in Proc : SyncStep(p)
    \/ \E k \in Key : Expire(k) \/ RegistryChange(k)

Spec == Init /\ [][Next]_vars

\* The goroutines run, the timer fires and cached answers grow old; neither the
\* registry nor the database fails for ever.
Fairness ==
    /\ WF_vars(StartYaml) /\ WF_vars(StartPg)
    /\ WF_vars(SyncAll) /\ WF_vars(SyncNext)
    /\ \A p \in Proc : WF_vars(SyncStep(p)) /\ SF_vars(AskOK(p)) /\ SF_vars(Save(p))
    /\ \A k \in Key : WF_vars(Expire(k))
FairSpec == Spec /\ Fairness

-----------------------------------------------------------------------------
(* Properties                                                              *)

\* The three indexes describe the same gateways, with the same registration:
\* whatever requests and synchronisations do at the same time, looking up a
\* gateway by local id, network id or ThingsIX id gives the same one.  (pgStore
\* knows a gateway it added by its ThingsIX id only from the first
\* synchronisation on.)
IndexesAgree ==
    /\ \A id \in LocalID : byLocalId[id] # None =>
         LET g == byLocalId[id]
         IN /\ g.id = id
            /\ byNetId[g.key] = g
            /\ \/ byThingsIxID[g.key] = g
               \/ backend = "pg" /\ byThingsIxID[g.key] = None
    /\ \A k \in Key : byNetId[k] # None =>
         byNetId[k].key = k /\ byLocalId[byNetId[k].id] = byNetId[k]
    /\ \A k \in Key : byThingsIxID[k] # None => byThingsIxID[k] = byNetId[k]

\* A reply of the API, or a message posted for it, that named a gateway and its
\* key holds for good: the gateway is onboarded with that key, so the store must
\* have it, with that key, after any crash, and no other request, served at the
\* same time, may have made it another.
PromisesKept ==
    \A id \in LocalID, k \in Key :
        <<id, k>> \in promised => disk[id] # None /\ disk[id].key = k

\* A gateway that is served from memory is stored, with the same key, also when
\* a write failed, two requests added it, or it was synchronised meanwhile: the
\* network id its packets are sent with is the one it has after a restart.
ServedIsStored ==
    \A id \in LocalID :
        byLocalId[id] # None => disk[id] # None /\ disk[id].key = byLocalId[id].key

\* When the registry has the details of a gateway in the store, a forwarder that
\* keeps running gets to know them, although an older answer may overwrite a
\* newer one, failures are cached and saving may fail.
DetailsArrive ==
    \A id \in LocalID, k \in Key :
        (byNetId[k] # None /\ byNetId[k].id = id /\ registry[k] = 2)
            ~> (status # "running" \/ (byNetId[k] # None /\ byNetId[k].info = 2))

=============================================================================
