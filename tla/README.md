# TLA+ models of ThingsIX packet handling

The repository holds two Go programs. The **forwarder** runs next to LoRa
gateways: it embeds the gateway side of the ChirpStack gateway bridge, finds out
which routers exist, and passes packets between gateways and routers. The
**router** runs next to a LoRaWAN network server: it accepts forwarders and
bridges them to MQTT. This directory models the concurrent core of both, checks
it with TLC and proves most of its safety properties with TLAPS.

    gateways --UDP/websocket--> backend --> exchange --broadcast--> router client
                                   ^            |                      |  gRPC
                                   +- downlink -+<-- networkEvents ----+  stream
                                                                       v
             network server <--MQTT--> integration <--> router (session, table)

## 1. Inventory

Line numbers refer to the files named; `PROJECT.json` maps every definition.

| Component | State | Operations | Talks to | What is hard | What makes it correct |
|---|---|---|---|---|---|
| Router (`router/router.go`) | `gateways` table under `gatewaysMu`; per session two channels | `Events` per forwarder, `DownlinkFrame` callback, per-minute clean-up | router clients (gRPC), MQTT integration | sessions race for the table; the callback blocks with the lock held; failed sends; time-outs | table and subscriptions agree; downlinks reach the owner; dead sessions are forgotten; the callback returns |
| Broadcaster (`forwarder/broadcast`) | listener set, one buffered and two unbuffered channels | `TryBroadcast`, `Subscribe`, `Unsubscribe`, `Run` | exchange, routing table, router clients | listeners that do not listen, leave during a send | lossy but ordered, at most once, nothing after leaving; never stuck |
| Routing table (`forwarder/routes.go`) | `existingRouters`, fetched snapshots | `Run` (fetch), `keepRouteTableUpToDate`, default routing | broadcaster, router clients | missed snapshots, clients stopped in the background, details sent in goroutines | a wanted router is served by one client, others by none |
| Router client (`forwarder/router_client.go`) | `lastGatewayEvent`, `pendingDownlinkAcks`, endpoint, context | `Run`, `run` | broadcaster, router, exchange | reconnects, repeated and colliding confirmations, a full channel, keep-alive | confirmations answer requests; downlinks are passed on; the router keeps gateways that are alive |
| Packet exchange (`forwarder/exchange.go`) | `networkEvents`, broadcasters | uplink, status, ack handlers, `Run` | backend, router clients | events of all backends and routers interleave | only valid packets of known gateways go on |
| Semtech UDP backend | gateway registry, downlink cache by token, lock, `closed` | packet handlers, `SendDownlinkFrame`, clean-up, `Stop` | gateways, exchange, mapper forwarder | a goroutine per packet, a second sender of downlinks without lock, cache items written one by one, expiry, repeated acks, shut-down | no handler or router's downlink panics; a status belongs to its item; no item twice; `Stop` returns |
| Basics Station backend | websocket registry, downlink cache | connect, handlers, `SendDownlinkFrame` | gateways, exchange | a gateway that connects again while its old websocket closes | the registry has the newest connection |
| MQTT integration | wanted and subscribed gateways | connect loop, subscribe loop, `SetGatewaySubscription` | broker, router | reconnects during subscribing | what is wanted gets subscribed |
| Gateway stores, HTTP API (`gateway/store_*.go`, `forwarder/api.go`) | three in-memory indexes, YAML file or Postgres table | `Add`, `SyncGatewayByLocalID`, look-ups, `Range`; add, onboard, import, list, sync requests | exchange, registry, recorder | requests race for a local id; synchronisation reads, asks and writes back; partial writes, crashes | indexes agree; a key that was handed out is stored; details arrive |
| Registry client (`gateway/registry_thingsix_api.go`) | cached answers and failures | `GatewayDetails` | stores, ThingsIX API | failures are cached, older answers overwrite newer ones | a store gets to know what is registered |
| Unknown gateway recorder | recorded list, file or table | `Record`, `Recorded` | exchange, API | check under the read lock, append under the write lock | imports lose no gateway |
| Join filter (`router/joinfilter.go`) | filter and bitmap; the forwarder's copy | passes over ChirpStack, `JoinFilter`, renewal by clients | ChirpStack API, router clients | the listing changes between pages, errors in the middle, late goroutines, restarts | the forwarder accepts the joins of the devices that may join |
| Mapper forwarder, coverage client | region cache, index, a goroutine per delivery | discovery, confirmation, index refresh | exchange, coverage mapping services | several gateways hear a packet; late answers; a cache all mappers share | one downlink by the selected gateway; confirmations in the right region |
| Device matching, paging, airtime | none (functions) | prefix match, page bounds, airtime | routing table, clients | boundaries | agrees with a reference definition |
| Registry bindings, codecs, configuration, metrics, command line | - | - | - | - | - |

The hazards of this code, each with its line and the properties that cover it,
are listed in `PROJECT.json`.

## 2. Plan

Done, in this order: `Router` (the table decides where downlinks go),
`Broadcaster` with its abstract specification, `RoutingTable`, `RouterClient`,
their composition `GatewayPresence`, `SemtechUDP`; then `GatewayStore` with the
HTTP API, the recorder and the registry client, `Exchange` with the mapper
forwarder and the coverage client, and `JoinFilter` on both sides of the
connection; last `DownlinkContract`, the abstract specification of `SemtechUDP`.
The safety properties of all of them are proved.

What is left, by importance:

1. The loops of the embedded gateway bridge: connecting and subscribing in the
   MQTT integration, the websocket life cycle of Basics Station.
2. Pure functions against reference definitions: `InterestedIn` and prefix
   matching, the pages of the chain fetcher, the back-off interval.

The project keeps its runs few: a new component replaces runs that ask a
narrower question.

## 3. Modules

**`Router`.** A *session* is one call of `Events` (each gets a fresh uuid).
`session[s]` is where its handler is, `job[s]` the event it is about to apply
under the write lock, `events` and `channel` its two channels, `stream` the gRPC
stream and the goroutine that reads it. `owner`, `age` and `subs` are the table
and the gateways for which the integration layer is subscribed. Critical
sections of writers never block inside, so each is one action enabled when no
reader holds the lock; `sendDownlinkFrame` can block while it holds the read
lock, so look-up (`DownlinkFrame`) and send (`ForwarderSend`) are two actions. A
send on the closed channel of a session that ended sets `panicked`, which ends
everything. Uplinks and online statuses are the same sign of life ("alive").
`SetGatewaySubscription` is part of the actions that call it and cannot fail (it
only changes a map). The handler for a session's "ack" changes no state. Keys are
assumed to have the 33 bytes of a compressed key that clients send;
`router.go:264` slices a key before it looks at the error.

**`Broadcaster`, `LossyBroadcast`.** The goroutine of `Run` takes a message and
then offers it to the listeners one by one, in any order (`range` over a map);
a listener in its select gets it, any other misses it. `LossyBroadcast` is the
contract; the refinement mapping takes the listener set for its members.

**`RoutingTable`.** `registry` is what the source of routes says of a router: its
endpoint, or that it is unlisted, or on a frequency plan no gateway uses.
`buffer`, `current`, `pending` are the routes broadcaster (as in `Broadcaster`;
capacity 1 as in the code), `pc`, `snapshot`, `existing` are
`keepRouteTableUpToDate`, the rest the life cycle of the clients: connect,
select, failed, back-off, leaving, ended. `go client.stop()` and the goroutines
that send details are steps of their own. The table reuses `Client` identifiers
of ended clients without an entry. Durations are left out. A client that is busy in
another case of its select misses a snapshot, so `SendToClient` may always miss; the
loss of a stream is noticed at some time, late where gRPC reports a code other than
the three that end `routerEventsChan`.

**`RouterClient`.** The message exchange inside `run`: which events go to the
router, which confirmations it is owed, the blocking send to `networkEvents`.
Ages are in minutes; `pendingAcks` is "fresh" or "old" because the ticker has the
period of the deadline. `wanted`, `asked`, `acked` are history: what the router
asked for and got on this connection. Accounting is `NoAccounting`, as configured
by default. An event the router is not interested in changes nothing. Airtime
payments take the same way into `networkEvents` as downlinks and are not told apart.

**`GatewayPresence`** extends `RouterClient` with the `Router` (`INSTANCE`d) that the
clients connect to: each connection is a session, `wire` is the stream, and both
ends notice a break in their own time, so that an old session can end after a new
one began. Its actions join an action of the client with one of the router
(`OpenSession`, `BreakStream`), or are one of either. The streams of a router that
panicked are gone with the process. Time (`MinutePasses`) advances both clocks
together, when what is in flight has been applied: delivery takes far less than a
minute.

**`SemtechUDP`, `DownlinkContract`.** One goroutine per packet (`Handler`), the
exchange's, which sends the downlinks of routers and calls `Stop`, and those of the
mapper forwarder (`Mapper`), which send a mapper's downlink with a context of their
own: before, while and after the backend is stopped, since `SendDownlinkFrame` takes
no lock and does not look at `closed`. `SenderOf` says whose a downlink is, `panicked`
which goroutines panicked in a send on the closed channel or with an index out of
range. A frame without items is refused. `pc` and `task` are where a goroutine is in `handleTXACK` /
`sendDownlinkFrame` and its local variables; reads and writes of the three cache
items of a token are separate steps, as are their expiries. The acks slice is shared
by reference between cache and goroutines, which the model keeps: a slice is named
by the downlink it was made for. `said` is what the gateway really answered.
`DownlinkContract` is what the packet exchange may expect: it has only what was
sent, answered, noted and reported, and no cache, goroutine or TX_ACK. The
refinement mapping takes these four variables as they are.

**`GatewayStore`.** Both stores and the recorder that is configured with each:
`backend` is chosen once. `disk` and `recDisk` are the files or tables, `byLocalId`,
`byNetId`, `byThingsIxID` the indexes, `cache` the registry client's. A goroutine
of the HTTP server or of the gateway backend is a `Request`, the store's `Run` is
`Timer`; `op` is where each is and what it holds. What the code does under one
lock or in one transaction is one action, everything else can be interleaved:
`AddYaml` checks, appends and indexes at once, `AddPg` and `IndexPg` are two
steps, a synchronisation is look-up, question, answer (cached), `Save` and
`Apply`. The registry's answer is read when the request is served and used later.
A crash loses memory at any point, and an append that was under way may be on
disk in full or in part (`torn`, which is fatal at the next start); a start whose
`AutoMigrate` fails leaves the process down. `promised` is history: every local id and
key that a reply or a message posted to ThingsIX named. The registry client takes
details with an antenna gain of 0 for none; registered details have a gain here. `Key` bounds how many keys are
generated, `OnlyAdd` what some requests do.

**`Exchange`.** The callbacks of the gateway backend and the mapper forwarder. A
network id may equal the local id of another gateway, since both are EUI-64.
`toRouters` and `answers` are what routers get and what becomes of the downlinks
they send to ids they have heard. `regionCache` is the LRU cache as a sequence,
`task` one goroutine per gateway and packet, whose receipt is posted, answered or
timed out; `winner` is what the services decided. The backend may refuse a frame. What
the code drops has no action. Assumed: a gateway repeats no PUSH_DATA, frames of
routers have an item (`exchange.go:396` reads the first), and the mapper
forwarder's second look-up (`mapper.go:87`) finds what the first one found. Recording unknown gateways is part of `GatewayStore`.

**`JoinFilter`.** `pass` is `UpdateFilter`: which key (tenant, application) is being
listed from which offset, what is left, the devices found. Each call of
ChirpStack's API is a step, so that devices are created, deleted, disabled between
pages and between listing and getting; the fields `steady`, `seen`, `missed`,
`deleted` only record this for the property. A listing is a set with an order: a
page holds the entries whose ranks (the number of entries before them) follow its
offset. Tenants, applications and devices are three levels, which is an assumption
on the constants. On the forwarder's side a goroutine
per request may outlive its connection (`rpc`). The filter is the set its bitmap
holds; the xor filter is a fallback for routers without a bitmap.

**`MC*`** modules only give the constants of an instance; the `*Proofs` modules hold
theorems.

Left out everywhere: metrics, logging, packet encoding, and the cancellation of
the program's own context at exit.

## 4. Runs

| Run | Shows | Bounds, and why they are enough |
|---|---|---|
| `router` | `SubscriptionMatchesTable`, `CleanExitLeavesNoEntry`, `DownlinkToOwner`, `DeadSessionForgotten`, `BlockedOnlyInLockCycle` | 2 sessions, 1 gateway that moves between them, 3 downlinks and channels with room for 1: the callback blocks while one downlink is queued and another was sent. What concerns several gateways is proved |
| `router_lock_cycle` | violation of `DownlinkReturns` | 1 session with room for 1 of 2 downlinks |
| `broadcaster` | `NoSendAfterUnsubscribe`, refinement of `LossyBroadcast`, `CallsReturn` | 2 listeners, 4 messages, buffer of 2: it fills, and drains while listeners come and go |
| `routes` | `NoOrphanClient`, `RemovedRouterDropped`, `UnservedOnlyIfAbandoned` | 1 router, 2 clients (an old one still leaving while a new one starts), 2 endpoints, 2 changes: moved, removed, put on an unused plan and listed again |
| `routes_endpoint` | violation of `ListedRouterServed` | 1 router, 2 endpoints, 1 change of the endpoint |
| `client` | `AcksAnswerRequests`, `DownlinkPassedOn` | 2 clients that share one downlink id and compete for a channel of 1, each asked for 2 downlinks per connection |
| `presence` | `HeardGatewayKept`, `HeardGatewayListed` | 1 client, 2 sessions (old and new), 1 gateway, 1 downlink, time-out one minute longer than the keep-alive as in the code (5 and 4) |
| `udp_attribution` | `StatusFaithful`, `EachItemOnce`, refinement of `DownlinkContract`, `StopReturns` | a handler, the exchange and a mapper's goroutine; a router's downlink of 2 items, a mapper's of 1 and an empty one, with their own tokens. A token is in the hands of one goroutine at a time then, so a second handler adds little; with 2 handlers and without the empty downlink the run also passes (954,699 states) |
| `udp_collision` | `OnlyMapperPanics` | both downlinks on one token, with different numbers of items, TX_ACKs repeated at will, `Stop` at any time |
| `store` | `IndexesAgree`, `PromisesKept`, `ServedIsStored`, `DetailsArrive` | both stores, 1 local id, 2 keys (one is replaced or lost), 2 requests besides the timer, of which one does nothing but add a gateway (`OnlyAdd`): both may add the same local id, with a key each, and a request and a synchronisation meet in every order, with crashes. The three invariants also hold with 2 unrestricted requests (936,022 states up to symmetry) |
| `exchange` | `BackToSender`, `OneDownlinkBySelected`, `ConfirmedInOwnRegion` | 2 gateways, the network id of one being the local id of the other; 2 mappers, 2 regions, a cache for 1 mapper: it is evicted between discovery and confirmation; 2 packets or events, 1 change of the index |
| `joinfilter` | `FilterFaithful`, `JoinsConverge` | a tenant, 2 applications, 2 devices in one of them, pages of 1: each listing takes several pages; 2 changes or failures of any kind |

Each module's type invariant is checked in one of its runs too. Each property has a mutant in `PROJECT.json`, a plausible slip in the code that makes
TLC find a violation.

`CHECK_DEADLOCK FALSE` appears where the system may stop: sessions and downlinks are
bounded (`Router`, `GatewayPresence`), a panic ends the process, and a stopped UDP
backend does nothing more; a store whose file is corrupt does not start
(`GatewayStore`), and in `Exchange` packets are bounded. `StatusFaithful`,
`EachItemOnce` and `ImplementsDownlinkContract` hold only without repeated TX_ACKs
and without shared tokens, which is what `udp_attribution` states with its
constants: a repeated rejection is taken for the answer to the item sent last, and
nothing in the repository promises otherwise.

### Fairness

- Goroutines that can run do run: weak fairness.
- `select` chooses at random among ready cases, `sync.RWMutex` starves neither
  readers nor writers, and blocked channel senders queue in order: an action that
  is enabled again and again is taken, hence strong fairness where it is needed.
  `Router` needs little: handlers may leave events aside for ever.
- Timers and tickers fire, and fetching the routes succeeds now and then; in
  `GatewayStore` the registry answers and the database saves again and again if
  they are asked again and again (strong fairness), and cached answers expire.
- In `JoinFilter` changes and failures are bounded by `MaxFaults`: `JoinsConverge` is
  about what happens after the last of them.
- Nothing is assumed of gateways, connections, peers, or when `Stop` is called;
  `RoutingTable` assumes that a cancelled context breaks its stream (gRPC does).

### What the violations show

**Lock cycle** (`router_lock_cycle`). `sendDownlinkFrame` blocks on the session's
full channel with the read lock held; the handler that drains it waits for the
write lock to record a sign of life. Neither continues, nor does any session or
the clean-up. `BlockedOnlyInLockCycle` says that nothing else keeps the callback.

**A client that ends for good** (`routes_endpoint`). If a new endpoint reaches the
client through the details channel, `run` returns nil and `Run` ends
(`router_client.go:290`, "reconnect router on new endpoint"). The table keeps the
entry and starts no other client, so the listed router is not connected again until
it has been off the list. The same happens when the client sees that its router is
off the list, the table misses that snapshot, and the router is listed again.
`UnservedOnlyIfAbandoned` says that nothing else costs a listed router its
connection.

### Sequences the code allows

The models contain these too; they are not runs of their own, and the properties
above are stated so that they say what does hold.

- When `Send` fails, `Events` returns without `allGatewaysOffline`
  (`router.go:297`); the entries keep a closed channel until they time out, and a
  downlink for them panics. `DeadSessionForgotten` says that they do time out.
- `Stop` closes `udpSendChan` (`backend.go:125`) without regard to the goroutines of
  the mapper forwarder, which live for up to three seconds on a context of their own
  (`mapper.go:185`) and end in `SendDownlinkFrame`: the send in `backend.go:201` panics,
  whether it begins afterwards or is blocked at that moment. `OnlyMapperPanics` says
  that nobody else panics: handlers hold the lock that `Stop` takes before it closes
  the channel, and the exchange's goroutine is the one that calls `Stop`.
- `lastGatewayEvent` survives a reconnect (`router_client.go:371`), so for up to
  four minutes the router does not learn of gateways that are online.
  `HeardGatewayListed` says that it does learn of them in the end.
- An offline event of an old session removes the entry of the session that owns the
  gateway now: `gatewayOffline` does not compare the forwarder.
- A confirmation of another router's downlink with the same id is forwarded by a
  client that waits for that id (`HandleDownlinkAck` looks at the id alone).
- A Postgres store whose first query fails logs "retry later", and the comment in
  `Run` says "reload", but nothing loads it again: it serves what is added until
  the next start. Adding a gateway that is in the table then fails.
- `pgStore.Add` puts a gateway in the index by ThingsIX id only with the first
  synchronisation that finds it registered.
- An import that fails half-way replies with an error; the gateways it had added
  stay in the store and are listed, but their onboard messages are lost.
- Two packets of an unknown gateway may both be appended to the file of the
  recorder.
- A half-written entry in the YAML file keeps the forwarder from starting again.
- A device that ChirpStack fails to return is left out of the new join filter
  without an error (`joinfilter.go:157`); a deletion moves later devices under the
  offset of the next page; a router that was restarted serves an empty filter until
  its first pass is over, and clients apply it until they renew. `JoinsConverge`
  says that all of this is made good.
- Data of a device that looks like a mapper's (`IsMaybeMapperPacket`) does not go to
  any router.

Found by reading, in code that is not modelled: the chain fetcher adds the page
size to a counter that it also multiplies by it (`utils.go:126`), so of 51 to 2500
routers only the first 50 are fetched; `NewPostgresStore` dereferences a nil refresh
interval; the API fetcher leaves a nil router in its result when an id is invalid.

## 5. Proofs

For every value of the constants that satisfies the named assumptions (capacities
positive, bounds natural numbers, "none" values outside the sets):

- `RouterProofs`: `IInv` is `TypeOK`, `SubscriptionMatchesTable`,
  `CleanExitLeavesNoEntry` and `ReadLockPinsEntry`: while the callback is between
  look-up and send, the entry it found is still there. The last part is needed
  for `DownlinkToOwner`, which follows as an action property; it is preserved
  because every writer requires the lock to be free.
- `BroadcasterProofs`: `IInv` adds that the buffer is ordered and numbered within
  what was offered, and that no pending listener has got the current message or
  a later one. From it: `NoSendAfterUnsubscribe`, and the refinement
  `Spec => ImplementsLossyBroadcast`, each step being a step of `LossyBroadcast`
  or a stutter.
- `RoutingTableProofs`: `IInv` adds to `TypeOK` and `NoOrphanClient` that an entry
  names a client of that router (so no client has two entries) and that an active
  client has a router. Without the first, deleting one entry could orphan the
  client of another.
- `ExchangeProofs`: `IInv` adds that what routers got bears the network id of its
  sender (for `BackToSender`; network ids are distinct), that every cached region
  was announced by its mapper in a packet some gateway of the forwarder received
  (for `ConfirmedInOwnRegion`), and that a goroutine that was asked to transmit
  belongs to the winner of its packet, for which nothing was sent yet (for
  `OneDownlinkBySelected`).
- `GatewayStoreProofs`: `IInv` adds what each goroutine holds: a key that is being
  added is stored nowhere and in no other goroutine's hands; a row that is inserted
  but not indexed is served by nobody; what is being pushed is stored; what is being
  synchronised is served with the key it was looked up with; and that a running
  YAML store serves everything in its file. Without these a synchronisation could
  write back another key, and a second `Add` could overwrite the first. The proof
  has one lemma per action.

- `SemtechUDPProofs` has two inductive invariants. `SafeInv` holds for all tokens
  and all repetitions of TX_ACKs: besides the types it says what a goroutine's
  local variables hold at each step (`Locals`: the item it sends next is one of its
  frame's, although frame, index and acks may come from different downlinks), and
  that the channel is closed only when neither a handler nor the exchange's
  goroutine can send on it any more (`Quiet`); nothing of the kind is true of the
  mapper's goroutines. From it, and from the comparison of the lengths of frame and
  acks in `handleTXACK`: `OnlyMapperPanics`. `AttributionInv` is about backends whose answers can be told
  apart, `Distinguishable`: tokens are distinct and no TX_ACK is repeated. Both are
  conditions on constants that `udp_attribution` meets, and both are needed: the
  runs and section 4 show what happens without them. It says that one carrier at
  most takes a downlink further (its place among the downlinks to send, a
  goroutine that sends an item, a TX_ACK, a goroutine that handles one, or the
  gateway whose answer is awaited), that items were sent in order, each after the
  rejection of the one before, and that the cached index is that of the item sent
  last. From it: `StatusFaithful` and `EachItemOnce`, neither of which is inductive,
  for a second carrier would send or attribute an item again. Expiring cache items
  only stop a carrier. Each action has a lemma; what an action leaves alone is
  settled once, in `Untouched`.

  `UDPContract` proves, under `Distinguishable`, that the backend implements
  `DownlinkContract`. The contract speaks of what is noted where `AttributionInv`
  speaks of what the gateway said, so `ContractInv` adds `Recorded`: the rejection of
  every item before the one sent last, or to be sent next, has been noted, and the
  answer that is under way has not. Of all steps only `GatewayAnswers`, the `GetAcks`
  that notes an answer and the `Send` of an item are visible.
- `JoinFilterProofs`, for any tree, page size and number of changes: `FilterIsFaithful`.
  The invariant says what a pass owes to each device that could join all along, as
  long as nothing was deleted (`Covered`): it has the device or failed to get it; or
  the device is in the page at hand; or its application or tenant is among the keys
  found; or the device, its application or its tenant has a rank in the listing of
  the current key that is not below the offset (`Ahead`). Creating an entry
  moves the others to equal or higher ranks, so what is ahead stays ahead; this is
  what fails for deletions, and why the property excludes them. That every rank below the
  size of a listing is taken by one entry, and a page thus holds what it should, is
  shown by counting (`RankOnto`: an injection between finite sets of equal size is
  onto) and not by sorting. `Watched` says that what was steady may join now and that what
  was taken was seen; `Closed` that nothing exists without its parent.
- `GatewayPresenceProofs` is about the clients, alone and joined to a router, for any
  number of clients and sessions and all intervals with `KeepAlive <= Timeout` (4 and
  5 minutes in the code). For the clients alone `ClientInv` adds to `TypeOK` that
  confirmations given plus the pending one do not exceed what was asked for
  (`PendingIsOwed`); `AcksAnswerRequests` alone is not inductive, for a pending ack may
  push it over. `PresenceIsRouter` and `PresenceIsClient` show that the steps of the
  composition are steps of `Router` and of `RouterClient` or leave them alone, so that
  what is proved of the parts holds in it (`PartsStaySafe`); the lemmas of
  `RouterProofs` about steps are used for this through `INSTANCE`. `HeardIsKept` proves
  `HeardGatewayKept`.
  Its invariant says that a connected client has a session of its own which the
  router serves, and bounds the age of an entry (`AgeOK`): if no sign of life is on
  its way, the entry is not older than the event the client sent last, as long as
  that event keeps the client from sending another, and not older than `KeepAlive`
  plus the time since the client last heard of the gateway. A sign of life is on
  its way on the wire, in the session's channel or in the hands of a handler that
  waits for the lock (`InFlight`); this part is needed because between the client
  and the table the event has left one and not reached the other.

The invariants of `SemtechUDPProofs` were first checked by TLC with 2 handlers
(954,699 states) and on the instance of `udp_collision` (3,828,213 states), that of `GatewayPresenceProofs` on variations of
`presence`, and that of `JoinFilterProofs` on the instance of `joinfilter` (224,405
states) and on one with 6 nodes, 3 devices and pages of 2 (391,147 states).

Only model-checked: the liveness properties (`DeadSessionForgotten`,
`BlockedOnlyInLockCycle`, `CallsReturn`, `RemovedRouterDropped`, `UnservedOnlyIfAbandoned`,
`DownlinkPassedOn`, `HeardGatewayListed`, `StopReturns`, `DetailsArrive`,
`JoinsConverge`), which rest on fairness and are outside the prover's reach.

## 6. Not modelled

The smart-contract client of the gateway registry and the routes fetchers are
stateless queries; whether an unknown gateway is an error for the contract depends
on the contract, which is not in the repository. The bindings are generated. Packet
codecs, configuration, metrics and command lines have no state worth checking; the
gateway commands are clients of the HTTP API. `UniqueGatewayBands` and the listing of
unknown gateways only read. Basics Station and the MQTT loops belong to the embedded
gateway bridge and are planned (section 2), as are the pure functions. The
Concentratord backend is not used by the forwarder.
