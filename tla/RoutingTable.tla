---------------------------- MODULE RoutingTable ----------------------------
(***************************************************************************)
(* The life cycle of the forwarder's router clients: the loop that fetches *)
(* the registered routers (RoutingTable.Run), the broadcaster that hands   *)
(* each snapshot to the table and to the clients, the goroutine that       *)
(* starts, updates and stops clients (keepRouteTableUpToDate), and the     *)
(* clients that connect, back off, follow updates and end                  *)
(* (RouterClient.Run and the part of run that decides when to return).     *)
(*                                                                         *)
(* A client is an instance of RouterClient; an instance that ended and has *)
(* no entry in the table any more is used again for a new client.          *)
(***************************************************************************)
EXTENDS Naturals, FiniteSets

CONSTANTS
    Router,      \* ThingsIX ids of routers
    Endpoint,    \* endpoints a router can be registered with
    Unlisted,    \* snapshot value: the router is not registered
    UnusedPlan,  \* snapshot value: registered, but with a frequency plan that
                 \* no gateway in the store uses
    Listings,    \* what the registry may say of a router
    Client,      \* bound: instances of RouterClient
    None,        \* no client, no snapshot
    Table,       \* the table's own listener
    MaxChanges   \* bound: changes of the registry

ASSUME ListingsAssumption ==
    /\ Listings \subseteq Endpoint \cup {Unlisted, UnusedPlan}
    /\ Unlisted \notin Endpoint /\ UnusedPlan \notin Endpoint
    /\ Unlisted # UnusedPlan

ASSUME ClientAssumption == None \notin Client /\ Table \notin Client

ASSUME ChangesAssumption == MaxChanges \in Nat

VARIABLES
    registry,   \* what the source of routes says of each router
    changes,    \* number of changes of the registry so far
    buffer,     \* the broadcaster's message channel: one snapshot or None
    current,    \* the snapshot being broadcast
    pending,    \* the listeners that have not been tried for it
    pc,         \* keepRouteTableUpToDate: in its select, or handling
    snapshot,   \* the snapshot that is handled
    existing,   \* existingRouters: the client of each router, or None
    state,      \* where each client is
    router,     \* the router of each client
    endpoint,   \* rc.router.Endpoint of each client
    ctx,        \* each client's context: live, about to be cancelled, cancelled
    details     \* details goroutines blocked in a send to each client

vars == <<registry, changes, buffer, current, pending, pc, snapshot, existing,
          state, router, endpoint, ctx, details>>

bcVars == <<buffer, current, pending>>
tableVars == <<pc, snapshot, existing>>
clientVars == <<state, router, endpoint, ctx, details>>

-----------------------------------------------------------------------------
Snapshot == [Router -> Endpoint \cup {Unlisted, UnusedPlan}]

\* "connect" is a client that dials and opens the stream; "select" one in the
\* loop of run; "failed" one whose run returned an error; "backoff" one that
\* waits to reconnect; "leaving" one that waits for its deferred Unsubscribe.
ClientState == {"none", "connect", "select", "failed", "backoff", "leaving", "ended"}

TypeOK ==
    /\ registry \in Snapshot
    /\ changes \in 0 .. MaxChanges
    /\ buffer \in Snapshot \cup {None}
    /\ current \in Snapshot \cup {None}
    /\ pending \in SUBSET (Client \cup {Table})
    /\ pc \in {"select", "apply", "start"}
    /\ snapshot \in Snapshot \cup {None}
    /\ existing \in [Router -> Client \cup {None}]
    /\ state \in [Client -> ClientState]
    /\ router \in [Client -> Router \cup {None}]
    /\ endpoint \in [Client -> Endpoint \cup {None}]
    /\ ctx \in [Client -> {"live", "stopping", "cancelled"}]
    /\ details \in [Client -> SUBSET Endpoint]

\* The router is registered and a gateway in the store uses its plan.
Wanted(listing) == listing \in Endpoint

\* Run has been called and has not returned or decided to return.
Active(c) == state[c] \in {"connect", "select", "failed", "backoff"}

\* The broadcaster waits in its select, so Subscribe and Unsubscribe are served.
AtSelect == pending = {}

Subscribed == {c \in Client : state[c] \notin {"none", "ended"}} \cup {Table}

Init ==
    /\ registry \in [Router -> Listings]
    /\ changes = 0
    /\ buffer = None
    /\ current = None
    /\ pending = {}
    /\ pc = "select"
    /\ snapshot = None
    /\ existing = [r \in Router |-> None]
    /\ state = [c \in Client |-> "none"]
    /\ router = [c \in Client |-> None]
    /\ endpoint = [c \in Client |-> None]
    /\ ctx = [c \in Client |-> "live"]
    /\ details = [c \in Client |-> {}]

-----------------------------------------------------------------------------
(* The source of routes, RoutingTable.Run and the broadcaster              *)

RegistryChange(r, v) ==
    /\ changes < MaxChanges
    /\ v # registry[r]
    /\ registry' = [registry EXCEPT ![r] = v]
    /\ changes' = changes + 1
    /\ UNCHANGED <<bcVars, tableVars, clientVars>>

\* The timer of Run: fetch the routers and offer them to the broadcaster.  If
\* fetching fails or the channel is full nothing happens until the next try.
Fetch ==
    /\ buffer = None
    /\ buffer' = registry
    /\ UNCHANGED <<registry, changes, current, pending, tableVars, clientVars>>

BroadcastTake ==
    /\ AtSelect
    /\ buffer # None
    /\ current' = buffer
    /\ buffer' = None
    /\ pending' = Subscribed
    /\ UNCHANGED <<registry, changes, tableVars, clientVars>>

\* The table receives the snapshot if it is in its select, or misses it.
SendToTable ==
    /\ Table \in pending
    /\ pending' = pending \ {Table}
    /\ IF pc = "select"
       THEN pc' = "apply" /\ snapshot' = current
       ELSE UNCHANGED <<pc, snapshot>>
    /\ UNCHANGED <<registry, changes, buffer, current, existing, clientVars>>

\* A client in its select receives the snapshot: it ends if its router is not
\* registered any more, and its run fails, to reconnect, if the endpoint has
\* changed; it does not look at the plan, and a router on an unused plan may
\* have any endpoint.  A client that does anything else misses the snapshot, and
\* so does one in the loop of run that is busy with another case of its select.
SendToClient(c) ==
    /\ c \in pending
    /\ pending' = pending \ {c}
    /\ LET listing == current[router[c]] IN
       \/ UNCHANGED <<state, endpoint>>
       \/ /\ state[c] = "select"
          /\ listing = Unlisted
          /\ state' = [state EXCEPT ![c] = "leaving"]
          /\ UNCHANGED endpoint
       \/ /\ state[c] = "select"
          /\ \E e \in Endpoint :
               /\ listing \in {e, UnusedPlan}
               /\ endpoint' = [endpoint EXCEPT ![c] = e]
               /\ state' = [state EXCEPT ![c] = IF e # endpoint[c] THEN "failed" ELSE @]
    /\ UNCHANGED <<registry, changes, buffer, current, tableVars, router, ctx,
                   details>>

-----------------------------------------------------------------------------
(* keepRouteTableUpToDate                                                  *)

\* Mutant: the entry is deleted but the client is not stopped.
TableApplyNoStop ==
    /\ pc = "apply"
    /\ existing' = [r \in Router |->
                      IF Wanted(snapshot[r]) THEN existing[r] ELSE None]
    /\ details' = [c \in Client |->
                     IF \E r \in Router : existing[r] = c /\ Wanted(snapshot[r])
                     THEN details[c] \cup {snapshot[router[c]]} ELSE details[c]]
    /\ pc' = "start"
    /\ UNCHANGED <<registry, changes, bcVars, snapshot, state, router, endpoint, ctx>>

\* Mutant: every client in the table is stopped, wanted or not.
TableApplyStopsAll ==
    /\ pc = "apply"
    /\ existing' = [r \in Router |->
                      IF Wanted(snapshot[r]) THEN existing[r] ELSE None]
    /\ ctx' = [c \in Client |->
                 IF \E r \in Router : existing[r] = c THEN "stopping" ELSE ctx[c]]
    /\ pc' = "start"
    /\ UNCHANGED <<registry, changes, bcVars, snapshot, state, router, endpoint, details>>

\* Stop and forget the clients of routers that are not wanted any more, and
\* send the details of the others in the background.
TableApply ==
    /\ pc = "apply"
    /\ existing' = [r \in Router |->
                      IF Wanted(snapshot[r]) THEN existing[r] ELSE None]
    /\ ctx' = [c \in Client |->
                 IF \E r \in Router : existing[r] = c /\ ~Wanted(snapshot[r])
                 THEN "stopping" ELSE ctx[c]]
    /\ details' = [c \in Client |->
                     IF \E r \in Router : existing[r] = c /\ Wanted(snapshot[r])
                     THEN details[c] \cup {snapshot[router[c]]} ELSE details[c]]
    /\ pc' = "start"
    /\ UNCHANGED <<registry, changes, bcVars, snapshot, state, router, endpoint>>

\* Mutant: clients are also started for plans that no gateway uses.
ToStartAnyPlan == {r \in Router : snapshot[r] # Unlisted /\ existing[r] = None}

\* The routers of the snapshot that still need a client.
ToStart == {r \in Router : Wanted(snapshot[r]) /\ existing[r] = None}

\* NewRouterClient, whose Subscribe waits for the broadcaster, and go Run.
StartClient(r, c) ==
    /\ pc = "start"
    /\ r \in ToStart
    /\ AtSelect
    /\ state[c] \in {"none", "ended"}
    /\ \A q \in Router : existing[q] # c
    /\ existing' = [existing EXCEPT ![r] = c]
    /\ state' = [state EXCEPT ![c] = "connect"]
    /\ router' = [router EXCEPT ![c] = r]
    /\ endpoint' = [endpoint EXCEPT ![c] = snapshot[r]]
    /\ ctx' = [ctx EXCEPT ![c] = "live"]
    /\ details' = [details EXCEPT ![c] = {}]
    /\ UNCHANGED <<registry, changes, bcVars, pc, snapshot>>

TableDone ==
    /\ pc = "start"
    /\ ToStart = {}
    /\ pc' = "select"
    /\ snapshot' = None
    /\ UNCHANGED <<registry, changes, bcVars, existing, clientVars>>

\* The goroutine of "go client.stop()" runs.
CancelContext(c) ==
    /\ ctx[c] = "stopping"
    /\ ctx' = [ctx EXCEPT ![c] = "cancelled"]
    /\ UNCHANGED <<registry, changes, bcVars, tableVars, state, router,
                   endpoint, details>>

-----------------------------------------------------------------------------
(* RouterClient.Run and run                                                *)

Goto(c, from, to) ==
    /\ state[c] = from
    /\ state' = [state EXCEPT ![c] = to]

\* The stream with the router is open; with a cancelled context opening fails.
Connected(c) ==
    /\ ctx[c] # "cancelled"
    /\ Goto(c, "connect", "select")
    /\ UNCHANGED <<registry, changes, bcVars, tableVars, router, endpoint, ctx,
                   details>>

\* Dialing or opening the stream fails, or an open stream breaks; the stream
\* breaks as well when the context is cancelled.  How soon a broken stream is
\* noticed is open: routerEventsChan ends on the codes Canceled, Unavailable and
\* Unknown only, and after another one it is the next Send that fails.
ConnectionLost(c) ==
    /\ Goto(c, "connect", "failed") \/ Goto(c, "select", "failed")
    /\ UNCHANGED <<registry, changes, bcVars, tableVars, router, endpoint, ctx,
                   details>>

\* The details of a blocked goroutine are taken.
TakeDetails(c, e) ==
    /\ e \in details[c]
    /\ details' = [details EXCEPT ![c] = @ \ {e}]
    /\ endpoint' = [endpoint EXCEPT ![c] = e]
    /\ UNCHANGED <<registry, changes, bcVars, tableVars, router, ctx>>

\* In the loop of run: with a new endpoint run returns nil, so Run returns.
DetailsInSelect(c, e) ==
    /\ state[c] = "select"
    /\ TakeDetails(c, e)
    /\ state' = [state EXCEPT ![c] = IF e # endpoint[c] THEN "leaving" ELSE @]

\* After run failed: take details if a goroutine waits with them (unless the
\* context is cancelled and that case is picked), else just back off.
DetailsAfterFailure(c, e) ==
    /\ Goto(c, "failed", "backoff")
    /\ TakeDetails(c, e)

BackOff(c) ==
    /\ details[c] = {} /\ ctx[c] # "cancelled"
    /\ Goto(c, "failed", "backoff")
    /\ UNCHANGED <<registry, changes, bcVars, tableVars, router, endpoint, ctx,
                   details>>

DetailsInBackOff(c, e) ==
    /\ state[c] = "backoff"
    /\ TakeDetails(c, e)
    /\ UNCHANGED state

Reconnect(c) ==
    /\ Goto(c, "backoff", "connect")
    /\ UNCHANGED <<registry, changes, bcVars, tableVars, router, endpoint, ctx,
                   details>>

\* Run sees that its context is cancelled and returns.
ContextDone(c) ==
    /\ ctx[c] = "cancelled"
    /\ Goto(c, "failed", "leaving") \/ Goto(c, "backoff", "leaving")
    /\ UNCHANGED <<registry, changes, bcVars, tableVars, router, endpoint, ctx,
                   details>>

\* The deferred Unsubscribe is served by the broadcaster.
UnsubscribeClient(c) ==
    /\ AtSelect
    /\ Goto(c, "leaving", "ended")
    /\ UNCHANGED <<registry, changes, bcVars, tableVars, router, endpoint, ctx,
                   details>>

-----------------------------------------------------------------------------
ClientStep(c) ==
    \/ SendToClient(c)
    \/ CancelContext(c)
    \/ Connected(c)
    \/ ConnectionLost(c)
    \/ \E e \in Endpoint : \/ DetailsInSelect(c, e)
                           \/ DetailsAfterFailure(c, e)
                           \/ DetailsInBackOff(c, e)
    \/ BackOff(c)
    \/ Reconnect(c)
    \/ ContextDone(c)
    \/ UnsubscribeClient(c)

Next ==
    \/ \E r \in Router : \E v \in Listings : RegistryChange(r, v)
    \/ Fetch
    \/ BroadcastTake
    \/ SendToTable
    \/ TableApply
    \/ \E r \in Router : \E c \in Client : StartClient(r, c)
    \/ TableDone
    \/ \E c \in Client : ClientStep(c)

Spec == Init /\ [][Next]_vars

\* Goroutines run whenever they can, select picks at random among its ready
\* cases, timers fire, a cancelled context breaks the stream, and now and then
\* fetching the routers succeeds.  Nothing is assumed of the registry and of
\* the connections with routers.
Fairness ==
    /\ WF_vars(Fetch)
    /\ WF_vars(BroadcastTake)
    /\ WF_vars(SendToTable)
    /\ WF_vars(TableApply \/ TableDone)
    /\ SF_vars(\E r \in Router : \E c \in Client : StartClient(r, c))
    /\ \A c \in Client :
         /\ WF_vars(SendToClient(c))
         /\ WF_vars(CancelContext(c))
         /\ WF_vars(ctx[c] = "cancelled" /\ ConnectionLost(c))
         /\ WF_vars(BackOff(c) \/ Reconnect(c)
                      \/ \E e \in Endpoint : DetailsAfterFailure(c, e))
         /\ SF_vars(ContextDone(c))
         /\ SF_vars(UnsubscribeClient(c))

FairSpec == Spec /\ Fairness

-----------------------------------------------------------------------------
(* Properties                                                              *)

\* A client that exchanges data is known to the table under its own router, or
\* the table has told it to stop: none keeps forwarding packets after its entry
\* was deleted, and no router is served by two clients for good.
NoOrphanClient ==
    \A c \in Client : Active(c) => existing[router[c]] = c \/ ctx[c] # "live"

\* A router that stays off the list (or on an unused plan) loses its client.
RemovedRouterDropped ==
    \A r \in Router :
        <>[](~Wanted(registry[r])) =>
            <>[](\A c \in Client : router[c] = r => ~Active(c))

\* Someone keeps up the connection with the router.
Served(r) == \E c \in Client : router[c] = r /\ Active(c)

\* The client in the table's entry ended although nobody told it to stop.
Abandoned(r) ==
    \E c \in Client : existing[r] = c /\ ctx[c] = "live" /\ state[c] \in {"leaving", "ended"}

\* "For each router a client is started that maintains the connection with the
\* router", which is to be "updated" with what is new of it (routes.go:207): a
\* router that stays registered is served again and again.
ListedRouterServed ==
    \A r \in Router : <>[](Wanted(registry[r])) => []<>Served(r)

\* A router that stays on the list is served for good from some time on, unless its
\* client gave up by itself and left its entry behind.  Nothing else costs a
\* router its connection: not a snapshot that the table or its client misses, a
\* broken stream, or that it was off the list, on an unused plan or elsewhere
\* before, while an older client was still leaving.
UnservedOnlyIfAbandoned ==
    \A r \in Router :
        <>[](Wanted(registry[r])) => <>[](Served(r) \/ Abandoned(r))

=============================================================================
