------------------------- MODULE RoutingTableProofs -------------------------
(***************************************************************************)
(* No client outlives its entry in the routing table, for any number of    *)
(* routers, endpoints and clients.                                         *)
(***************************************************************************)
EXTENDS RoutingTable, TLAPS

\* An entry of existingRouters holds a client of that router, which nobody told
\* to stop (its Run may have returned all the same).
EntryHoldsClient ==
    \A r \in Router :
        existing[r] # None =>
            /\ router[existing[r]] = r
            /\ ctx[existing[r]] = "live"

\* An active client has a router.
ActiveHasRouter == \A c \in Client : Active(c) => router[c] \in Router

IInv == TypeOK /\ EntryHoldsClient /\ ActiveHasRouter /\ NoOrphanClient

-----------------------------------------------------------------------------
\* The initial states satisfy the invariant.
LEMMA InitIInv == Init => IInv
<1> SUFFICES ASSUME Init PROVE IInv
  OBVIOUS
<1> USE ListingsAssumption, ClientAssumption, ChangesAssumption DEF Init
<1>1. registry \in Snapshot
  BY DEF Snapshot
<1>2. TypeOK
  BY <1>1 DEF TypeOK, ClientState
<1>3. EntryHoldsClient /\ ActiveHasRouter /\ NoOrphanClient
  BY DEF EntryHoldsClient, ActiveHasRouter, NoOrphanClient, Active
<1>4. QED
  BY <1>2, <1>3 DEF IInv

\* A step that leaves the entries, the routers of clients and their contexts
\* alone keeps the invariant if it activates no client.
LEMMA QuietStep ==
    ASSUME IInv, TypeOK', UNCHANGED <<existing, router, ctx>>,
           \A c \in Client : Active(c)' => Active(c)
    PROVE  IInv'
BY DEF IInv, EntryHoldsClient, ActiveHasRouter, NoOrphanClient

\* Every step of the registry, the broadcaster, the table or a client keeps
\* the invariant.
LEMMA NextIInv == IInv /\ [Next]_vars => IInv'
<1> SUFFICES ASSUME IInv, [Next]_vars PROVE IInv'
  OBVIOUS
<1> USE ClientAssumption, ListingsAssumption, ChangesAssumption
    DEF TypeOK, ClientState, Snapshot
<1>0. TypeOK /\ EntryHoldsClient /\ ActiveHasRouter /\ NoOrphanClient
  BY DEF IInv
<1>1. ASSUME NEW r \in Router, NEW v \in Listings, RegistryChange(r, v) PROVE IInv'
  <2>1. registry' \in Snapshot /\ changes' \in 0 .. MaxChanges
    BY <1>0, <1>1 DEF RegistryChange
  <2>2. TypeOK' /\ UNCHANGED <<existing, router, ctx, state>>
    BY <1>0, <1>1, <2>1 DEF RegistryChange, bcVars, tableVars, clientVars
  <2>3. QED
    BY <2>2, QuietStep DEF Active
<1>2. ASSUME Fetch PROVE IInv'
  <2>1. TypeOK' /\ UNCHANGED <<existing, router, ctx, state>>
    BY <1>0, <1>2 DEF Fetch, tableVars, clientVars
  <2>2. QED
    BY <2>1, QuietStep DEF Active
<1>3. ASSUME BroadcastTake PROVE IInv'
  <2>1. TypeOK' /\ UNCHANGED <<existing, router, ctx, state>>
    BY <1>0, <1>3 DEF BroadcastTake, Subscribed, tableVars, clientVars
  <2>2. QED
    BY <2>1, QuietStep DEF Active
<1>4. ASSUME SendToTable PROVE IInv'
  <2>1. TypeOK' /\ UNCHANGED <<existing, router, ctx, state>>
    BY <1>0, <1>4 DEF SendToTable, clientVars
  <2>2. QED
    BY <2>1, QuietStep DEF Active
<1>5. ASSUME TableApply PROVE IInv'
  <2>1. \A r \in Router, c \in Client :
           existing[r] = c => c # None /\ router[c] = r
    BY <1>0 DEF EntryHoldsClient
  <2>2. details' \in [Client -> SUBSET Endpoint]
    <3> SUFFICES ASSUME NEW c \in Client PROVE details'[c] \subseteq Endpoint
      BY <1>0, <1>5 DEF TableApply
    <3>1. CASE \E r \in Router : existing[r] = c /\ Wanted(snapshot[r])
      <4>1. snapshot[router[c]] \in Endpoint
        BY <2>1, <3>1 DEF Wanted
      <4>2. QED
        BY <1>0, <1>5, <3>1, <4>1 DEF TableApply
    <3>2. CASE ~ \E r \in Router : existing[r] = c /\ Wanted(snapshot[r])
      BY <1>0, <1>5, <3>2 DEF TableApply
    <3>3. QED
      BY <3>1, <3>2
  <2>3. ctx' \in [Client -> {"live", "stopping", "cancelled"}]
        /\ existing' \in [Router -> Client \cup {None}]
    BY <1>0, <1>5 DEF TableApply
  <2>4. TypeOK'
    BY <1>0, <1>5, <2>2, <2>3 DEF TableApply, bcVars
  <2>5. EntryHoldsClient'
    <3> SUFFICES ASSUME NEW r \in Router, existing'[r] # None
                 PROVE  router'[existing'[r]] = r /\ ctx'[existing'[r]] = "live"
      BY DEF EntryHoldsClient
    <3>1. Wanted(snapshot[r]) /\ existing'[r] = existing[r] /\ existing[r] \in Client
      BY <1>0, <1>5 DEF TableApply
    <3>2. ~ \E q \in Router : existing[q] = existing[r] /\ ~Wanted(snapshot[q])
      BY <2>1, <3>1
    <3>3. QED
      BY <1>0, <1>5, <3>1, <3>2 DEF TableApply, EntryHoldsClient
  <2>6. NoOrphanClient'
    <3> SUFFICES ASSUME NEW c \in Client, Active(c)', ctx'[c] = "live"
                 PROVE  existing'[router'[c]] = c
      BY <1>5 DEF NoOrphanClient
    <3>1. Active(c) /\ ctx[c] = "live" /\ router' = router
          /\ ~ \E r \in Router : existing[r] = c /\ ~Wanted(snapshot[r])
      BY <1>0, <1>5 DEF TableApply, Active
    <3>2. existing[router[c]] = c
      BY <1>0, <3>1 DEF NoOrphanClient
    <3>3. router[c] \in Router
      BY <1>0, <3>1 DEF ActiveHasRouter
    <3>4. QED
      BY <1>5, <3>1, <3>2, <3>3 DEF TableApply
  <2>7. ActiveHasRouter'
    BY <1>0, <1>5 DEF TableApply, ActiveHasRouter, Active
  <2>8. QED
    BY <2>4, <2>5, <2>6, <2>7 DEF IInv
<1>6. ASSUME NEW r \in Router, NEW c \in Client, StartClient(r, c) PROVE IInv'
  <2>1. snapshot[r] \in Endpoint /\ \A q \in Router : existing[q] # c
    BY <1>6 DEF StartClient, ToStart, Wanted
  <2>2. TypeOK'
    BY <1>0, <1>6, <2>1 DEF StartClient, bcVars
  <2>3. EntryHoldsClient'
    BY <1>0, <1>6, <2>1 DEF StartClient, EntryHoldsClient
  <2>4. ActiveHasRouter'
    BY <1>0, <1>6 DEF StartClient, ActiveHasRouter, Active
  <2>5. NoOrphanClient'
    <3> SUFFICES ASSUME NEW d \in Client, Active(d)', ctx'[d] = "live"
                 PROVE  existing'[router'[d]] = d
      BY DEF NoOrphanClient
    <3>1. CASE d = c
      BY <1>0, <1>6, <3>1 DEF StartClient
    <3>2. CASE d # c
      <4>1. Active(d) /\ ctx[d] = "live" /\ router'[d] = router[d]
        BY <1>0, <1>6, <3>2 DEF StartClient, Active
      <4>2. existing[router[d]] = d /\ router[d] \in Router
        BY <1>0, <4>1 DEF NoOrphanClient, ActiveHasRouter
      <4>3. router[d] # r
        BY <1>6, <4>2 DEF StartClient, ToStart
      <4>4. QED
        BY <1>0, <1>6, <4>1, <4>2, <4>3 DEF StartClient
    <3>3. QED
      BY <3>1, <3>2
  <2>6. QED
    BY <2>2, <2>3, <2>4, <2>5 DEF IInv
<1>7. ASSUME TableDone PROVE IInv'
  <2>1. TypeOK' /\ UNCHANGED <<existing, router, ctx, state>>
    BY <1>0, <1>7 DEF TableDone, bcVars, clientVars
  <2>2. QED
    BY <2>1, QuietStep DEF Active
<1>8. ASSUME NEW c \in Client, SendToClient(c) PROVE IInv'
  <2>1. state' \in [Client -> ClientState] /\ endpoint' \in [Client -> Endpoint \cup {None}]
    BY <1>0, <1>8 DEF SendToClient
  <2>2. TypeOK' /\ UNCHANGED <<existing, router, ctx>>
    BY <1>0, <1>8, <2>1 DEF SendToClient, tableVars
  <2>3. \A d \in Client : Active(d)' => Active(d)
    BY <1>0, <1>8 DEF SendToClient, Active
  <2>4. QED
    BY <2>2, <2>3, QuietStep
<1>9. ASSUME NEW c \in Client, CancelContext(c) PROVE IInv'
  <2>1. TypeOK'
    BY <1>0, <1>9 DEF CancelContext, bcVars, tableVars
  <2>2. EntryHoldsClient' /\ ActiveHasRouter' /\ NoOrphanClient'
    BY <1>0, <1>9 DEF CancelContext, tableVars, EntryHoldsClient, ActiveHasRouter,
                      NoOrphanClient, Active
  <2>3. QED
    BY <2>1, <2>2 DEF IInv
<1>10. ASSUME NEW c \in Client,
              \/ Connected(c) \/ ConnectionLost(c) \/ BackOff(c) \/ Reconnect(c)
              \/ ContextDone(c) \/ UnsubscribeClient(c)
       PROVE  IInv'
  <2>1. UNCHANGED <<registry, changes, bcVars, tableVars, router, endpoint, ctx, details>>
    BY <1>10 DEF Connected, ConnectionLost, BackOff, Reconnect, ContextDone, UnsubscribeClient
  <2>2. \E from, to \in ClientState :
           Goto(c, from, to) /\ (to \in {"connect", "select", "failed", "backoff"} =>
                                   from \in {"connect", "select", "failed", "backoff"})
    BY <1>10 DEF Connected, ConnectionLost, BackOff, Reconnect, ContextDone, UnsubscribeClient
  <2>3. state' \in [Client -> ClientState] /\ \A d \in Client : Active(d)' => Active(d)
    BY <1>0, <2>2 DEF Goto, Active
  <2>4. TypeOK' /\ UNCHANGED <<existing, router, ctx>>
    BY <1>0, <2>1, <2>3 DEF bcVars, tableVars
  <2>5. QED
    BY <2>3, <2>4, QuietStep
<1>11. ASSUME NEW c \in Client, NEW e \in Endpoint,
              DetailsInSelect(c, e) \/ DetailsAfterFailure(c, e) \/ DetailsInBackOff(c, e)
       PROVE  IInv'
  <2>1. TakeDetails(c, e)
    BY <1>11 DEF DetailsInSelect, DetailsAfterFailure, DetailsInBackOff
  <2>2. state' \in [Client -> ClientState] /\ \A d \in Client : Active(d)' => Active(d)
    BY <1>0, <1>11 DEF DetailsInSelect, DetailsAfterFailure, DetailsInBackOff, Goto,
                       TakeDetails, Active
  <2>3. TypeOK' /\ UNCHANGED <<existing, router, ctx>>
    BY <1>0, <2>1, <2>2 DEF TakeDetails, bcVars, tableVars
  <2>4. QED
    BY <2>2, <2>3, QuietStep
<1>12. CASE UNCHANGED vars
  <2>1. TypeOK' /\ UNCHANGED <<existing, router, ctx, state>>
    BY <1>0, <1>12 DEF vars
  <2>2. QED
    BY <2>1, QuietStep DEF Active
<1>13. QED
  BY <1>1, <1>2, <1>3, <1>4, <1>5, <1>6, <1>7, <1>8, <1>9, <1>10, <1>11, <1>12
  DEF Next, ClientStep

-----------------------------------------------------------------------------
\* The inductive invariant holds in every reachable state.
THEOREM RoutingTableInvariant == Spec => []IInv
  BY InitIInv, NextIInv, PTL DEF Spec

\* keepRouteTableUpToDate deletes no entry without stopping its client, and no
\* router has two clients that both go on.
THEOREM NoOrphans == Spec => []NoOrphanClient
<1>1. IInv => NoOrphanClient
  BY DEF IInv
<1>2. QED
  BY RoutingTableInvariant, <1>1, PTL

\* Every variable of the routing table keeps its type.
THEOREM RoutingTableTypeOK == Spec => []TypeOK
<1>1. IInv => TypeOK
  BY DEF IInv
<1>2. QED
  BY RoutingTableInvariant, <1>1, PTL

=============================================================================
