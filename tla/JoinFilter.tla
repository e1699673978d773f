----------------------------- MODULE JoinFilter -----------------------------
(***************************************************************************)
(* Which devices may join through a forwarder.  The router reads the       *)
(* devices of its ChirpStack in pages, while they change, and replaces its *)
(* join filter after each complete pass (router/joinfilter.go, the loop in *)
(* router/router.go).  A forwarder fetches the filter when it connects and *)
(* every 30 minutes after, in a goroutine of its own                       *)
(* (forwarder/router_client.go), and a join is passed on when the filter   *)
(* it has contains the device (forwarder/routes.go).                       *)
(*                                                                         *)
(* ChirpStack's tenants, applications and devices are numbers, listed in   *)
(* their order; the parent of a tenant is 0.  The filter is the set of     *)
(* devices that its bitmap holds: a router that knows no device serves     *)
(* neither a bitmap nor an xor filter, which is the empty set.  Default    *)
(* routers get every join and have no part here.                           *)
(***************************************************************************)
EXTENDS Integers, Sequences, FiniteSets

CONSTANTS
    Node,       \* tenants, applications and devices
    Parent,     \* the tenant of an application, the application of a device
    Device,
    PageSize,   \* limit of a listing (500 in the code)
    MaxFaults   \* bound: changes, failing calls, lost connections and restarts

Up(x) == IF x = 0 THEN 0 ELSE Parent[x]

\* Applications are below tenants and devices below applications.
ASSUME JoinFilterAssumption ==
    /\ Node \subseteq Nat \ {0} /\ IsFiniteSet(Node) /\ Device \subseteq Node
    /\ Parent \in [Node -> (Node \ Device) \cup {0}]
    /\ \A x \in Node : x \in Device <=> Up(Up(x)) # 0
    /\ PageSize \in Nat \ {0} /\ MaxFaults \in Nat

VARIABLES
    exist,      \* what ChirpStack has
    disabled,   \* devices that are disabled
    faults,     \* changes and failures so far
    pass,       \* where UpdateFilter is
    filter,     \* the router's filter
    connected,  \* whether the client has a connection
    rpc,        \* two goroutines of updateJoinFilter
    accepted    \* the forwarder's filter of this router

vars == <<exist, disabled, faults, pass, filter, connected, rpc, accepted>>
chirpstack == <<exist, disabled>>
client == <<connected, rpc, accepted>>

-----------------------------------------------------------------------------
\* A pass lists the children of a key from an offset on; the children found so
\* far; the devices of the page that it has to get; the keys to list after.  The
\* last four fields are no part of the program: the devices that could join all
\* through the pass, those that could at some time, those that it failed to get,
\* and whether something was deleted meanwhile.
Pass ==
    [st : {"idle", "list", "get", "swap"}, key : Node \cup {0}, offset : Nat,
     found : Seq(Node), page : Seq(Node), more : BOOLEAN, todo : Seq(Node),
     devs : SUBSET Device,
     steady : SUBSET Device, seen : SUBSET Device, missed : SUBSET Device,
     deleted : BOOLEAN]

Idle ==
    [st |-> "idle", key |-> 0, offset |-> 0, found |-> <<>>, page |-> <<>>,
     more |-> FALSE, todo |-> <<>>, devs |-> {}, steady |-> {}, seen |-> {},
     missed |-> {}, deleted |-> FALSE]

Slot == 1 .. 2

\* A goroutine waits for the router, has its filter, or is not there.
Rpc == [st : {"idle", "asked", "answered"}, filter : SUBSET Device]
NoRpc == [st |-> "idle", filter |-> {}]

TypeOK ==
    /\ exist \in SUBSET Node /\ disabled \in SUBSET Device
    /\ faults \in 0 .. MaxFaults
    /\ pass \in Pass
    /\ filter \in SUBSET Device
    /\ connected \in BOOLEAN
    /\ rpc \in [Slot -> Rpc]
    /\ accepted \in SUBSET Device
    /\ \A i, j \in Slot : rpc[i].st = "asked" =>
          connected /\ (rpc[j].st = "asked" => i = j)

\* The devices that ChirpStack lets join.
MayJoin == {d \in Device : d \in exist /\ d \notin disabled}

\* The first pass starts with the router; a forwarder has no filter yet.
Init ==
    /\ exist = Node /\ disabled = {}
    /\ faults = 0
    /\ pass = Idle
    /\ filter = {}
    /\ connected = FALSE
    /\ rpc = [i \in Slot |-> NoRpc]
    /\ accepted = {}

Fault == faults < MaxFaults /\ faults' = faults + 1

-----------------------------------------------------------------------------
(* ChirpStack                                                              *)

Below(x, y) == y \in {x, Up(x), Up(Up(x))}

\* What a change means for the pass that is under way.
Watch(may, deletes) ==
    pass' = [pass EXCEPT !.steady = @ \cap may, !.seen = @ \cup may,
                         !.deleted = @ \/ deletes]

Create(x) ==
    /\ Fault
    /\ x \notin exist /\ Parent[x] \in exist \cup {0}
    /\ exist' = exist \cup {x}
    /\ Watch({d \in Device : d \in exist' /\ d \notin disabled}, FALSE)
    /\ UNCHANGED <<disabled, filter, client>>

Delete(x) ==
    /\ Fault
    /\ x \in exist
    /\ exist' = {y \in exist : ~Below(y, x)}
    /\ Watch({d \in Device : d \in exist' /\ d \notin disabled}, TRUE)
    /\ UNCHANGED <<disabled, filter, client>>

Toggle(d) ==
    /\ Fault
    /\ disabled' = IF d \in disabled THEN disabled \ {d} ELSE disabled \cup {d}
    /\ Watch({e \in Device : e \in exist /\ e \notin disabled'}, FALSE)
    /\ UNCHANGED <<exist, filter, client>>

-----------------------------------------------------------------------------
(* The router                                                              *)

\* The place of x in a listing of S.
Rank(S, x) == Cardinality({y \in S : y < x})

\* What a listing of the children of a key returns from an offset on.
Listing(key) == {x \in exist : Parent[x] = key}
Page(key, offset) ==
    LET S == Listing(key)
        n == IF offset + PageSize < Cardinality(S) THEN PageSize ELSE Cardinality(S) - offset
    IN [i \in 1 .. n |-> CHOOSE x \in S : Rank(S, x) = offset + i - 1]

\* Mutant: a full page is taken for the last one.
HasMoreNever(page) == Len(page) > PageSize
HasMore(page) == Len(page) >= PageSize

\* The first pass starts with the router, the others when the ticker fires.
StartPass ==
    /\ pass.st = "idle"
    /\ pass' = [Idle EXCEPT !.st = "list", !.steady = MayJoin, !.seen = MayJoin]
    /\ UNCHANGED <<chirpstack, faults, filter, client>>

\* A key was listed to its end: the keys found are listed next, before those that
\* were found earlier.
NextKey(p) ==
    LET todo == p.found \o p.todo
    IN IF todo = <<>> THEN [p EXCEPT !.st = "swap", !.page = <<>>]
       ELSE [p EXCEPT !.st = "list", !.key = Head(todo), !.todo = Tail(todo),
                      !.offset = 0, !.found = <<>>, !.page = <<>>, !.more = FALSE]

\* getTenantIds, getApplicationIds, getDevEuisForApplication: the next page.
ListPage ==
    /\ pass.st = "list"
    /\ LET page == Page(pass.key, pass.offset)
           p == [pass EXCEPT !.offset = @ + Len(page), !.more = HasMore(page)]
       IN pass' = IF \E i \in DOMAIN page : page[i] \in Device
                  THEN [p EXCEPT !.st = "get", !.page = page]
                  ELSE LET q == [p EXCEPT !.found = @ \o page]
                       IN IF q.more THEN q ELSE NextKey(q)
    /\ UNCHANGED <<chirpstack, faults, filter, client>>

\* The devices of a page are asked for one after the other.
Got(p) ==
    IF Len(p.page) > 1 THEN [p EXCEPT !.page = Tail(@)]
    ELSE IF p.more THEN [p EXCEPT !.st = "list", !.page = <<>>] ELSE NextKey(p)

GetDevice ==
    /\ pass.st = "get"
    /\ LET d == Head(pass.page)
       IN pass' = Got([pass EXCEPT !.devs = IF d \in MayJoin THEN @ \cup {d} ELSE @])
    /\ UNCHANGED <<chirpstack, faults, filter, client>>

\* The call fails: the device is left out and the pass goes on.
GetFails ==
    /\ pass.st = "get"
    /\ Fault
    /\ pass' = Got([pass EXCEPT !.missed = @ \cup {Head(pass.page)}])
    /\ UNCHANGED <<chirpstack, filter, client>>

\* A listing fails, the deadline of the pass passes, or no filter or bitmap can
\* be made of the devices in the end: the old filter is kept.
PassFails ==
    /\ pass.st \in {"list", "swap"}
    /\ Fault
    /\ pass' = Idle
    /\ UNCHANGED <<chirpstack, filter, client>>

\* The end of UpdateFilter.
UpdateFilter ==
    /\ pass.st = "swap"
    /\ filter' = pass.devs
    /\ pass' = Idle
    /\ UNCHANGED <<chirpstack, faults, client>>

\* The router is started again and has no filter until its first pass is done.
Restart ==
    /\ Fault
    /\ filter' = {} /\ pass' = Idle
    /\ connected' = FALSE
    /\ rpc' = [i \in Slot |-> IF rpc[i].st = "asked" THEN NoRpc ELSE rpc[i]]
    /\ UNCHANGED <<chirpstack, accepted>>

-----------------------------------------------------------------------------
(* The forwarder's client of the router                                    *)

Ask(i) == rpc' = [rpc EXCEPT ![i] = [NoRpc EXCEPT !.st = "asked"]]

\* run, when it is connected; a goroutine of an earlier connection may still be
\* about to replace the filter.
Connect(i) ==
    /\ ~connected /\ rpc[i].st = "idle"
    /\ connected' = TRUE
    /\ Ask(i)
    /\ UNCHANGED <<chirpstack, faults, pass, filter, accepted>>

\* Mutant: the filter is only asked for while there is none.
RenewWithoutFilter(i) ==
    /\ connected /\ rpc[i].st = "idle" /\ accepted = {}
    /\ \A j \in Slot : rpc[j].st # "asked"
    /\ Ask(i)
    /\ UNCHANGED <<chirpstack, faults, pass, filter, connected, accepted>>

\* joinFilterRenewTicker; the last request has ended, by its timeout at the latest.
Renew(i) ==
    /\ connected /\ rpc[i].st = "idle"
    /\ \A j \in Slot : rpc[j].st # "asked"
    /\ Ask(i)
    /\ UNCHANGED <<chirpstack, faults, pass, filter, connected, accepted>>

\* Mutant: closing the connection leaves the request that is under way.
DisconnectKeepsRequest ==
    /\ connected /\ Fault
    /\ connected' = FALSE
    /\ UNCHANGED <<chirpstack, pass, filter, rpc, accepted>>

\* The connection is closed; a request that was not answered fails.
Disconnect ==
    /\ connected /\ Fault
    /\ connected' = FALSE
    /\ rpc' = [i \in Slot |-> IF rpc[i].st = "asked" THEN NoRpc ELSE rpc[i]]
    /\ UNCHANGED <<chirpstack, pass, filter, accepted>>

\* Router.JoinFilter, chirpstackGenerator.JoinFilter.
Answer(i) ==
    /\ rpc[i].st = "asked"
    /\ rpc' = [rpc EXCEPT ![i] = [st |-> "answered", filter |-> filter]]
    /\ UNCHANGED <<chirpstack, faults, pass, filter, connected, accepted>>

\* updateJoinFilter with an error or a timeout keeps the filter.
RpcFails(i) ==
    /\ rpc[i].st = "asked" /\ Fault
    /\ rpc' = [rpc EXCEPT ![i] = NoRpc]
    /\ UNCHANGED <<chirpstack, pass, filter, connected, accepted>>

\* updateJoinFilter, SetJoinFilter.
SetJoinFilter(i) ==
    /\ rpc[i].st = "answered"
    /\ accepted' = rpc[i].filter
    /\ rpc' = [rpc EXCEPT ![i] = NoRpc]
    /\ UNCHANGED <<chirpstack, faults, pass, filter, connected>>

\* Whether a join of a device is passed on to the router.
AcceptsJoin(d) == d \in accepted

-----------------------------------------------------------------------------
PassStep == StartPass \/ ListPage \/ GetDevice \/ UpdateFilter

Next ==
    \/ \E x \in Node : Create(x) \/ Delete(x)
    \/ \E d \in Device : Toggle(d)
    \/ PassStep \/ GetFails \/ PassFails \/ Restart
    \/ Disconnect
    \/ \E i \in Slot : \/ Connect(i) \/ Renew(i) \/ Answer(i) \/ RpcFails(i)
                       \/ SetJoinFilter(i)

Spec == Init /\ [][Next]_vars

\* The router renews its filter and the client asks for it for ever, as their
\* tickers make them do; a client reconnects (see RoutingTable).  Changes and
\* failures are bounded, that is, they come to an end.
FairSpec ==
    /\ Spec
    /\ WF_vars(PassStep)
    /\ WF_vars(\E i \in Slot : Connect(i) \/ Renew(i))
    /\ \A i \in Slot : WF_vars(Answer(i)) /\ WF_vars(SetJoinFilter(i))

-----------------------------------------------------------------------------
(* Properties                                                              *)

\* A new filter has every device that could join all through the pass, also when
\* others were created, disabled or enabled between two pages, unless ChirpStack
\* failed to return the device or something was deleted (which moves the later
\* entries of a listing under the offset); and it has no device that could not
\* join at any time of the pass.
FilterFaithful ==
    [][pass.st = "swap" /\ pass'.st = "idle" /\ faults' = faults =>
         /\ filter' \subseteq pass.seen
         /\ ~pass.deleted => pass.steady \ pass.missed \subseteq filter']_vars

\* Once devices no longer change and calls no longer fail, a forwarder passes on
\* the joins of exactly the devices that may join: whatever a restart, a pass
\* that missed devices or a late goroutine did to its filter is made good.
JoinsConverge == <>[](\A d \in Device : AcceptsJoin(d) <=> d \in MayJoin)

=============================================================================
