------------------------------ MODULE Exchange ------------------------------
(***************************************************************************)
(* What the forwarder's packet exchange does with what gateways send       *)
(* (forwarder/exchange.go): uplinks, joins, status events and tx acks of   *)
(* gateways in the store go to the routers, and packets of mappers         *)
(* (forwarder/mapper.go) are signed and delivered to the coverage mapping  *)
(* service of their region (forwarder/coverage_client.go), which may       *)
(* select the gateway to send a downlink that the mapper confirms with     *)
(* another packet.  What comes from a gateway that is not in the store is  *)
(* recorded: see UnknownGateway in GatewayStore.                           *)
(*                                                                         *)
(* Gateways have two ids of the same type (EUI-64): the backend uses the   *)
(* local one, routers the network one.  What the code drops changes        *)
(* nothing here and has no action: a packet that cannot be decoded, one    *)
(* that looks like a mapper's and has another length or a bad signature,   *)
(* an event the broadcaster has no room for, gateway statistics.           *)
(***************************************************************************)
EXTENDS Naturals, Sequences, FiniteSets

CONSTANTS
    Gateway,     \* local ids
    NetworkID,   \* network ids; one may equal a local id
    NetOf,       \* the network id of each gateway
    Mapper, Region,
    MaxSends,    \* bound: discovery packets and events for routers together
    CacheCap,    \* size of mapperRegionCache (64 in the code)
    MaxRefresh,  \* bound: changes of the coverage mapping index
    None         \* no packet, no gateway

ASSUME ExchangeAssumption ==
    /\ NetOf \in [Gateway -> NetworkID]
    /\ \A g, h \in Gateway : NetOf[g] = NetOf[h] => g = h
    /\ MaxSends \in Nat /\ MaxRefresh \in Nat
    /\ CacheCap \in Nat \ {0}
    /\ None \notin Gateway

VARIABLES
    known,        \* gateways in the store (see GatewayStore)
    toRouters,    \* events broadcast to the router clients
    answers,      \* downlinks of routers: the gateway meant, the one that got it
    regionCache,  \* mapperRegionCache, the most recently used mapper first
    index,        \* regions that have a service, as last fetched
    refreshes,    \* how often the index was replaced
    aired,        \* discovery packets: who sent it from where, or None
    confirmed,    \* discovery packets whose downlink reached the mapper
    task,         \* the goroutines that deliver receipts
    winner,       \* the gateway that the services selected for a packet
    sent          \* local ids of the gateways that were sent a packet's downlink

routing == <<toRouters, answers>>
radio == <<aired, confirmed>>
cover == <<index, refreshes>>
vars == <<known, routing, regionCache, cover, radio, task, winner, sent>>

-----------------------------------------------------------------------------
Packet == 1 .. MaxSends
Sending == [mapper : Mapper, region : Region]
Kind == {"discovery", "confirmation"}
Delivery == Kind \X Gateway \X Packet

\* The goroutine of a delivery: its receipt is to be posted to the service of a
\* region, was posted, was answered with a request to transmit, or is done with.
TaskState ==
    [st : {"none", "new", "posted", "selected", "done"}, region : Region \cup {None}]
NoTask == [st |-> "none", region |-> None]

\* The id that an event bears, and the gateway it came from.
Event == [kind : {"uplink", "join", "status", "ack"}, id : NetworkID \cup Gateway,
          from : Gateway]

TypeOK ==
    /\ known \in SUBSET Gateway
    /\ toRouters \in SUBSET Event
    /\ answers \in SUBSET (Gateway \X Gateway)
    /\ regionCache \in Seq(Sending) /\ Len(regionCache) <= CacheCap
    /\ \A i, j \in DOMAIN regionCache :
          regionCache[i].mapper = regionCache[j].mapper => i = j
    /\ index \in SUBSET Region /\ refreshes \in 0 .. MaxRefresh
    /\ aired \in [Packet -> Sending \cup {None}]
    /\ confirmed \in SUBSET Packet
    /\ task \in [Delivery -> TaskState]
    /\ winner \in [Packet -> Gateway \cup {None}]
    /\ sent \in [Packet -> Seq(Gateway)]

Init ==
    /\ known = {} /\ toRouters = {} /\ answers = {}
    /\ regionCache = <<>>
    /\ index = {} /\ refreshes = 0
    /\ aired = [p \in Packet |-> None]
    /\ confirmed = {}
    /\ task = [d \in Delivery |-> NoTask]
    /\ winner = [p \in Packet |-> None]
    /\ sent = [p \in Packet |-> <<>>]

\* The store's look-up by network id: the gateway, if there is one.
ByNetworkID(id) == {g \in known : NetOf[g] = id}

-----------------------------------------------------------------------------
(* Gateways and routers                                                    *)

\* A gateway is added to the store.
Add(g) ==
    /\ g \notin known
    /\ known' = known \cup {g}
    /\ UNCHANGED <<routing, regionCache, cover, radio, task, winner, sent>>

\* Mutant: an event leaves with the id that the gateway gave it.
toNetworkMissing(g) == g

\* localUplinkFrameToNetwork, localDownlinkTxAckToNetwork, GatewayInformation:
\* on the network a gateway is its network id.
toNetwork(g) == NetOf[g]

\* The bound on what happens.
MayHappen ==
    Cardinality({p \in Packet : aired[p] # None}) + Cardinality(toRouters) < MaxSends

Broadcast(kind, g) ==
    /\ g \in known /\ MayHappen
    /\ toRouters' = toRouters \cup {[kind |-> kind, id |-> toNetwork(g), from |-> g]}
    /\ UNCHANGED <<known, answers, regionCache, cover, radio, task, winner, sent>>

\* uplinkFrameCallback: data that is not a mapper's, joins and rejoins.
uplinkFrameCallback(g) == Broadcast("uplink", g) \/ Broadcast("join", g)
subscribeEvent(g) == Broadcast("status", g)
downlinkTxAck(g) == Broadcast("ack", g)

\* handleDownlinkFrame for a downlink a router sends to a gateway it heard of,
\* as networkDownlinkFrameToLocal addresses it; for an id that the store does
\* not know, as for one that does not decode, it is dropped, and so it is when
\* the backend refuses it.  (Assumed of routers: a frame for an unknown gateway
\* has an item, which is logged.)
handleDownlinkFrame(e) ==
    /\ e \in toRouters
    /\ \E g \in ByNetworkID(e.id) : answers' = answers \cup {<<e.from, g>>}
    /\ UNCHANGED <<known, toRouters, regionCache, cover, radio, task, winner, sent>>

-----------------------------------------------------------------------------
(* Mappers                                                                 *)

\* A mapper sends a discovery packet that any of the gateways may receive.
MapperSends(p, s) ==
    /\ aired[p] = None /\ MayHappen
    /\ \A q \in 1 .. (p - 1) : aired[q] # None
    /\ aired' = [aired EXCEPT ![p] = s]
    /\ UNCHANGED <<known, routing, regionCache, cover, confirmed, task, winner, sent>>

Positions(m) == {i \in DOMAIN regionCache : regionCache[i].mapper = m}

\* Mutant: the cache keeps every mapper it was given.
OverwrittenNone(m) ==
    IF Positions(m) # {} THEN CHOOSE i \in Positions(m) : TRUE
    ELSE Len(regionCache) + 1

\* lru.Cache.Add and Get put a mapper in front.  The entries up to its old
\* position move back by one; a new mapper in a full cache takes the last place.
Overwritten(m) ==
    IF Positions(m) # {} THEN CHOOSE i \in Positions(m) : TRUE
    ELSE IF Len(regionCache) < CacheCap THEN Len(regionCache) + 1 ELSE Len(regionCache)
ToFront(s) ==
    LET k == Overwritten(s.mapper)
        n == Len(regionCache)
    IN [i \in 1 .. (IF k > n THEN k ELSE n) |->
            IF i = 1 THEN s ELSE regionCache[IF i <= k THEN i - 1 ELSE i]]
CachedFor(m) == {regionCache[i] : i \in Positions(m)}

\* A goroutine delivers the packet.  Assumed of gateways and their network: a
\* packet is handed over once (the UDP backend would pass on a repeated PUSH_DATA).
Spawn(kind, g, p, r) ==
    /\ task[<<kind, g, p>>].st = "none"
    /\ task' = [task EXCEPT ![<<kind, g, p>>] = [st |-> "new", region |-> r]]

\* HandleMapperPacket with a discovery packet, up to the goroutine: the signature
\* tells the mapper, the position in the packet its region, which is cached.
handleDiscoveryPacket(g, p) ==
    /\ g \in known /\ aired[p] # None
    /\ regionCache' = ToFront(aired[p])
    /\ Spawn("discovery", g, p, aired[p].region)
    /\ UNCHANGED <<known, routing, cover, radio, winner, sent>>

\* Mutant: a mapper that is not in the cache gets the region of the last one.
ConfirmationAnyRegion(g, p) ==
    /\ g \in known /\ p \in confirmed
    /\ Len(regionCache) > 0
    /\ Spawn("confirmation", g, p, regionCache[1].region)
    /\ UNCHANGED <<known, routing, regionCache, cover, radio, winner, sent>>

\* HandleMapperPacket with a confirmation packet, up to the goroutine: it has no
\* position, its region is that of the mapper's last discovery packet; when
\* that is not cached the packet is dropped.
handleDownlinkConfirmationPacket(g, p) ==
    /\ g \in known /\ p \in confirmed
    /\ \E s \in CachedFor(aired[p].mapper) :
          /\ regionCache' = ToFront(s)
          /\ Spawn("confirmation", g, p, s.region)
    /\ UNCHANGED <<known, routing, cover, radio, winner, sent>>

-----------------------------------------------------------------------------
(* The coverage client                                                     *)

\* refreshCoverageMappingIndex replaces the index; a failure keeps it.
refreshCoverageMappingIndex ==
    /\ refreshes < MaxRefresh
    /\ refreshes' = refreshes + 1
    /\ index' \in SUBSET Region
    /\ UNCHANGED <<known, routing, regionCache, radio, task, winner, sent>>

Set(d, st) ==
    /\ task' = [task EXCEPT ![d].st = st]
    /\ UNCHANGED <<known, routing, regionCache, cover, radio>>

\* DeliverDiscoveryPacketReceipt, DeliverDownlinkConfirmationPacketReceipt: the
\* receipt is posted to the service that the index has for the region now.
Deliver(d) ==
    /\ task[d].st = "new"
    /\ Set(d, IF task[d].region \in index THEN "posted" ELSE "done")
    /\ UNCHANGED <<winner, sent>>

\* The services select at most one gateway for a discovery packet.
Selects(d) ==
    /\ d[1] = "discovery" /\ winner[d[3]] = None
    /\ winner' = [winner EXCEPT ![d[3]] = d[2]]

\* The service answers in time, with a request to transmit or without one.
Answer(d) ==
    /\ task[d].st = "posted"
    /\ \/ Set(d, "done") /\ UNCHANGED winner
       \/ Set(d, "selected") /\ Selects(d)
    /\ UNCHANGED sent

\* The request fails, the answer is an error, or 3 seconds have passed; the
\* service may have selected the gateway all the same.
Timeout(d) ==
    /\ task[d].st = "posted"
    /\ Set(d, "done")
    /\ UNCHANGED winner \/ Selects(d)
    /\ UNCHANGED sent

\* Mutant: the goroutine does not look whether there is a request to transmit.
TransmitUnasked(d) ==
    /\ task[d].st \in {"posted", "selected"} /\ d[1] = "discovery"
    /\ sent' = [sent EXCEPT ![d[3]] = Append(@, d[2])]
    /\ Set(d, "done")
    /\ UNCHANGED winner

\* The end of the goroutine: the downlink is for the network id of the frame and
\* goes through handleDownlinkFrame, which looks the gateway up again and whose
\* backend may refuse the frame.
Transmit(d) ==
    /\ task[d].st = "selected"
    /\ \/ \E g \in ByNetworkID(toNetwork(d[2])) :
            sent' = [sent EXCEPT ![d[3]] = Append(@, g)]
       \/ UNCHANGED sent
    /\ Set(d, "done")
    /\ UNCHANGED winner

\* The mapper receives the downlink and sends its confirmation.
MapperConfirms(p) ==
    /\ sent[p] # <<>> /\ p \notin confirmed
    /\ confirmed' = confirmed \cup {p}
    /\ UNCHANGED <<known, routing, regionCache, cover, aired, task, winner, sent>>

-----------------------------------------------------------------------------
TaskStep(d) == Deliver(d) \/ Answer(d) \/ Timeout(d) \/ Transmit(d)

Next ==
    \/ \E g \in Gateway : \/ Add(g) \/ uplinkFrameCallback(g)
                          \/ subscribeEvent(g) \/ downlinkTxAck(g)
    \/ \E e \in toRouters : handleDownlinkFrame(e)
    \/ \E p \in Packet, s \in Sending : MapperSends(p, s)
    \/ \E g \in Gateway, p \in Packet : \/ handleDiscoveryPacket(g, p)
                                        \/ handleDownlinkConfirmationPacket(g, p)
    \/ refreshCoverageMappingIndex
    \/ \E d \in Delivery : TaskStep(d)
    \/ \E p \in Packet : MapperConfirms(p)

Spec == Init /\ [][Next]_vars

-----------------------------------------------------------------------------
(* Properties                                                              *)

\* A downlink that a router sends in answer to what it got from a gateway goes
\* to that gateway, although local and network ids are of one type and the ids
\* of a frame are rewritten on both ways.
BackToSender == \A a \in answers : a[1] = a[2]

\* A mapper's discovery packet is answered by at most one downlink, sent by the
\* gateway that the services selected and that received the packet, whatever
\* other gateways of this forwarder deliver, time out or answer late.
OneDownlinkBySelected ==
    \A p \in Packet :
        /\ Len(sent[p]) <= 1
        /\ \A i \in DOMAIN sent[p] :
              /\ sent[p][i] = winner[p]
              /\ task[<<"discovery", winner[p], p>>].st = "done"

\* A confirmation is delivered to the service of a region from which its mapper
\* sent a discovery packet that a gateway of this forwarder received, although
\* the region cache is shared by all mappers and drops the oldest.
ConfirmedInOwnRegion ==
    \A g \in Gateway, p \in Packet :
        LET t == task[<<"confirmation", g, p>>] IN
        t.st # "none" =>
            \E q \in Packet, h \in Gateway :
                /\ aired[q] = [mapper |-> aired[p].mapper, region |-> t.region]
                /\ task[<<"discovery", h, q>>].st # "none"

=============================================================================
