--------------------------- MODULE ExchangeProofs ---------------------------
(***************************************************************************)
(* Proofs about the packet exchange, for every set of gateways, mappers    *)
(* and regions, every size of the region cache and every bound.            *)
(***************************************************************************)
EXTENDS Exchange, TLAPS

-----------------------------------------------------------------------------
\* An event bears the network id of the gateway that it came from.
EventsNamed == \A e \in toRouters : e.id = NetOf[e.from]

\* A goroutine that has a request to transmit is that of the selected gateway, and
\* the downlink was not sent yet; only discovery packets are answered so.
SelectedIsWinner ==
    \A d \in Delivery : task[d].st = "selected" =>
        d[1] = "discovery" /\ winner[d[3]] = d[2] /\ sent[d[3]] = <<>>

\* The services select before a downlink is sent.
SentIsSelected == \A p \in Packet : winner[p] = None => sent[p] = <<>>

\* What a gateway received was sent.
ReceivedWasAired ==
    \A d \in Delivery : task[d].st # "none" => aired[d[3]] # None

\* A packet is confirmed after its downlink was sent.
ConfirmedWasSent == \A p \in confirmed : sent[p] # <<>>

\* The cache holds discovery packets that a gateway received.
CacheReceived ==
    \A i \in DOMAIN regionCache :
        \E q \in Packet, h \in Gateway :
            aired[q] = regionCache[i] /\ task[<<"discovery", h, q>>].st # "none"

IInv ==
    /\ TypeOK /\ EventsNamed /\ SelectedIsWinner /\ SentIsSelected
    /\ ReceivedWasAired /\ ConfirmedWasSent /\ CacheReceived
    /\ BackToSender /\ OneDownlinkBySelected /\ ConfirmedInOwnRegion

-----------------------------------------------------------------------------
\* Putting a discovery packet in front of the region cache keeps the cache within
\* its size, with one entry per mapper, and adds nothing but that packet.
LEMMA ToFrontType ==
    ASSUME TypeOK, NEW s \in Sending
    PROVE  /\ ToFront(s) \in Seq(Sending) /\ Len(ToFront(s)) <= CacheCap
           /\ \A i, j \in DOMAIN ToFront(s) :
                 ToFront(s)[i].mapper = ToFront(s)[j].mapper => i = j
           /\ \A i \in DOMAIN ToFront(s) :
                 \/ ToFront(s)[i] = s
                 \/ \E j \in DOMAIN regionCache : ToFront(s)[i] = regionCache[j]
<1> DEFINE n == Len(regionCache)
           k == Overwritten(s.mapper)
           m == IF k > n THEN k ELSE n
           f == ToFront(s)
<1>1. /\ n \in Nat /\ n <= CacheCap /\ DOMAIN regionCache = 1 .. n
      /\ \A i \in 1 .. n : regionCache[i] \in Sending
      /\ \A i, j \in 1 .. n : regionCache[i].mapper = regionCache[j].mapper => i = j
  BY DEF TypeOK
<1>2. /\ k \in 1 .. (n + 1) /\ m \in Nat /\ m <= CacheCap /\ m >= k /\ m >= n /\ m <= n + 1
      /\ \A i \in 1 .. n : regionCache[i].mapper = s.mapper => i = k
      /\ m > n => k = m
  <2>1. CASE Positions(s.mapper) # {}
    BY <1>1, <2>1, ExchangeAssumption DEF Overwritten, Positions
  <2>2. CASE Positions(s.mapper) = {}
    <3>1. k = IF n < CacheCap THEN n + 1 ELSE n
      BY <2>2 DEF Overwritten
    <3>2. \A i \in 1 .. n : regionCache[i].mapper # s.mapper
      BY <1>1, <2>2 DEF Positions
    <3>3. CacheCap \in Nat /\ CacheCap >= 1
      BY ExchangeAssumption
    <3> HIDE DEF k, n
    <3> QED BY <1>1, <3>1, <3>2, <3>3
  <2> QED BY <2>1, <2>2
<1>3. f = [i \in 1 .. m |-> IF i = 1 THEN s ELSE regionCache[IF i <= k THEN i - 1 ELSE i]]
  BY DEF ToFront
<1>4. \A i \in 1 .. m : i # 1 =>
          /\ (IF i <= k THEN i - 1 ELSE i) \in 1 .. n
          /\ f[i] = regionCache[IF i <= k THEN i - 1 ELSE i]
  BY <1>1, <1>2, <1>3
<1>5. m >= 1 /\ f[1] = s
  BY <1>1, <1>2, <1>3
<1> HIDE DEF n, k, m, f
<1>6. \A i \in 1 .. m : f[i] \in Sending
  BY <1>1, <1>4, <1>5
<1>7. f \in Seq(Sending) /\ Len(f) = m /\ DOMAIN f = 1 .. m
  BY <1>2, <1>3, <1>6
<1>8. \A i, j \in 1 .. m : f[i].mapper = f[j].mapper => i = j
  <2> SUFFICES ASSUME NEW i \in 1 .. m, NEW j \in 1 .. m, f[i].mapper = f[j].mapper
               PROVE  i = j
    OBVIOUS
  <2>1. CASE i = 1 /\ j = 1
    BY <2>1
  <2>2. CASE i # 1 /\ j # 1
    BY <1>1, <1>2, <1>4, <2>2
  <2>3. CASE i = 1 /\ j # 1
    BY <1>1, <1>2, <1>4, <1>5, <2>3
  <2>4. CASE i # 1 /\ j = 1
    BY <1>1, <1>2, <1>4, <1>5, <2>4
  <2> QED BY <2>1, <2>2, <2>3, <2>4
<1>9. \A i \in 1 .. m : f[i] = s \/ \E j \in DOMAIN regionCache : f[i] = regionCache[j]
  BY <1>1, <1>4, <1>5
<1> QED BY <1>2, <1>7, <1>8, <1>9 DEF f

\* In the initial state nothing was received, sent or selected.
LEMMA InitInv == Init => IInv
<1> SUFFICES ASSUME Init PROVE IInv
  OBVIOUS
<1>1. TypeOK
  BY ExchangeAssumption DEF Init, TypeOK, TaskState, NoTask
<1>2. EventsNamed /\ SelectedIsWinner /\ SentIsSelected /\ ReceivedWasAired
      /\ ConfirmedWasSent /\ CacheReceived
  BY DEF Init, NoTask, EventsNamed, SelectedIsWinner, SentIsSelected,
         ReceivedWasAired, ConfirmedWasSent, CacheReceived
<1>3. BackToSender /\ OneDownlinkBySelected /\ ConfirmedInOwnRegion
  BY DEF Init, NoTask, BackToSender, OneDownlinkBySelected, ConfirmedInOwnRegion,
         Delivery, Kind
<1> QED BY <1>1, <1>2, <1>3 DEF IInv

\* Steps that leave the mappers' part alone: the store, the routers, the index.
LEMMA RoutingStep ==
    ASSUME IInv, UNCHANGED <<regionCache, radio, task, winner, sent>>,
           TypeOK', EventsNamed', BackToSender'
    PROVE  IInv'
<1>1. /\ SelectedIsWinner' /\ SentIsSelected' /\ ReceivedWasAired'
      /\ ConfirmedWasSent' /\ CacheReceived'
  BY DEF IInv, radio, SelectedIsWinner, SentIsSelected, ReceivedWasAired,
         ConfirmedWasSent, CacheReceived
<1>2. OneDownlinkBySelected'
  BY DEF IInv, OneDownlinkBySelected
<1>3. ConfirmedInOwnRegion'
  BY DEF IInv, radio, ConfirmedInOwnRegion
<1> QED BY <1>1, <1>2, <1>3 DEF IInv

\* Steps that leave what routers get and send alone keep what is said of it.
LEMMA RoutersUntouched ==
    ASSUME IInv, UNCHANGED <<known, routing>>
    PROVE  EventsNamed' /\ BackToSender'
  BY DEF IInv, routing, EventsNamed, BackToSender

\* Reception: a goroutine starts for a packet that was sent, and the packet of a
\* mapper is put in front of the cache.
LEMMA SpawnStep ==
    ASSUME IInv, NEW kind \in Kind, NEW g \in Gateway, NEW p \in Packet, NEW s \in Sending,
           Spawn(kind, g, p, s.region), aired[p] # None, regionCache' = ToFront(s),
           UNCHANGED <<known, routing, cover, radio, winner, sent>>,
           \/ kind = "discovery" /\ s = aired[p]
           \/ /\ kind = "confirmation" /\ s.mapper = aired[p].mapper
              /\ \E j \in DOMAIN regionCache : s = regionCache[j]
    PROVE  IInv'
<1> DEFINE d == <<kind, g, p>>
<1>0. TypeOK /\ d \in Delivery /\ task[d].st = "none"
  BY DEF IInv, Spawn, Delivery
<1>1. task' = [task EXCEPT ![d] = [st |-> "new", region |-> s.region]]
  BY DEF Spawn
<1>2. /\ task' \in [Delivery -> TaskState] /\ task'[d].st = "new"
      /\ task'[d].region = s.region
      /\ \A e \in Delivery : e # d => task'[e] = task[e]
      /\ \A e \in Delivery : task[e].st # "none" => e # d /\ task'[e] = task[e]
  BY <1>0, <1>1 DEF TypeOK, TaskState, Sending
<1> HIDE DEF d
<1>3. TypeOK'
  BY <1>0, <1>2, ToFrontType DEF TypeOK, routing, cover, radio
<1>4. EventsNamed' /\ BackToSender'
  BY RoutersUntouched
<1>5. SelectedIsWinner'
  BY <1>0, <1>2 DEF IInv, SelectedIsWinner
<1>6. SentIsSelected' /\ ConfirmedWasSent'
  BY DEF IInv, SentIsSelected, ConfirmedWasSent, radio
<1>7. ReceivedWasAired'
  BY <1>0, <1>2 DEF IInv, ReceivedWasAired, radio, d
<1>8. OneDownlinkBySelected'
  <2> SUFFICES ASSUME NEW q \in Packet, NEW i \in DOMAIN sent[q]
               PROVE  task'[<<"discovery", winner[q], q>>].st = "done"
    BY DEF IInv, OneDownlinkBySelected
  <2>1. sent[q][i] = winner[q] /\ sent[q] \in Seq(Gateway)
    BY <1>0 DEF IInv, OneDownlinkBySelected, TypeOK
  <2>2. <<"discovery", winner[q], q>> \in Delivery
    BY <2>1 DEF Delivery, Kind
  <2>3. task[<<"discovery", winner[q], q>>].st = "done"
    BY DEF IInv, OneDownlinkBySelected
  <2> QED BY <1>2, <2>2, <2>3
<1>9. \A q \in Packet, h \in Gateway :
          task[<<"discovery", h, q>>].st # "none" => task'[<<"discovery", h, q>>].st # "none"
  BY <1>2 DEF Delivery, Kind
<1>10. ASSUME NEW j \in DOMAIN regionCache
       PROVE  \E q \in Packet, h \in Gateway :
                 aired[q] = regionCache[j] /\ task'[<<"discovery", h, q>>].st # "none"
  <2>1. PICK q \in Packet, h \in Gateway :
            aired[q] = regionCache[j] /\ task[<<"discovery", h, q>>].st # "none"
    BY DEF IInv, CacheReceived
  <2> QED BY <1>9, <2>1
<1>11. \E q \in Packet, h \in Gateway :
          aired[q] = s /\ task'[<<"discovery", h, q>>].st # "none"
  <2>1. CASE kind = "discovery" /\ s = aired[p]
    BY <1>2, <2>1 DEF d
  <2>2. CASE kind = "confirmation" /\ \E j \in DOMAIN regionCache : s = regionCache[j]
    <3>1. PICK j \in DOMAIN regionCache : s = regionCache[j]
      BY <2>2
    <3> QED BY <1>10, <3>1
  <2> QED BY <2>1, <2>2
<1>12. CacheReceived'
  <2> SUFFICES ASSUME NEW i \in DOMAIN ToFront(s)
               PROVE  \E q \in Packet, h \in Gateway :
                         aired[q] = ToFront(s)[i] /\ task'[<<"discovery", h, q>>].st # "none"
    BY DEF CacheReceived, radio
  <2>0. ToFront(s)[i] = s \/ \E j \in DOMAIN regionCache : ToFront(s)[i] = regionCache[j]
    BY <1>0, ToFrontType
  <2>1. CASE ToFront(s)[i] = s
    BY <1>11, <2>1
  <2>2. CASE \E j \in DOMAIN regionCache : ToFront(s)[i] = regionCache[j]
    <3>1. PICK j \in DOMAIN regionCache : ToFront(s)[i] = regionCache[j]
      BY <2>2
    <3>2. \E q \in Packet, h \in Gateway :
              aired[q] = regionCache[j] /\ task'[<<"discovery", h, q>>].st # "none"
      BY <1>10
    <3> QED BY <3>1, <3>2
  <2> QED BY <2>0, <2>1, <2>2
<1>13. ConfirmedInOwnRegion'
  <2> SUFFICES ASSUME NEW h \in Gateway, NEW q \in Packet,
                      task'[<<"confirmation", h, q>>].st # "none"
               PROVE  \E q2 \in Packet, h2 \in Gateway :
                        /\ aired[q2] = [mapper |-> aired[q].mapper,
                                        region |-> task'[<<"confirmation", h, q>>].region]
                        /\ task'[<<"discovery", h2, q2>>].st # "none"
    <3>1. aired' = aired
      BY DEF radio
    <3> QED BY <3>1 DEF ConfirmedInOwnRegion
  <2>1. CASE <<"confirmation", h, q>> = d
    <3>1. kind = "confirmation" /\ q = p /\ s.mapper = aired[p].mapper
      BY <2>1 DEF d
    <3>2. s = [mapper |-> aired[q].mapper, region |-> task'[<<"confirmation", h, q>>].region]
      BY <1>2, <2>1, <3>1 DEF Sending
    <3> QED BY <1>11, <3>2
  <2>2. CASE <<"confirmation", h, q>> # d
    <3>1. task'[<<"confirmation", h, q>>] = task[<<"confirmation", h, q>>]
      BY <1>2, <2>2 DEF Delivery, Kind
    <3> QED BY <1>9, <3>1 DEF IInv, ConfirmedInOwnRegion
  <2> QED BY <2>1, <2>2
<1> QED BY <1>3, <1>4, <1>5, <1>6, <1>7, <1>8, <1>12, <1>13 DEF IInv

\* A step of a goroutine that exists: its state changes, and perhaps who was
\* selected for its packet and what was sent.
LEMMA GoroutineStep ==
    ASSUME IInv, NEW d \in Delivery, NEW st \in {"posted", "selected", "done"},
           task[d].st \in {"new", "posted", "selected"}, Set(d, st),
           \/ UNCHANGED winner /\ (st # "selected")
           \/ UNCHANGED sent /\ Selects(d),
           \/ UNCHANGED sent
           \/ /\ task[d].st = "selected" /\ st = "done"
              /\ sent' = [sent EXCEPT ![d[3]] = Append(@, d[2])]
    PROVE  IInv'
<1> DEFINE p == d[3]
           g == d[2]
<1>0. TypeOK /\ p \in Packet /\ g \in Gateway /\ d = <<d[1], g, p>> /\ d[1] \in Kind
  BY DEF IInv, Delivery
<1>1. UNCHANGED <<known, routing, regionCache, cover, radio>>
  BY DEF Set
<1>2. /\ task' \in [Delivery -> TaskState] /\ task'[d].st = st
      /\ \A e \in Delivery : /\ task'[e].region = task[e].region
                             /\ e # d => task'[e] = task[e]
                             /\ task'[e].st # "none" <=> task[e].st # "none"
                             /\ task[e].st = "done" => task'[e].st = "done"
  BY <1>0 DEF Set, TypeOK, TaskState
<1>3. /\ winner' \in [Packet -> Gateway \cup {None}]
      /\ sent' \in [Packet -> Seq(Gateway)]
      /\ \A q \in Packet : q # p => winner'[q] = winner[q] /\ sent'[q] = sent[q]
  <2>1. /\ winner' \in [Packet -> Gateway \cup {None}]
        /\ \A q \in Packet : q # p => winner'[q] = winner[q]
    BY <1>0 DEF Selects, TypeOK
  <2>2. CASE UNCHANGED sent
    BY <1>0, <2>1, <2>2 DEF TypeOK
  <2>3. CASE sent' = [sent EXCEPT ![d[3]] = Append(@, d[2])]
    <3>1. sent \in [Packet -> Seq(Gateway)] /\ Append(sent[p], g) \in Seq(Gateway)
      BY <1>0 DEF TypeOK
    <3> QED BY <1>0, <2>1, <2>3, <3>1
  <2> QED BY <2>2, <2>3
<1>4. TypeOK'
  BY <1>0, <1>1, <1>2, <1>3 DEF TypeOK, routing, cover, radio
<1>5. EventsNamed' /\ BackToSender'
  BY <1>1, RoutersUntouched
<1>6. ReceivedWasAired'
  BY <1>1, <1>2 DEF IInv, ReceivedWasAired, radio
<1>7. CacheReceived'
  <2>1. \A q \in Packet, h \in Gateway :
            task[<<"discovery", h, q>>].st # "none" => task'[<<"discovery", h, q>>].st # "none"
    BY <1>2 DEF Delivery, Kind
  <2> QED BY <1>1, <2>1 DEF IInv, CacheReceived, radio
<1>8. ConfirmedInOwnRegion'
  <2>1. \A q \in Packet, h \in Gateway, k \in Kind :
            /\ task'[<<k, h, q>>].region = task[<<k, h, q>>].region
            /\ task'[<<k, h, q>>].st # "none" <=> task[<<k, h, q>>].st # "none"
    BY <1>2 DEF Delivery
  <2>2. UNCHANGED aired /\ "confirmation" \in Kind /\ "discovery" \in Kind
    BY <1>1 DEF radio, Kind
  <2> SUFFICES ASSUME NEW h \in Gateway, NEW q \in Packet,
                      task'[<<"confirmation", h, q>>].st # "none"
               PROVE  \E q2 \in Packet, h2 \in Gateway :
                        /\ aired[q2] = [mapper |-> aired[q].mapper,
                                        region |-> task'[<<"confirmation", h, q>>].region]
                        /\ task'[<<"discovery", h2, q2>>].st # "none"
    BY <2>2 DEF ConfirmedInOwnRegion
  <2>3. PICK q2 \in Packet, h2 \in Gateway :
            /\ aired[q2] = [mapper |-> aired[q].mapper,
                            region |-> task[<<"confirmation", h, q>>].region]
            /\ task[<<"discovery", h2, q2>>].st # "none"
    BY <2>1, <2>2 DEF IInv, ConfirmedInOwnRegion
  <2> QED BY <2>1, <2>2, <2>3
<1>9. SelectedIsWinner' /\ SentIsSelected' /\ ConfirmedWasSent' /\ OneDownlinkBySelected'
  <2>1. CASE UNCHANGED winner /\ UNCHANGED sent /\ st # "selected"
    <3>1. SentIsSelected' /\ ConfirmedWasSent'
      BY <1>1, <2>1 DEF IInv, SentIsSelected, ConfirmedWasSent, radio
    <3>2. SelectedIsWinner'
      BY <1>2, <2>1 DEF IInv, SelectedIsWinner
    <3>3. OneDownlinkBySelected'
      <4>1. \A q \in Packet : sent[q] # <<>> => winner[q] \in Gateway
        BY <1>0 DEF IInv, SentIsSelected, TypeOK
      <4>2. \A q \in Packet : winner[q] \in Gateway => <<"discovery", winner[q], q>> \in Delivery
        BY DEF Delivery, Kind
      <4>3. \A q \in Packet : sent[q] = <<>> \/ (sent[q] # <<>> /\ sent[q] \in Seq(Gateway))
        BY <1>0 DEF TypeOK
      <4> QED BY <1>2, <2>1, <4>1, <4>2, <4>3 DEF IInv, OneDownlinkBySelected
    <3> QED BY <3>1, <3>2, <3>3
  <2>2. CASE UNCHANGED sent /\ Selects(d)
    <3>1. winner[p] = None /\ winner'[p] = g /\ d[1] = "discovery" /\ sent[p] = <<>>
      BY <1>0, <2>2 DEF Selects, TypeOK, IInv, SentIsSelected
    <3>2. SentIsSelected' /\ ConfirmedWasSent'
      BY <1>0, <1>1, <1>3, <2>2, <3>1 DEF IInv, SentIsSelected, ConfirmedWasSent, radio
    <3>3. SelectedIsWinner'
      <4> SUFFICES ASSUME NEW e \in Delivery, task'[e].st = "selected"
                   PROVE  e[1] = "discovery" /\ winner'[e[3]] = e[2] /\ sent'[e[3]] = <<>>
        BY DEF SelectedIsWinner
      <4>1. CASE e = d
        BY <2>2, <3>1, <4>1
      <4>2. CASE e # d
        <5>1. e[1] = "discovery" /\ winner[e[3]] = e[2] /\ sent[e[3]] = <<>>
          BY <1>2, <4>2 DEF IInv, SelectedIsWinner
        <5>2. e[3] \in Packet /\ e[2] \in Gateway
          BY DEF Delivery
        <5>3. e[3] # p
          BY <3>1, <5>1, <5>2, ExchangeAssumption
        <5> QED BY <1>3, <2>2, <5>1, <5>2, <5>3
      <4> QED BY <4>1, <4>2
    <3>4. OneDownlinkBySelected'
      <4> SUFFICES ASSUME NEW q \in Packet
                   PROVE  /\ Len(sent[q]) <= 1
                          /\ \A i \in DOMAIN sent[q] :
                                /\ sent[q][i] = winner'[q]
                                /\ task'[<<"discovery", winner'[q], q>>].st = "done"
        BY <2>2 DEF OneDownlinkBySelected
      <4>1. CASE q = p
        BY <3>1, <4>1
      <4>2. CASE q # p
        <5>1. winner'[q] = winner[q]
          BY <1>3, <4>2
        <5>2. ASSUME NEW i \in DOMAIN sent[q]
              PROVE  task'[<<"discovery", winner[q], q>>].st = "done"
          <6>0. sent[q] \in Seq(Gateway) /\ sent[q][i] = winner[q]
            BY <1>0 DEF IInv, OneDownlinkBySelected, TypeOK
          <6>1. winner[q] \in Gateway
            BY <6>0
          <6>2. <<"discovery", winner[q], q>> \in Delivery
            BY <6>1 DEF Delivery, Kind
          <6> QED BY <1>2, <6>2 DEF IInv, OneDownlinkBySelected
        <5> QED BY <5>1, <5>2 DEF IInv, OneDownlinkBySelected
      <4> QED BY <4>1, <4>2
    <3> QED BY <3>2, <3>3, <3>4
  <2>3. CASE UNCHANGED winner /\ task[d].st = "selected" /\ st = "done"
             /\ sent' = [sent EXCEPT ![d[3]] = Append(@, d[2])]
    <3>1. d[1] = "discovery" /\ winner[p] = g /\ sent[p] = <<>>
      BY <2>3 DEF IInv, SelectedIsWinner
    <3>2. sent'[p] = <<g>>
      BY <1>0, <2>3, <3>1 DEF TypeOK
    <3>3. SentIsSelected' /\ ConfirmedWasSent'
      <4>1. SentIsSelected'
        BY <1>0, <1>3, <2>3, <3>1, ExchangeAssumption DEF IInv, SentIsSelected
      <4>2. ConfirmedWasSent'
        BY <1>0, <1>1, <1>3, <3>2 DEF IInv, ConfirmedWasSent, TypeOK, radio
      <4> QED BY <4>1, <4>2
    <3>4. SelectedIsWinner'
      <4> SUFFICES ASSUME NEW e \in Delivery, task'[e].st = "selected"
                   PROVE  e[1] = "discovery" /\ winner[e[3]] = e[2] /\ sent'[e[3]] = <<>>
        BY <2>3 DEF SelectedIsWinner
      <4>1. e # d
        BY <1>2, <2>3
      <4>2. e[1] = "discovery" /\ winner[e[3]] = e[2] /\ sent[e[3]] = <<>>
        BY <1>2, <4>1 DEF IInv, SelectedIsWinner
      <4>3. e[3] # p
        BY <1>0, <3>1, <4>1, <4>2 DEF Delivery
      <4>4. e[3] \in Packet
        BY DEF Delivery
      <4> QED BY <1>3, <4>2, <4>3, <4>4
    <3>5. OneDownlinkBySelected'
      <4> SUFFICES ASSUME NEW q \in Packet
                   PROVE  /\ Len(sent'[q]) <= 1
                          /\ \A i \in DOMAIN sent'[q] :
                                /\ sent'[q][i] = winner[q]
                                /\ task'[<<"discovery", winner[q], q>>].st = "done"
        BY <2>3 DEF OneDownlinkBySelected
      <4>1. CASE q = p
        BY <1>0, <1>2, <2>3, <3>1, <3>2, <4>1
      <4>2. CASE q # p
        <5>1. sent'[q] = sent[q]
          BY <1>3, <4>2
        <5>2. ASSUME NEW i \in DOMAIN sent[q]
              PROVE  task'[<<"discovery", winner[q], q>>].st = "done"
          <6>0. sent[q] \in Seq(Gateway) /\ sent[q][i] = winner[q]
            BY <1>0 DEF IInv, OneDownlinkBySelected, TypeOK
          <6>1. winner[q] \in Gateway
            BY <6>0
          <6>2. <<"discovery", winner[q], q>> \in Delivery
            BY <6>1 DEF Delivery, Kind
          <6> QED BY <1>2, <6>2 DEF IInv, OneDownlinkBySelected
        <5> QED BY <5>1, <5>2 DEF IInv, OneDownlinkBySelected
      <4> QED BY <4>1, <4>2
    <3> QED BY <3>3, <3>4, <3>5
  <2> QED BY <2>1, <2>2, <2>3
<1> QED BY <1>4, <1>5, <1>6, <1>7, <1>8, <1>9 DEF IInv

\* Every step keeps the invariant.
LEMMA NextInv == IInv /\ [Next]_vars => IInv'
<1> SUFFICES ASSUME IInv, [Next]_vars PROVE IInv'
  OBVIOUS
<1>0. TypeOK /\ EventsNamed /\ BackToSender
  BY DEF IInv
<1>1. ASSUME NEW g \in Gateway, Add(g) PROVE IInv'
  <2>1. TypeOK' /\ EventsNamed' /\ BackToSender'
    BY <1>0, <1>1 DEF Add, TypeOK, EventsNamed, BackToSender, routing, cover, radio
  <2> QED BY <1>1, <2>1, RoutingStep DEF Add
<1>2. ASSUME NEW kind \in {"uplink", "join", "status", "ack"}, NEW g \in Gateway,
             Broadcast(kind, g)
      PROVE  IInv'
  <2>1. [kind |-> kind, id |-> NetOf[g], from |-> g] \in Event
    BY ExchangeAssumption DEF Event
  <2>2. TypeOK' /\ EventsNamed' /\ BackToSender'
    BY <1>0, <1>2, <2>1
    DEF Broadcast, toNetwork, TypeOK, EventsNamed, BackToSender, cover, radio
  <2> QED BY <1>2, <2>2, RoutingStep DEF Broadcast
<1>3. ASSUME NEW e \in toRouters, handleDownlinkFrame(e) PROVE IInv'
  <2>1. PICK g \in ByNetworkID(e.id) : answers' = answers \cup {<<e.from, g>>}
    BY <1>3 DEF handleDownlinkFrame
  <2>2. e \in Event /\ g \in Gateway /\ NetOf[g] = NetOf[e.from]
    BY <1>0 DEF TypeOK, EventsNamed, ByNetworkID
  <2>3. e.from \in Gateway /\ g = e.from
    BY <2>2, ExchangeAssumption DEF Event
  <2>4. TypeOK' /\ EventsNamed'
    BY <1>0, <1>3, <2>1, <2>3
    DEF handleDownlinkFrame, TypeOK, EventsNamed, cover, radio
  <2>5. BackToSender'
    BY <1>0, <2>1, <2>3 DEF BackToSender
  <2> QED BY <1>3, <2>4, <2>5, RoutingStep DEF handleDownlinkFrame
<1>4. ASSUME NEW p \in Packet, NEW s \in Sending, MapperSends(p, s) PROVE IInv'
  <2>1. /\ aired[p] = None /\ aired' = [aired EXCEPT ![p] = s]
        /\ UNCHANGED <<known, routing, regionCache, cover, confirmed, task, winner, sent>>
    BY <1>4 DEF MapperSends
  <2>2. TypeOK' /\ \A q \in Packet : q # p => aired'[q] = aired[q]
    BY <1>0, <2>1 DEF TypeOK, routing, cover
  <2>3. \A d \in Delivery : task[d].st # "none" =>
            d[3] \in Packet /\ d[3] # p /\ aired'[d[3]] = aired[d[3]] /\ aired[d[3]] # None
    BY <2>1, <2>2 DEF IInv, ReceivedWasAired, Delivery
  <2>4. \A q \in Packet, h \in Gateway, k \in Kind :
            task[<<k, h, q>>].st # "none" => aired'[q] = aired[q]
    BY <2>3 DEF Delivery
  <2>5. EventsNamed' /\ BackToSender'
    BY <2>1, RoutersUntouched
  <2>6. SelectedIsWinner' /\ SentIsSelected' /\ ConfirmedWasSent' /\ OneDownlinkBySelected'
    <3>1. SelectedIsWinner'
      BY <2>1 DEF IInv, SelectedIsWinner
    <3>2. SentIsSelected' /\ ConfirmedWasSent'
      BY <2>1 DEF IInv, SentIsSelected, ConfirmedWasSent
    <3>3. OneDownlinkBySelected'
      BY <2>1 DEF IInv, OneDownlinkBySelected
    <3> QED BY <3>1, <3>2, <3>3
  <2>7. ReceivedWasAired'
    BY <2>1, <2>3 DEF ReceivedWasAired
  <2>8. CacheReceived'
    <3> SUFFICES ASSUME NEW i \in DOMAIN regionCache
                 PROVE  \E q \in Packet, h \in Gateway :
                           /\ aired'[q] = regionCache[i]
                           /\ task[<<"discovery", h, q>>].st # "none"
      BY <2>1 DEF CacheReceived
    <3>1. PICK q \in Packet, h \in Gateway :
              aired[q] = regionCache[i] /\ task[<<"discovery", h, q>>].st # "none"
      BY DEF IInv, CacheReceived
    <3> QED BY <2>4, <3>1 DEF Kind
  <2>9. ConfirmedInOwnRegion'
    <3> SUFFICES ASSUME NEW h \in Gateway, NEW q \in Packet,
                        task[<<"confirmation", h, q>>].st # "none"
                 PROVE  \E q2 \in Packet, h2 \in Gateway :
                          /\ aired'[q2] = [mapper |-> aired'[q].mapper,
                                           region |-> task[<<"confirmation", h, q>>].region]
                          /\ task[<<"discovery", h2, q2>>].st # "none"
      BY <2>1 DEF ConfirmedInOwnRegion
    <3>1. PICK q2 \in Packet, h2 \in Gateway :
              /\ aired[q2] = [mapper |-> aired[q].mapper,
                              region |-> task[<<"confirmation", h, q>>].region]
              /\ task[<<"discovery", h2, q2>>].st # "none"
      BY DEF IInv, ConfirmedInOwnRegion
    <3>2. aired'[q2] = aired[q2] /\ aired'[q] = aired[q]
      BY <2>4, <3>1 DEF Kind
    <3> QED BY <3>1, <3>2
  <2> QED BY <2>2, <2>5, <2>6, <2>7, <2>8, <2>9 DEF IInv
<1>5. ASSUME NEW g \in Gateway, NEW p \in Packet, handleDiscoveryPacket(g, p) PROVE IInv'
  <2>1. aired[p] \in Sending /\ "discovery" \in Kind
    BY <1>0, <1>5 DEF handleDiscoveryPacket, TypeOK, Kind
  <2> QED BY <1>5, <2>1, SpawnStep DEF handleDiscoveryPacket
<1>6. ASSUME NEW g \in Gateway, NEW p \in Packet, handleDownlinkConfirmationPacket(g, p)
      PROVE  IInv'
  <2>1. PICK s \in CachedFor(aired[p].mapper) :
            regionCache' = ToFront(s) /\ Spawn("confirmation", g, p, s.region)
    BY <1>6 DEF handleDownlinkConfirmationPacket
  <2>2. PICK j \in DOMAIN regionCache :
            s = regionCache[j] /\ regionCache[j].mapper = aired[p].mapper
    BY DEF CachedFor, Positions
  <2>3. s \in Sending /\ "confirmation" \in Kind
    BY <1>0, <2>2 DEF TypeOK, Kind
  <2>4. aired[p] # None
    <3>1. sent[p] # <<>> /\ sent[p] \in Seq(Gateway)
      BY <1>0, <1>6 DEF handleDownlinkConfirmationPacket, IInv, ConfirmedWasSent, TypeOK
    <3>2. 1 \in DOMAIN sent[p] /\ sent[p][1] \in Gateway
      BY <3>1
    <3>3. /\ winner[p] \in Gateway
          /\ task[<<"discovery", winner[p], p>>].st = "done"
      BY <3>2 DEF IInv, OneDownlinkBySelected
    <3>4. <<"discovery", winner[p], p>> \in Delivery
      BY <3>3 DEF Delivery, Kind
    <3> QED BY <3>3, <3>4 DEF IInv, ReceivedWasAired
  <2>5. UNCHANGED <<known, routing, cover, radio, winner, sent>>
    BY <1>6 DEF handleDownlinkConfirmationPacket
  <2> QED BY <2>1, <2>2, <2>3, <2>4, <2>5, SpawnStep
<1>7. ASSUME refreshCoverageMappingIndex PROVE IInv'
  <2>1. TypeOK' /\ EventsNamed' /\ BackToSender'
    BY <1>0, <1>7, ExchangeAssumption
    DEF refreshCoverageMappingIndex, TypeOK, EventsNamed, BackToSender, routing, radio
  <2> QED BY <1>7, <2>1, RoutingStep DEF refreshCoverageMappingIndex
<1>8. ASSUME NEW d \in Delivery, TaskStep(d) PROVE IInv'
  <2>1. CASE Deliver(d)
    BY <2>1, GoroutineStep DEF Deliver
  <2>2. CASE Answer(d)
    BY <2>2, GoroutineStep DEF Answer
  <2>3. CASE Timeout(d)
    BY <2>3, GoroutineStep DEF Timeout
  <2>4. CASE Transmit(d)
    <3>1. CASE UNCHANGED sent
      BY <2>4, <3>1, GoroutineStep DEF Transmit
    <3>2. CASE sent' # sent
      <4>1. PICK g \in ByNetworkID(NetOf[d[2]]) :
                sent' = [sent EXCEPT ![d[3]] = Append(@, g)]
        BY <2>4, <3>2 DEF Transmit, toNetwork
      <4>2. g = d[2]
        BY <1>0, ExchangeAssumption DEF ByNetworkID, TypeOK, Delivery
      <4> QED BY <2>4, <4>1, <4>2, GoroutineStep DEF Transmit
    <3> QED BY <3>1, <3>2
  <2> QED BY <1>8, <2>1, <2>2, <2>3, <2>4 DEF TaskStep
<1>9. ASSUME NEW p \in Packet, MapperConfirms(p) PROVE IInv'
  <2>1. /\ sent[p] # <<>> /\ confirmed' = confirmed \cup {p}
        /\ UNCHANGED <<known, routing, regionCache, cover, aired, task, winner, sent>>
    BY <1>9 DEF MapperConfirms
  <2>2. TypeOK'
    BY <1>0, <2>1 DEF TypeOK, routing, cover
  <2>3. EventsNamed' /\ BackToSender'
    BY <2>1, RoutersUntouched
  <2>4. SelectedIsWinner' /\ SentIsSelected' /\ ReceivedWasAired' /\ CacheReceived'
    BY <2>1 DEF IInv, SelectedIsWinner, SentIsSelected, ReceivedWasAired, CacheReceived
  <2>5. ConfirmedWasSent'
    BY <2>1 DEF IInv, ConfirmedWasSent
  <2>6. OneDownlinkBySelected'
    BY <2>1 DEF IInv, OneDownlinkBySelected
  <2>7. ConfirmedInOwnRegion'
    BY <2>1 DEF IInv, ConfirmedInOwnRegion
  <2> QED BY <2>2, <2>3, <2>4, <2>5, <2>6, <2>7 DEF IInv
<1>10. CASE UNCHANGED vars
  <2>1. TypeOK' /\ EventsNamed' /\ BackToSender'
    BY <1>0, <1>10 DEF vars, TypeOK, EventsNamed, BackToSender, routing, cover, radio
  <2> QED BY <1>10, <2>1, RoutingStep DEF vars
<1> QED
  BY <1>1, <1>2, <1>3, <1>4, <1>5, <1>6, <1>7, <1>8, <1>9, <1>10
  DEF Next, uplinkFrameCallback, subscribeEvent, downlinkTxAck

-----------------------------------------------------------------------------
\* The inductive invariant holds in every reachable state of the exchange.
THEOREM InvHolds == Spec => []IInv
  BY InitInv, NextInv, PTL DEF Spec

\* The variables of the exchange keep their types; in particular the region cache
\* stays within its size and has one entry per mapper.
THEOREM TypeCorrect == Spec => []TypeOK
<1>1. IInv => TypeOK
  BY DEF IInv
<1> QED BY <1>1, InvHolds, PTL

\* A router's downlink in answer to a gateway goes to that gateway, whatever local
\* and network ids are equal.
THEOREM AnswersReturn == Spec => []BackToSender
<1>1. IInv => BackToSender
  BY DEF IInv
<1> QED BY <1>1, InvHolds, PTL

\* A mapper's packet gets one downlink at most, from the gateway selected for it.
THEOREM DownlinkSelected == Spec => []OneDownlinkBySelected
<1>1. IInv => OneDownlinkBySelected
  BY DEF IInv
<1> QED BY <1>1, InvHolds, PTL

\* A confirmation is delivered in a region that its mapper announced.
THEOREM RegionAnnounced == Spec => []ConfirmedInOwnRegion
<1>1. IInv => ConfirmedInOwnRegion
  BY DEF IInv
<1> QED BY <1>1, InvHolds, PTL

=============================================================================
