---------------------------- MODULE TunnelProofs ----------------------------
(***************************************************************************)
(* What TunnelManager guarantees for every network of routers, every set   *)
(* of tunnels and every traffic: a tunnel id keeps its meaning, a router   *)
(* whose poll has stopped is never a hop again, and a router is a hop only *)
(* with the ids and the key that somebody built for it.                    *)
(***************************************************************************)
EXTENDS TunnelManager, TLAPS

\* The per-router tables are functions on the routers.
Tables ==
  /\ part = [r \in Routers |-> part[r]]
  /\ graceful = [r \in Routers |-> graceful[r]]
  /\ polling = [r \in Routers |-> polling[r]]

\* The invariant behind StoppedMeansDrained: the update of one router's entry
\* leaves the others alone, since the tables are functions.
DrainInv == Tables /\ StoppedMeansDrained

\* What a step may do to the hops of the routers: nothing, or, for one router,
\* add a hop under an id not in use while the router is not shutting down, or
\* remove one.
HopStep ==
  \/ part' = part
  \/ \E r, h : ~Refuses(r, h) /\ part' = [part EXCEPT ![r] = Put(@, h.id, h)]
  \/ \E r, id : part' = [part EXCEPT ![r] = Erase(@, id)]

\* Every step of the routers is a HopStep (Manager.cpp:36-140, 250-259).
LEMMA StepsOfHops == [Next]_vars => HopStep
<1> SUFFICES ASSUME [Next]_vars PROVE HopStep
  OBVIOUS
<1> USE DEF HopStep
<1>1. ASSUME NEW r, NEW records, Participate(r, records) PROVE HopStep
  BY <1>1, Zenon DEF Participate, Join
<1>2. ASSUME NEW m, HandleRecords(m) PROVE HopStep
  BY <1>1, <1>2 DEF HandleRecords, ReceiveRecords
<1>3. ASSUME NEW m, ReceiveGatewayData(m) \/ ReceiveData(m) PROVE HopStep
  BY <1>3, Zenon DEF ReceiveGatewayData, ReceiveData
<1>4. ASSUME NEW r, NEW id, ExpireParticipating(r, id) PROVE HopStep
  BY <1>4, Zenon DEF ExpireParticipating
<1>5. ASSUME NEW r, ExpireFragments(r) \/ GracefulShutdown(r) \/ Callback(r) PROVE HopStep
  BY <1>5 DEF ExpireFragments, GracefulShutdown, Callback
<1>6. ASSUME NEW b, BuildTunnel(b) \/ CreatorSends(b) PROVE HopStep
  BY <1>6 DEF BuildTunnel, CreatorSends
<1>7. CASE UNCHANGED vars
  BY <1>7 DEF vars
<1> QED
  BY <1>2, <1>3, <1>4, <1>5, <1>6, <1>7 DEF Next

\* Graceful shutdown is for good: no step takes m_graceful back.
LEMMA GracefulStays ==
  ASSUME Tables, [Next]_vars
  PROVE  /\ \A r \in Routers : graceful[r] => graceful'[r]
         /\ graceful' = [r \in Routers |-> graceful'[r]]
<1>1. graceful' = graceful \/ \E r : graceful' = [graceful EXCEPT ![r] = TRUE]
  <2>1. ASSUME NEW m, HandleRecords(m) PROVE graceful' = graceful
    BY <2>1 DEF HandleRecords, ReceiveRecords
  <2>2. ASSUME NEW m, ReceiveGatewayData(m) \/ ReceiveData(m) PROVE graceful' = graceful
    BY <2>2, Zenon DEF ReceiveGatewayData, ReceiveData
  <2>3. ASSUME NEW r, NEW id, ExpireParticipating(r, id) PROVE graceful' = graceful
    BY <2>3 DEF ExpireParticipating
  <2>4. ASSUME NEW r, ExpireFragments(r) \/ Callback(r) PROVE graceful' = graceful
    BY <2>4 DEF ExpireFragments, Callback
  <2>5. ASSUME NEW r, GracefulShutdown(r)
        PROVE  graceful' = [graceful EXCEPT ![r] = TRUE]
    BY <2>5 DEF GracefulShutdown
  <2>6. ASSUME NEW b, BuildTunnel(b) \/ CreatorSends(b) PROVE graceful' = graceful
    BY <2>6 DEF BuildTunnel, CreatorSends
  <2>7. CASE UNCHANGED vars
    BY <2>7 DEF vars
  <2> QED
    BY <2>1, <2>2, <2>3, <2>4, <2>5, <2>6, <2>7 DEF Next
<1> QED
  BY <1>1 DEF Tables

\* The poll of a router stops only in Callback, when the router is drained.
LEMMA PollingStops ==
  ASSUME Tables, [Next]_vars
  PROVE  /\ polling' = [r \in Routers |-> polling'[r]]
         /\ \A r \in Routers : ~polling'[r] =>
              ~polling[r] \/ (graceful[r] /\ DOMAIN part[r] = {} /\ part' = part)
<1>1. \/ polling' = polling
      \/ \E r : /\ polling' = [polling EXCEPT ![r] = ~(DOMAIN part[r] = {} /\ graceful[r])]
                /\ part' = part
  <2>1. ASSUME NEW m, HandleRecords(m) PROVE polling' = polling
    BY <2>1 DEF HandleRecords, ReceiveRecords
  <2>2. ASSUME NEW m, ReceiveGatewayData(m) \/ ReceiveData(m) PROVE polling' = polling
    BY <2>2, Zenon DEF ReceiveGatewayData, ReceiveData
  <2>3. ASSUME NEW r, NEW id, ExpireParticipating(r, id) PROVE polling' = polling
    BY <2>3 DEF ExpireParticipating
  <2>4. ASSUME NEW r, ExpireFragments(r) \/ GracefulShutdown(r) PROVE polling' = polling
    BY <2>4 DEF ExpireFragments, GracefulShutdown
  <2>5. ASSUME NEW r, Callback(r)
        PROVE  /\ polling' = [polling EXCEPT ![r] = ~(DOMAIN part[r] = {} /\ graceful[r])]
               /\ part' = part
    BY <2>5 DEF Callback
  <2>6. ASSUME NEW b, BuildTunnel(b) \/ CreatorSends(b) PROVE polling' = polling
    BY <2>6 DEF BuildTunnel, CreatorSends
  <2>7. CASE UNCHANGED vars
    BY <2>7 DEF vars
  <2> QED
    BY <2>1, <2>2, <2>3, <2>4, <2>5, <2>6, <2>7, Zenon DEF Next
<1> QED
  BY <1>1, Zenon DEF Tables

\* The hops of a router after a step: a router that is shutting down gains
\* none, and an id that stays keeps its hop.
LEMMA HopsAfter ==
  ASSUME Tables, HopStep
  PROVE  /\ part' = [r \in Routers |-> part'[r]]
         /\ \A r \in Routers :
              /\ graceful[r] => DOMAIN part'[r] \subseteq DOMAIN part[r]
              /\ \A id \in DOMAIN part[r] :
                   id \in DOMAIN part'[r] => part'[r][id] = part[r][id]
<1>1. CASE part' = part
  BY <1>1 DEF Tables
<1>2. ASSUME NEW r, NEW h, ~Refuses(r, h), part' = [part EXCEPT ![r] = Put(@, h.id, h)]
      PROVE  /\ part' = [q \in Routers |-> part'[q]]
             /\ \A q \in Routers :
                  /\ graceful[q] => DOMAIN part'[q] \subseteq DOMAIN part[q]
                  /\ \A id \in DOMAIN part[q] :
                       id \in DOMAIN part'[q] => part'[q][id] = part[q][id]
  BY <1>2, Zenon DEF Tables, Refuses, Put
<1>3. ASSUME NEW r, NEW k, part' = [part EXCEPT ![r] = Erase(@, k)]
      PROVE  /\ part' = [q \in Routers |-> part'[q]]
             /\ \A q \in Routers :
                  /\ graceful[q] => DOMAIN part'[q] \subseteq DOMAIN part[q]
                  /\ \A id \in DOMAIN part[q] :
                       id \in DOMAIN part'[q] => part'[q][id] = part[q][id]
  BY <1>3, Zenon DEF Tables, Erase
<1> QED
  BY <1>1, <1>2, <1>3 DEF HopStep

\* Initially every router polls and is a hop of nothing.
LEMMA InitDrain == Init => DrainInv
  BY DEF Init, DrainInv, Tables, StoppedMeansDrained

\* A step keeps the tables functions and a stopped router drained.
LEMMA NextDrain == DrainInv /\ [Next]_vars => DrainInv'
<1> SUFFICES ASSUME DrainInv, [Next]_vars PROVE DrainInv'
  OBVIOUS
<1>1. Tables /\ StoppedMeansDrained /\ HopStep
  BY StepsOfHops DEF DrainInv
<1>2. Tables'
  BY <1>1, GracefulStays, PollingStops, HopsAfter DEF Tables
<1>3. ASSUME NEW r \in Routers, ~polling'[r] PROVE graceful'[r] /\ DOMAIN part'[r] = {}
  <2>1. graceful[r] /\ DOMAIN part[r] = {}
    BY <1>1, <1>3, PollingStops DEF StoppedMeansDrained
  <2>2. graceful'[r] /\ DOMAIN part'[r] \subseteq DOMAIN part[r]
    BY <1>1, <2>1, GracefulStays, HopsAfter
  <2> QED
    BY <2>1, <2>2
<1> QED
  BY <1>2, <1>3 DEF DrainInv, StoppedMeansDrained

\* Manager::callback stops polling only at a drained router, and receiveRecords
\* never makes such a router a hop again: for every network and every traffic.
THEOREM DrainedForGood == Spec => []StoppedMeansDrained
<1>1. DrainInv => StoppedMeansDrained
  BY DEF DrainInv
<1> QED
  BY <1>1, InitDrain, NextDrain, PTL DEF Spec

\* A tunnel id in m_participating keeps its hop for as long as it is there.
THEOREM IdsKeepMeaning == Spec => IdKeepsMeaning
<1>1. DrainInv /\ [Next]_vars =>
        [\A r \in Routers : \A id \in DOMAIN part[r] :
           id \in DOMAIN part'[r] => part'[r][id] = part[r][id]]_vars
  BY StepsOfHops, HopsAfter DEF DrainInv
<1> QED
  BY <1>1, InitDrain, NextDrain, PTL DEF Spec, IdKeepsMeaning
-----------------------------------------------------------------------------
(***************************************************************************)
(* A router is a hop only of tunnels that were built.                      *)
(***************************************************************************)

\* The records of a message: a request, with whatever layers, is the one a creator
\* wrote for a hop of a tunnel that it has begun to build.
AsBuilt(records) ==
  \A k \in DOMAIN records :
    /\ {"request", "body"} \subseteq DOMAIN records[k]
    /\ records[k].request =>
         \E b \in Builds : \E i \in DOMAIN b.hops :
           status[b] # "NONE" /\ records[k].body = Hop(b, i)

BuildMessage(m) ==
  m = VariableTunnelBuild(m.to, m.msgId, m.records) /\ AsBuilt(m.records)

\* ... in every message that carries records, itself or in a TunnelGateway message.
Carries(m) ==
  /\ m.kind = "records" => BuildMessage(m)
  /\ m.kind = "gateway" /\ m.inner.kind = "records" => BuildMessage(m.inner)

\* A step may begin a build or end it, but takes none back.
BuildsGoOn ==
  status' = status \/ \E b, v : v # "NONE" /\ status' = [status EXCEPT ![b] = v]

\* A step that makes a router a hop does so with the record that the creator of a
\* tunnel wrote for it, under the id in that record.
JoinsAsBuilt ==
  \/ part' = part
  \/ \E b \in Builds : \E i \in DOMAIN b.hops :
       /\ status[b] # "NONE"
       /\ part' = [part EXCEPT ![b.hops[i]] = Put(@, b.ids[i], Hop(b, i))]
  \/ \E r, id : part' = [part EXCEPT ![r] = Erase(@, id)]

\* h is the hop that router r is under this id in a tunnel somebody built.
BuiltHop(r, id, h) ==
  \E b \in Builds : \E i \in DOMAIN b.hops :
    status[b] # "NONE" /\ h = Hop(b, i) /\ b.hops[i] = r /\ b.ids[i] = id

\* The inductive invariant.
HopsInv ==
  /\ Tables /\ status = [b \in Builds |-> status[b]]
  /\ \A m \in net : Carries(m)
  /\ HopsAsBuilt

\* Taking layers off or putting them on leaves the rest of a record.
LEMMA LayersOnly ==
  ASSUME NEW rec, {"request", "body"} \subseteq DOMAIN rec, NEW layers
  PROVE  LET u == [rec EXCEPT !.layers = layers]
         IN  /\ {"request", "body"} \subseteq DOMAIN u
             /\ u.request = rec.request /\ u.body = rec.body
  OBVIOUS

\* The record of hop i says who it is for and under which id.
LEMMA HopFields ==
  ASSUME NEW b, NEW i
  PROVE  Hop(b, i).hop = b.hops[i] /\ Hop(b, i).id = b.ids[i]
  BY DEF Hop, InboundHop, OutboundHop

\* No build is taken back.
LEMMA BuildsStay ==
  ASSUME status = [b \in Builds |-> status[b]], BuildsGoOn
  PROVE  /\ status' = [b \in Builds |-> status'[b]]
         /\ \A b \in Builds : status[b] # "NONE" => status'[b] # "NONE"
  BY DEF BuildsGoOn

\* What was built stays as built.
LEMMA AsBuiltStays ==
  ASSUME \A b \in Builds : status[b] # "NONE" => status'[b] # "NONE"
  PROVE  /\ \A records : AsBuilt(records) => AsBuilt(records)'
         /\ \A m : BuildMessage(m) => BuildMessage(m)'
         /\ \A m : Carries(m) => Carries(m)'
<1>1. ASSUME NEW records, AsBuilt(records) PROVE AsBuilt(records)'
  BY <1>1, Zenon DEF AsBuilt
<1>2. ASSUME NEW m, BuildMessage(m) PROVE BuildMessage(m)'
  BY <1>1, <1>2, Zenon DEF BuildMessage
<1>3. ASSUME NEW m, Carries(m) PROVE Carries(m)'
  BY <1>2, <1>3, Zenon DEF Carries
<1> QED  BY <1>1, <1>2, <1>3, Zenon

\* The messages that carry no records.
LEMMA CarriesNone ==
  ASSUME NEW m, m.kind # "records", m.kind = "gateway" => m.inner.kind # "records"
  PROVE  Carries(m)
  BY Zenon DEF Carries

\* A message with good records, sent as it is or through a gateway.
LEMMA CarriesRecords ==
  ASSUME NEW to, NEW msgId, NEW records, AsBuilt(records)
  PROVE  /\ Carries(VariableTunnelBuild(to, msgId, records))
         /\ \A r, id : Carries(TunnelGateway(r, id, VariableTunnelBuild(to, msgId, records)))
<1>1. PICK m : m = VariableTunnelBuild(to, msgId, records)
  OBVIOUS
<1>2. m.kind = "records" /\ m.to = to /\ m.msgId = msgId /\ m.records = records
  BY <1>1 DEF VariableTunnelBuild
<1>3. BuildMessage(m)
  BY <1>1, <1>2, Zenon DEF BuildMessage
<1>4. Carries(m)
  BY <1>2, <1>3, Zenon DEF Carries
<1>5. ASSUME NEW r, NEW id PROVE Carries(TunnelGateway(r, id, m))
  <2>1. TunnelGateway(r, id, m).kind = "gateway" /\ TunnelGateway(r, id, m).inner = m
    BY DEF TunnelGateway
  <2> QED  BY <1>3, <2>1, Zenon DEF Carries
<1> QED  BY <1>1, <1>4, <1>5, Zenon

\* Records of which every request was there before.
LEMMA SameRequests ==
  ASSUME NEW old, AsBuilt(old), NEW records, DOMAIN records = DOMAIN old,
         \A k \in DOMAIN records :
           /\ {"request", "body"} \subseteq DOMAIN records[k]
           /\ records[k].request => old[k].request /\ records[k].body = old[k].body
  PROVE  AsBuilt(records)
  BY Zenon DEF AsBuilt

\* Tunnel::secureRecords: one record for every hop, closed or not.
LEMMA SecuredRecords ==
  ASSUME NEW b \in Builds
  PROVE  /\ DOMAIN SecureRecords(b) = DOMAIN b.hops
         /\ \A i \in DOMAIN b.hops :
              /\ {"request", "body"} \subseteq DOMAIN SecureRecords(b)[i]
              /\ SecureRecords(b)[i].body = Hop(b, i)
<1>1. DOMAIN SecureRecords(b) = DOMAIN b.hops
  BY TunnelAssumption DEF SecureRecords
<1>2. ASSUME NEW i \in DOMAIN b.hops
      PROVE  LET u == SecureRecords(b)[i]
             IN  {"request", "body"} \subseteq DOMAIN u /\ u.body = Hop(b, i)
  <2>1. SecureRecords(b)[i] = DecryptDown(b, i - 1, 1, Request(b, i))
    BY TunnelAssumption DEF SecureRecords
  <2>2. {"request", "body"} \subseteq DOMAIN Request(b, i) /\ Request(b, i).body = Hop(b, i)
    BY DEF Request
  <2> QED  BY <2>1, <2>2, LayersOnly, Zenon DEF DecryptDown
<1> QED  BY <1>1, <1>2, Zenon

\* ... and they are good once the tunnel is being built.
LEMMA SecuredNext ==
  ASSUME NEW b \in Builds, status'[b] # "NONE", NEW to
  PROVE  Carries(VariableTunnelBuild(to, b.msgId, SecureRecords(b)))'
<1>1. PICK m : m = VariableTunnelBuild(to, b.msgId, SecureRecords(b))
  OBVIOUS
<1>2. /\ m.kind = "records" /\ m.to = to /\ m.msgId = b.msgId
      /\ m.records = SecureRecords(b)
  BY <1>1 DEF VariableTunnelBuild
<1>3. AsBuilt(SecureRecords(b))'
  BY SecuredRecords, Zenon DEF AsBuilt
<1>4. Carries(m)'
  BY <1>1, <1>2, <1>3, Zenon DEF Carries, BuildMessage
<1> QED  BY <1>1, <1>4, Zenon

\* Tunnel::handleResponses only takes layers off.
LEMMA OpenedAsBuilt ==
  ASSUME NEW b, NEW records, AsBuilt(records)
  PROVE  AsBuilt(HandleResponses(b, records).records)
<1>1. PICK u : u = [k \in DOMAIN records |-> DecryptDown(b, Len(b.hops) - 1, 1, records[k])]
  BY Zenon
<1>2. HandleResponses(b, records).records = u
  BY <1>1 DEF HandleResponses
<1>3. ASSUME NEW k \in DOMAIN u
      PROVE  /\ {"request", "body"} \subseteq DOMAIN u[k]
             /\ u[k].request = records[k].request /\ u[k].body = records[k].body
  <2>1. u[k] = DecryptDown(b, Len(b.hops) - 1, 1, records[k]) /\ k \in DOMAIN records
    BY <1>1
  <2>2. {"request", "body"} \subseteq DOMAIN records[k]
    BY <2>1, Zenon DEF AsBuilt
  <2> QED  BY <2>1, <2>2, LayersOnly, Zenon DEF DecryptDown
<1>4. DOMAIN u = DOMAIN records
  BY <1>1
<1>5. AsBuilt(u)
  BY <1>3, <1>4, SameRequests, Zenon
<1> QED  BY <1>2, <1>5, Zenon

\* The records that go on: a request less, a response more.
LEMMA AnsweredAsBuilt ==
  ASSUME NEW records, AsBuilt(records), NEW i, NEW h
  PROVE  AsBuilt(Answer(records, i, h))
<1>1. PICK u : u = Answer(records, i, h)
  OBVIOUS
<1>2. DOMAIN u = DOMAIN records
  BY <1>1 DEF Answer
<1>3. ASSUME NEW k \in DOMAIN u
      PROVE  /\ {"request", "body"} \subseteq DOMAIN u[k]
             /\ u[k].request => records[k].request /\ u[k].body = records[k].body
  <2>1. PICK rec : rec = IF k = i THEN Response(h) ELSE records[k]
    OBVIOUS
  <2>2. u[k] = Encrypt(rec, h.key)
    BY <1>1, <1>2, <2>1 DEF Answer
  <2>3. /\ {"request", "body"} \subseteq DOMAIN rec
        /\ rec.request => records[k].request /\ rec.body = records[k].body
    <3>1. {"request", "body"} \subseteq DOMAIN records[k]
      BY <1>2, Zenon DEF AsBuilt
    <3>2. {"request", "body"} \subseteq DOMAIN Response(h) /\ ~Response(h).request
      BY DEF Response
    <3> QED  BY <2>1, <3>1, <3>2, Zenon
  <2> QED  BY <2>2, <2>3, LayersOnly, Zenon DEF Encrypt
<1>4. AsBuilt(u)
  BY <1>2, <1>3, SameRequests, Zenon
<1> QED  BY <1>1, <1>4, Zenon

\* The second half of receiveRecords: the router becomes a hop that the creator
\* of a tunnel wrote into its record, and what it sends on is as good as what came.
LEMMA ParticipateHops ==
  ASSUME NEW r, NEW records, AsBuilt(records), Participate(r, records)
  PROVE  JoinsAsBuilt /\ \A m \in net' : m \in net \/ Carries(m)
<1> DEFINE mine == {k \in DOMAIN records : Mine(records[k], r)}
<1>1. CASE part' = part /\ net' = net
  BY <1>1, Zenon DEF JoinsAsBuilt
<1>2. CASE ~(part' = part /\ net' = net)
  <2>1. PICK i \in mine :
          LET h == records[i].body
              m == VariableTunnelBuild(h.next, h.msgId, Answer(records, i, h))
          IN  /\ Join(r, h)
              /\ net' = net \cup {IF h.type = "ENDPOINT"
                                  THEN TunnelGateway(h.next, h.nextId, m) ELSE m}
    BY <1>2, Zenon DEF Participate
  <2>2. PICK h : h = records[i].body
    OBVIOUS
  <2>3. PICK m : m = VariableTunnelBuild(h.next, h.msgId, Answer(records, i, h))
    OBVIOUS
  <2>4. /\ part' = [part EXCEPT ![r] = Put(@, h.id, h)]
        /\ \A w \in net' : w \in net \/ w = m \/ w = TunnelGateway(h.next, h.nextId, m)
    BY <2>1, <2>2, <2>3, Zenon DEF Join
  <2>5. i \in DOMAIN records /\ records[i].request /\ h.hop = r
    BY <2>1, <2>2, Zenon DEF Mine
  <2>6. PICK b \in Builds : \E j \in DOMAIN b.hops : status[b] # "NONE" /\ h = Hop(b, j)
    BY <2>2, <2>5, Zenon DEF AsBuilt
  <2>7. JoinsAsBuilt
    <3>1. PICK j \in DOMAIN b.hops : status[b] # "NONE" /\ h = Hop(b, j)
      BY <2>6
    <3>2. b.hops[j] = r /\ b.ids[j] = h.id
      BY <2>5, <3>1, HopFields
    <3>3. part' = [part EXCEPT ![b.hops[j]] = Put(@, b.ids[j], Hop(b, j))]
      BY <2>4, <3>1, <3>2
    <3> QED  BY <3>1, <3>3, Zenon DEF JoinsAsBuilt
  <2>8. Carries(m) /\ Carries(TunnelGateway(h.next, h.nextId, m))
    BY <2>3, AnsweredAsBuilt, CarriesRecords, Zenon
  <2> QED  BY <2>4, <2>7, <2>8, Zenon
<1> QED  BY <1>1, <1>2

\* The invariant survives a step that builds, joins and sends in this way.
LEMMA HopsKept ==
  ASSUME HopsInv, Tables', BuildsGoOn, JoinsAsBuilt,
         \A m \in net' : m \in net \/ Carries(m)'
  PROVE  HopsInv'
<1>1. /\ status' = [b \in Builds |-> status'[b]]
      /\ \A b \in Builds : status[b] # "NONE" => status'[b] # "NONE"
  BY BuildsStay DEF HopsInv, BuildsGoOn
<1>2. \A m \in net' : Carries(m)'
  BY <1>1, AsBuiltStays, Zenon DEF HopsInv
<1>3. ASSUME NEW r \in Routers, NEW id \in DOMAIN part'[r] PROVE BuiltHop(r, id, part'[r][id])
  <2>1. part = [q \in Routers |-> part[q]]
    BY DEF HopsInv, Tables
  <2>2. id \in DOMAIN part[r] => BuiltHop(r, id, part[r][id])
    BY DEF HopsInv, HopsAsBuilt, BuiltHop
  <2>3. CASE id \in DOMAIN part[r] /\ part'[r][id] = part[r][id]
    BY <2>2, <2>3, Zenon
  <2>4. CASE part' = part
    BY <1>3, <2>3, <2>4, Zenon
  <2>5. ASSUME NEW q, NEW k, part' = [part EXCEPT ![q] = Erase(@, k)]
        PROVE  id \in DOMAIN part[r] /\ part'[r][id] = part[r][id]
    BY <1>3, <2>1, <2>5 DEF Erase
  <2>6. ASSUME NEW b \in Builds, NEW i \in DOMAIN b.hops, status[b] # "NONE",
               part' = [part EXCEPT ![b.hops[i]] = Put(@, b.ids[i], Hop(b, i))]
        PROVE  BuiltHop(r, id, part'[r][id])
    <3>1. CASE r = b.hops[i]
      <4>1. part'[r] = Put(part[r], b.ids[i], Hop(b, i))
        BY <2>1, <2>6, <3>1
      <4>2. CASE id = b.ids[i]
        <5>1. part'[r][id] = Hop(b, i)
          BY <4>1, <4>2 DEF Put
        <5> QED  BY <2>6, <3>1, <4>2, <5>1 DEF BuiltHop
      <4>3. CASE id # b.ids[i]
        BY <1>3, <2>3, <4>1, <4>3 DEF Put
      <4> QED  BY <4>2, <4>3
    <3>2. CASE r # b.hops[i]
      <4>1. part'[r] = part[r]
        BY <2>1, <2>6, <3>2
      <4> QED  BY <1>3, <2>3, <4>1
    <3> QED  BY <3>1, <3>2
  <2>7. CASE \E q, k : part' = [part EXCEPT ![q] = Erase(@, k)]
    BY <2>3, <2>5, <2>7, Zenon
  <2> QED  BY <2>4, <2>6, <2>7 DEF JoinsAsBuilt
<1>4. HopsAsBuilt'
  <2> SUFFICES ASSUME NEW r \in Routers, NEW id \in DOMAIN part'[r]
               PROVE  \E b \in Builds : \E i \in DOMAIN b.hops :
                        /\ status'[b] # "NONE" /\ part'[r][id] = Hop(b, i)
                        /\ b.hops[i] = r /\ b.ids[i] = id
    BY DEF HopsAsBuilt
  <2>1. BuiltHop(r, id, part'[r][id])
    BY <1>3
  <2> QED  BY <1>1, <2>1 DEF BuiltHop
<1> QED  BY <1>1, <1>2, <1>4, Zenon DEF HopsInv

\* receiveRecords: whatever becomes of a pending tunnel, the router joins with a
\* record as it was written.
LEMMA ReceiveRecordsHops ==
  ASSUME NEW r, NEW msgId, NEW records, AsBuilt(records),
         ReceiveRecords(r, msgId, records)
  PROVE  BuildsGoOn /\ JoinsAsBuilt /\ \A m \in net' : m \in net \/ Carries(m)
<1>1. PICK b : b = pending[r][msgId]
  OBVIOUS
<1>2. PICK res : res = HandleResponses(b, records)
  OBVIOUS
<1>3. AsBuilt(res.records)
  BY <1>2, OpenedAsBuilt, Zenon
<1>4. res.state # "NONE"
  BY <1>2 DEF HandleResponses
<1>5. \/ Participate(r, records) /\ status' = status
      \/ status' = status /\ part' = part /\ net' = net
      \/ /\ status' = [status EXCEPT ![b] = res.state]
         /\ (part' = part /\ net' = net) \/ Participate(r, res.records)
  BY <1>1, <1>2, Zenon DEF ReceiveRecords
<1>6. BuildsGoOn
  BY <1>4, <1>5, Zenon DEF BuildsGoOn
<1>7. \/ part' = part /\ net' = net
      \/ Participate(r, records) \/ Participate(r, res.records)
  BY <1>5, Zenon
<1>8. CASE part' = part /\ net' = net
  BY <1>6, <1>8, Zenon DEF JoinsAsBuilt
<1> QED  BY <1>3, <1>6, <1>7, <1>8, ParticipateHops, Zenon

\* A TunnelGateway message makes a message of data, or hands on the records in it.
LEMMA GatewaySends ==
  ASSUME NEW m, Carries(m), ReceiveGatewayData(m)
  PROVE  \A w \in net' : w \in net \/ Carries(w)
<1>1. \A to, id, data : Carries(TunnelData(to, id, data))
  <2>1. \A to, id, data : TunnelData(to, id, data).kind = "data"
    BY DEF TunnelData
  <2> QED  BY <2>1, CarriesNone
<1>2. m.kind = "gateway"
  BY Zenon DEF ReceiveGatewayData
<1>3. ASSUME m.inner.kind = "records" PROVE \A r : Carries([m.inner EXCEPT !.to = r])
  <2>1. PICK to, msgId, records :
          m.inner = VariableTunnelBuild(to, msgId, records) /\ AsBuilt(records)
    BY <1>2, <1>3, Zenon DEF Carries, BuildMessage
  <2> SUFFICES ASSUME NEW r PROVE Carries([m.inner EXCEPT !.to = r])
    OBVIOUS
  <2>2. [m.inner EXCEPT !.to = r] = VariableTunnelBuild(r, msgId, records)
    BY <2>1 DEF VariableTunnelBuild
  <2>3. Carries(VariableTunnelBuild(r, msgId, records))
    BY <2>1, CarriesRecords, Zenon
  <2> QED  BY <2>2, <2>3, Zenon
<1> SUFFICES ASSUME NEW w \in net', w \notin net PROVE Carries(w)
  OBVIOUS
<1>4. \/ \E to, id, data : w = TunnelData(to, id, data)
      \/ m.inner.kind = "records" /\ \E r : w = [m.inner EXCEPT !.to = r]
  BY Zenon DEF ReceiveGatewayData
<1> QED  BY <1>1, <1>3, <1>4, Zenon

\* The data of a tunnel carries no records.
LEMMA DataSends ==
  ASSUME NEW m, ReceiveData(m) \/ CreatorSends(m)
  PROVE  \A w \in net' : w \in net \/ Carries(w)
<1> SUFFICES ASSUME NEW w \in net', w \notin net PROVE Carries(w)
  OBVIOUS
<1>1. (\E to, id, data : w = TunnelData(to, id, data)) \/ (\E o : w = SendOn(o))
  <2>1. CASE ReceiveData(m)
    <3> DEFINE h == part[m.to][m.id]
               d == Forward(h, m.data)
               f == ReceiveFragments(states[m.to], aborted[m.to], d.body)
    <3>1. \/ net' = net \/ net' = net \cup {TunnelData(h.next, h.nextId, d)}
          \/ net' = net \cup {SendOn(f.out[k]) : k \in DOMAIN f.out}
      BY <2>1, Zenon DEF ReceiveData
    <3> HIDE DEF h, d, f
    <3> QED  BY <3>1
  <2>2. CASE CreatorSends(m)
    BY <2>2, Zenon DEF CreatorSends
  <2> QED  BY <2>1, <2>2
<1>2. CASE \E to, id, data : w = TunnelData(to, id, data)
  <2>1. w.kind = "data"
    BY <1>2 DEF TunnelData
  <2> QED  BY <2>1, CarriesNone
<1>3. CASE \E o : w = SendOn(o)
  <2>1. w.kind = "whole" \/ (w.kind = "gateway" /\ w.inner.kind = "whole")
    BY <1>3 DEF SendOn, TunnelGateway
  <2> QED  BY <2>1, CarriesNone
<1> QED  BY <1>1, <1>2, <1>3

\* Initially nothing is built, sent or joined.
LEMMA InitHops == Init => HopsInv
  BY DEF Init, HopsInv, Tables, HopsAsBuilt

\* The invariant survives every step.
LEMMA NextHops == HopsInv /\ [Next]_vars => HopsInv'
<1> SUFFICES ASSUME HopsInv, [Next]_vars PROVE HopsInv'
  OBVIOUS
<1>1. Tables /\ Tables' /\ \A m \in net : Carries(m)
  BY StepsOfHops, GracefulStays, PollingStops, HopsAfter DEF HopsInv, Tables
<1>2. ASSUME BuildsGoOn, JoinsAsBuilt, \A m \in net' : m \in net \/ Carries(m)
      PROVE  HopsInv'
  <2>1. \A b \in Builds : status[b] # "NONE" => status'[b] # "NONE"
    BY <1>2, BuildsStay DEF HopsInv, BuildsGoOn
  <2> QED  BY <1>1, <1>2, <2>1, AsBuiltStays, HopsKept, Zenon
<1>3. ASSUME status' = status, part' = part PROVE BuildsGoOn /\ JoinsAsBuilt
  BY <1>3, Zenon DEF BuildsGoOn, JoinsAsBuilt
<1>4. ASSUME NEW m \in net, HandleRecords(m) PROVE HopsInv'
  <2>1. m.kind = "records" /\ ReceiveRecords(m.to, m.msgId, m.records)
    BY <1>4, Zenon DEF HandleRecords
  <2>2. AsBuilt(m.records)
    BY <1>1, <2>1, Zenon DEF Carries, BuildMessage
  <2> QED  BY <1>2, <2>1, <2>2, ReceiveRecordsHops, Zenon
<1>5. ASSUME NEW m \in net, ReceiveGatewayData(m) PROVE HopsInv'
  <2>1. status' = status /\ part' = part
    BY <1>5 DEF ReceiveGatewayData
  <2> QED  BY <1>1, <1>2, <1>3, <1>5, <2>1, GatewaySends, Zenon
<1>6. ASSUME NEW m, ReceiveData(m) \/ CreatorSends(m) PROVE HopsInv'
  <2>1. status' = status /\ part' = part
    BY <1>6, Zenon DEF ReceiveData, CreatorSends
  <2> QED  BY <1>2, <1>3, <1>6, <2>1, DataSends, Zenon
<1>7. ASSUME NEW r, NEW id, ExpireParticipating(r, id) PROVE HopsInv'
  <2>1. status' = status /\ net' = net /\ part' = [part EXCEPT ![r] = Erase(@, id)]
    BY <1>7 DEF ExpireParticipating
  <2> QED  BY <1>2, <2>1, Zenon DEF BuildsGoOn, JoinsAsBuilt
<1>8. CASE UNCHANGED <<status, part, net>>
  BY <1>2, <1>3, <1>8
<1>9. ASSUME NEW b \in Builds, BuildTunnel(b) PROVE HopsInv'
  <2>1. /\ status' = [status EXCEPT ![b] = "REQUESTED"] /\ part' = part
        /\ net' = net \cup {VariableTunnelBuild(b.hops[1], b.msgId, SecureRecords(b))}
    BY <1>9 DEF BuildTunnel
  <2>2. BuildsGoOn /\ JoinsAsBuilt
    <3>1. "REQUESTED" # "NONE"
      OBVIOUS
    <3> QED  BY <2>1, <3>1, Zenon DEF BuildsGoOn, JoinsAsBuilt
  <2>3. status'[b] # "NONE"
    <3>1. status = [x \in Builds |-> status[x]]
      BY DEF HopsInv
    <3> QED  BY <2>1, <3>1
  <2>4. Carries(VariableTunnelBuild(b.hops[1], b.msgId, SecureRecords(b)))'
    BY <2>3, SecuredNext, Zenon
  <2> QED  BY <1>1, <2>1, <2>2, <2>4, HopsKept
<1>10. ASSUME NEW r, ExpireFragments(r) \/ GracefulShutdown(r) \/ Callback(r) PROVE HopsInv'
  BY <1>8, <1>10 DEF ExpireFragments, GracefulShutdown, Callback
<1>11. CASE UNCHANGED vars
  BY <1>8, <1>11 DEF vars
<1> QED
  BY <1>4, <1>5, <1>6, <1>7, <1>9, <1>10, <1>11 DEF Next

\* Whatever is lost, repeated or reordered, and however tunnel ids collide, what
\* m_participating holds was written by a creator for this router under this id.
THEOREM HopsOnlyAsBuilt == Spec => []HopsAsBuilt
<1>1. HopsInv => HopsAsBuilt
  BY DEF HopsInv
<1> QED
  BY <1>1, InitHops, NextHops, PTL DEF Spec
=============================================================================
