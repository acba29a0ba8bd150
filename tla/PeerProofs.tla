------------------------------ MODULE PeerProofs ------------------------------
(***************************************************************************)
(* Proofs about the peer list and the progress of an establishment, from   *)
(* the invariant of EstablishmentProofs.                                   *)
(***************************************************************************)
EXTENDS EstablishmentProofs

\* What every step leaves true of an object that something refers to.
Advances(k) ==
  /\ Rank(es'[k].state) >= Rank(es[k].state)
  /\ es'[k].established >= es[k].established
  /\ es[k].state = "FAILURE" => es'[k].state = "FAILURE"
  /\ es[k].state = "CONFIRMED_SENT" => es'[k].state \in {"CONFIRMED_SENT", "FAILURE"}

\* The values of Rank.
LEMMA RankValues ==
  /\ Rank("UNKNOWN") = 0
  /\ Rank("REQUEST_SENT") = 1 /\ Rank("REQUEST_RECEIVED") = 1
  /\ Rank("CREATED_SENT") = 2 /\ Rank("CREATED_RECEIVED") = 2
  /\ Rank("CONFIRMED_SENT") = 3 /\ Rank("CONFIRMED_RECEIVED") = 3
  /\ Rank("FAILURE") = 4
  BY DEF Rank

\* An object that is left alone advances.
LEMMA StillAdvances ==
  ASSUME NEW k \in EsId, es[k] \in EstablishmentState, es'[k] = es[k]
  PROVE  Advances(k)
<1>1. es[k].state \in State /\ es[k].established \in Nat
  BY DEF EstablishmentState
<1>2. Rank(es[k].state) \in Nat
  BY <1>1, RankValues DEF State
<1> QED  BY <1>1, <1>2 DEF Advances

\* One object is replaced by a later version of itself.
LEMMA ChangeAdvances ==
  ASSUME IInv, NEW k \in EsId, NEW r \in EstablishmentState,
         es' = [es EXCEPT ![k] = r],
         r.established >= es[k].established,
         \/ r.state = es[k].state
         \/ r.state = "FAILURE"
         \/ es[k].state = "UNKNOWN" /\ r.state = "REQUEST_SENT"
         \/ es[k].state = "REQUEST_SENT" /\ r.state = "CREATED_RECEIVED"
         \/ es[k].state = "REQUEST_RECEIVED" /\ r.state = "CREATED_SENT"
         \/ es[k].state = "CREATED_SENT" /\ r.state = "CONFIRMED_RECEIVED"
         \/ es[k].state = "CREATED_RECEIVED" /\ r.state = "CONFIRMED_SENT"
  PROVE  \A j \in EsId : Advances(j)
<1>1. es \in [EsId -> EstablishmentState]
  BY DEF IInv, TypeOK
<1>2. es'[k] = r /\ \A j \in EsId : j # k => es'[j] = es[j]
  BY <1>1, EsUpdate
<1>3. es[k].state \in State /\ r.state \in State
  BY <1>1 DEF EstablishmentState
<1>4. Rank(r.state) >= Rank(es[k].state)
  BY <1>3, RankValues DEF State
<1>5. Advances(k)
  BY <1>2, <1>4 DEF Advances
<1>6. ASSUME NEW j \in EsId, j # k PROVE Advances(j)
  BY <1>1, <1>2, <1>6, StillAdvances
<1> QED  BY <1>5, <1>6

\* A new object takes an identity nothing refers to.
LEMMA FreshAdvances ==
  ASSUME IInv, NEW k \in EsId, Fresh(k), NEW r, es' = [es EXCEPT ![k] = r]
  PROVE  \A j \in EsId : Referenced(j) => Advances(j)
<1>1. es \in [EsId -> EstablishmentState] /\ ~Referenced(k)
  BY DEF IInv, TypeOK, Fresh, FreeEs
<1>2. \A j \in EsId : j # k => es'[j] = es[j]
  BY <1>1
<1> QED  BY <1>1, <1>2, StillAdvances

-----------------------------------------------------------------------------
\* The announcement of object k has been made, is queued, or has lost the race.
Announced(k) ==
  \/ es[k].established > 0
  \/ es[k].state = "CONFIRMED_SENT" /\ Queued(EsTask("stateChanged", k))
  \/ es[k].state = "FAILURE"

\* No two entries share a key of the container.
Distinct(S) == \A p, q \in S : p # q => p.ep # q.ep /\ p.rh # q.rh

\* p is an entry of the list, up to its idle timer.
Listed(p) == \E o \in peers : o.ep = p.ep /\ o.rh = p.rh /\ o.es = p.es

\* What every step leaves true of objects, queue and peer list.
Keeps ==
  /\ \A k \in EsId : Referenced(k) => Advances(k)
  /\ \A k \in EsId :
       es[k].state = "CONFIRMED_SENT" /\ Queued(EsTask("stateChanged", k)) =>
         es'[k].established > 0 \/ EsTask("stateChanged", k) \in Handlers(tasks')
  /\ Distinct(peers) => Distinct(peers')
  /\ \A p \in peers' : Listed(p) \/ Announced(p.es)'

\* addPeer keeps both keys unique.
LEMMA AddPeerDistinct ==
  ASSUME Distinct(peers), NEW k
  PROVE  Distinct(AddPeer(k))
<1>1. PICK n : n = [ep |-> es[k].ep, rh |-> es[k].rh, es |-> k, armed |-> TRUE]
  BY Zenon
<1>2. n.ep = es[k].ep /\ n.rh = es[k].rh
  BY <1>1
<1>3. CASE AddPeer(k) = peers
  BY <1>3
<1>4. CASE /\ AddPeer(k) = {p \in peers : p.rh # es[k].rh} \cup {n}
           /\ \A p \in {q \in peers : q.rh # es[k].rh} : p.ep # es[k].ep
  BY <1>2, <1>4 DEF Distinct
<1> QED  BY <1>1, <1>3, <1>4 DEF AddPeer

\* An entry whose idle timer changes keeps its keys.
LEMMA RearmDistinct ==
  ASSUME Distinct(peers), NEW o \in peers, NEW u, u.ep = o.ep, u.rh = o.rh
  PROVE  Distinct((peers \ {o}) \cup {u})
  BY DEF Distinct

\* A handler that posts q leaves the queued handlers behind it.
LEMMA QueueKept ==
  ASSUME IInv, tasks # <<>>, NEW q \in Seq(Task), tasks' = Tail(tasks) \o q
  PROVE  /\ Handlers(tasks) \ {Head(tasks)} \subseteq Handlers(tasks')
         /\ Handlers(q) \subseteq Handlers(tasks')
<1>1. tasks \in Seq(Task)
  BY DEF IInv, TypeOK
<1> QED  BY <1>1, FinishElems

\* The same for the stateChanged of an object, when another handler ran.
LEMMA AnnouncementKept ==
  ASSUME IInv, tasks # <<>>, NEW q \in Seq(Task), tasks' = Tail(tasks) \o q,
         NEW k, Head(tasks) # EsTask("stateChanged", k), Queued(EsTask("stateChanged", k))
  PROVE  EsTask("stateChanged", k) \in Handlers(tasks')
  BY QueueKept DEF Queued

\* The handlers that are posted are well typed.
LEMMA PostedTypes ==
  ASSUME ConstantsAssumption
  PROVE  /\ <<>> \in Seq(Task)
         /\ \A k \in EsId : <<EsTask("stateChanged", k)>> \in Seq(Task)
         /\ \A r \in Router \cup {NoRouter}, o \in {"established", "failure", "disconnected"} :
              <<RouterTask(o, r)>> \in Seq(Task)
<1>1. /\ \A k \in EsId : EsTask("stateChanged", k) \in Task
      /\ \A r \in Router \cup {NoRouter}, o \in {"established", "failure", "disconnected"} :
           RouterTask(o, r) \in Task
  BY TaskTypes DEF TaskOK
<1> QED  BY <1>1

\* Counting a signal.
LEMMA CountUpdate ==
  ASSUME NEW r \in EstablishmentState
  PROVE  /\ [r EXCEPT !.established = @ + 1] \in EstablishmentState
         /\ [r EXCEPT !.established = @ + 1].established = r.established + 1
         /\ [r EXCEPT !.established = @ + 1].state = r.state
         /\ [r EXCEPT !.failed = @ + 1] \in EstablishmentState
         /\ [r EXCEPT !.failed = @ + 1].established = r.established
         /\ [r EXCEPT !.failed = @ + 1].state = r.state
         /\ r.established \in Nat
  BY DEF EstablishmentState

\* Changing the state, with or without new keys, counts no signal.
LEMMA StateKeepsCount ==
  ASSUME NEW r \in EstablishmentState, NEW v \in State
  PROVE  /\ [r EXCEPT !.state = v] \in EstablishmentState
         /\ [r EXCEPT !.state = v].state = v
         /\ [r EXCEPT !.state = v].established = r.established
         /\ [r EXCEPT !.keyed = TRUE, !.state = v] \in EstablishmentState
         /\ [r EXCEPT !.keyed = TRUE, !.state = v].state = v
         /\ [r EXCEPT !.keyed = TRUE, !.state = v].established = r.established
         /\ r.established \in Nat
  BY Zenon DEF EstablishmentState

\* timeoutCallback.
LEMMA TimeoutKeeps ==
  ASSUME ConstantsAssumption, IInv, TimeoutCallback
  PROVE  Keeps
<1>1. PICK k \in EsId : Head(tasks).es = k /\ es[k] \in EstablishmentState
  BY RunningEs DEF TimeoutCallback, Running
<1>2. PICK r : r = [es[k] EXCEPT !.state = "FAILURE"]
  BY Zenon
<1>3. /\ r \in EstablishmentState /\ r.state = "FAILURE"
      /\ r.established = es[k].established /\ es[k].established \in Nat
  BY <1>1, <1>2, StateKeepsCount, Zenon DEF State
<1>4. es' = [es EXCEPT ![k] = r] /\ r.established >= es[k].established
  <2>1. es' = [es EXCEPT ![k] = r]
    BY <1>1, <1>2, Zenon DEF TimeoutCallback
  <2> QED  BY <1>3, <2>1
<1>5. \A j \in EsId : Advances(j)
  BY <1>3, <1>4, ChangeAdvances, Zenon
<1>6. PICK q \in Seq(Task) : tasks' = Tail(tasks) \o q
  BY <1>1, PostedTypes, Zenon DEF TimeoutCallback, Finish
<1>7. tasks # <<>> /\ \A j : Head(tasks) # EsTask("stateChanged", j)
  BY DEF TimeoutCallback, Running, EsTask
<1>8. peers' = peers
  BY DEF TimeoutCallback
<1>9. \A p \in peers' : Listed(p)
  BY <1>8 DEF Listed
<1> QED  BY <1>5, <1>6, <1>7, <1>8, <1>9, AnnouncementKept DEF Keeps

\* A handler of another operation that leaves the objects alone.
LEMMA QuietKeeps ==
  ASSUME IInv, tasks # <<>>, Head(tasks).op # "stateChanged", UNCHANGED es,
         NEW q \in Seq(Task), tasks' = Tail(tasks) \o q,
         Distinct(peers) => Distinct(peers'), \A p \in peers' : Listed(p)
  PROVE  Keeps
<1>1. \A j \in EsId : Advances(j)
  <2>1. es \in [EsId -> EstablishmentState]
    BY DEF IInv, TypeOK
  <2> QED  BY <2>1, StillAdvances
<1>2. \A j : Head(tasks) # EsTask("stateChanged", j)
  BY DEF EsTask
<1> QED  BY <1>1, <1>2, AnnouncementKept, Zenon DEF Keeps

\* peerTimeout, and a signal that reaches its slots.
LEMMA PeerTimeoutKeeps ==
  ASSUME ConstantsAssumption, IInv, PeerTimeout \/ EmitSignal
  PROVE  Keeps
<1>1. /\ tasks # <<>> /\ Head(tasks).op # "stateChanged" /\ UNCHANGED es
      /\ tasks' = Tail(tasks) \o <<>>
      /\ peers' \subseteq peers
  BY DEF PeerTimeout, EmitSignal, Running, Finish
<1>2. (Distinct(peers) => Distinct(peers')) /\ \A p \in peers' : Listed(p)
  BY <1>1 DEF Distinct, Listed
<1> QED  BY <1>1, <1>2, PostedTypes, QuietKeeps, Zenon

\* A packet for an establishment under way.
LEMMA EsPacketKeeps ==
  ASSUME ConstantsAssumption, IInv, NEW p \in Packet, NEW k \in EsId, HandleEsPacket(p, k),
         tasks # <<>>, Head(tasks).op = "packet"
  PROVE  Keeps
<1>1. es[k] \in EstablishmentState /\ peers' = peers
  BY DEF IInv, TypeOK, HandleEsPacket
<1>2. (Distinct(peers) => Distinct(peers')) /\ \A o \in peers' : Listed(o)
  BY <1>1 DEF Listed
<1>3. PICK q \in Seq(Task) : tasks' = Tail(tasks) \o q
  BY PostedTypes, Zenon DEF HandleEsPacket, HandleSessionCreated, HandleSessionConfirmed,
     HandleSessionDestroyed, Finish
<1>4. \A j : Head(tasks) # EsTask("stateChanged", j)
  BY DEF EsTask
<1>5. CASE UNCHANGED es
  BY <1>2, <1>3, <1>5, QuietKeeps, Zenon
<1>6. ASSUME NEW r \in EstablishmentState, es' = [es EXCEPT ![k] = r],
             r.established = es[k].established,
             \/ es[k].state = "REQUEST_SENT" /\ r.state = "CREATED_RECEIVED"
             \/ es[k].state = "CREATED_SENT" /\ r.state = "CONFIRMED_RECEIVED"
             \/ r.state = "FAILURE"
      PROVE  Keeps
  <2>1. r.established >= es[k].established
    BY <1>1, <1>6 DEF EstablishmentState
  <2>2. \A j \in EsId : Advances(j)
    BY <1>6, <2>1, ChangeAdvances, Zenon
  <2> QED  BY <1>2, <1>3, <1>4, <2>2, AnnouncementKept DEF Keeps
<1>7. CASE HandleSessionCreated(p, k)
  <2>1. PICK r : r = [es[k] EXCEPT !.signed = (p.signed = k), !.state = "CREATED_RECEIVED"]
    OBVIOUS
  <2>2. /\ r \in EstablishmentState /\ r.state = "CREATED_RECEIVED"
        /\ r.established = es[k].established
    BY <1>1, <2>1, Zenon DEF EstablishmentState, State
  <2>3. es' = [es EXCEPT ![k] = r] /\ es[k].state = "REQUEST_SENT"
    BY <1>7, <2>1, Zenon DEF HandleSessionCreated, VerifySignature
  <2> QED  BY <1>6, <2>2, <2>3, Zenon
<1>8. CASE HandleSessionConfirmed(p, k)
  <2>1. PICK r : r = [es[k] EXCEPT !.rh = p.rh, !.signed = (p.signed = k),
                                   !.state = "CONFIRMED_RECEIVED"]
    OBVIOUS
  <2>2. p.rh \in Router
    BY DEF Packet
  <2>3. /\ r \in EstablishmentState /\ r.state = "CONFIRMED_RECEIVED"
        /\ r.established = es[k].established
    BY <1>1, <2>1, <2>2, Zenon DEF EstablishmentState, State
  <2>4. es' = [es EXCEPT ![k] = r] /\ es[k].state = "CREATED_SENT"
    BY <1>8, <2>1, Zenon DEF HandleSessionConfirmed, VerifySignature
  <2> QED  BY <1>6, <2>3, <2>4, Zenon
<1>9. CASE HandleSessionDestroyed(p, k)
  <2>1. PICK r : r = [es[k] EXCEPT !.state = "FAILURE"]
    BY Zenon
  <2>2. r \in EstablishmentState /\ r.state = "FAILURE" /\ r.established = es[k].established
    BY <1>1, <2>1, StateKeepsCount, Zenon DEF State
  <2>3. es' = [es EXCEPT ![k] = r]
    BY <1>9, <2>1 DEF HandleSessionDestroyed
  <2> QED  BY <1>6, <2>2, <2>3, Zenon
<1> QED  BY <1>5, <1>7, <1>8, <1>9 DEF HandleEsPacket

\* A packet for a connected peer.
LEMMA PeerPacketKeeps ==
  ASSUME ConstantsAssumption, IInv, NEW p, NEW ps \in peers, HandlePeerPacket(p, ps),
         tasks # <<>>, Head(tasks).op = "packet"
  PROVE  Keeps
<1>1. ps \in PeerState /\ UNCHANGED es
  BY DEF IInv, TypeOK, HandlePeerPacket
<1>2. PICK u : u = [ps EXCEPT !.armed = TRUE]
  BY Zenon
<1>3. u.ep = ps.ep /\ u.rh = ps.rh /\ u.es = ps.es /\ ps.rh \in Router \cup {NoRouter}
  BY <1>1, <1>2 DEF PeerState
<1>4. \/ peers' \subseteq peers
      \/ peers' = (peers \ {ps}) \cup {u}
  BY <1>2 DEF HandlePeerPacket
<1>5. Distinct(peers) => Distinct(peers')
  <2>1. CASE peers' \subseteq peers
    BY <2>1 DEF Distinct
  <2>2. CASE peers' = (peers \ {ps}) \cup {u}
    BY <1>3, <2>2, RearmDistinct
  <2> QED  BY <1>4, <2>1, <2>2
<1>6. \A o \in peers' : Listed(o)
  BY <1>3, <1>4 DEF Listed
<1>7. PICK q \in Seq(Task) : tasks' = Tail(tasks) \o q
  BY <1>3, PostedTypes, Zenon DEF HandlePeerPacket, Finish
<1> QED  BY <1>1, <1>5, <1>6, <1>7, QuietKeeps, Zenon

\* A packet from an endpoint with neither a session nor an establishment.
LEMMA NewPacketKeeps ==
  ASSUME ConstantsAssumption, IInv, NEW p, HandleNewPacket(p),
         tasks # <<>>, Head(tasks).op = "packet"
  PROVE  Keeps
<1>1. peers' = peers
  BY DEF HandleNewPacket
<1>2. (Distinct(peers) => Distinct(peers')) /\ \A o \in peers' : Listed(o)
  BY <1>1 DEF Listed
<1>3. PICK q \in Seq(Task) : tasks' = Tail(tasks) \o q
  BY PostedTypes, Zenon DEF HandleNewPacket, Finish
<1>4. CASE UNCHANGED es
  BY <1>2, <1>3, <1>4, QuietKeeps, Zenon
<1>5. ASSUME NEW k \in EsId, Fresh(k), NEW r, es' = [es EXCEPT ![k] = r]
      PROVE  Keeps
  <2>1. \A j \in EsId : Referenced(j) => Advances(j)
    BY <1>5, FreshAdvances, Zenon
  <2>2. \A j : Head(tasks) # EsTask("stateChanged", j)
    BY DEF EsTask
  <2> QED  BY <1>2, <1>3, <2>1, <2>2, AnnouncementKept, Zenon DEF Keeps
<1> QED  BY <1>4, <1>5, Zenon DEF HandleNewPacket

\* packetReceived.
LEMMA PacketKeeps ==
  ASSUME ConstantsAssumption, IInv, PacketReceived
  PROVE  Keeps
<1>1. tasks # <<>> /\ Head(tasks).op = "packet"
  BY DEF PacketReceived, Running
<1>2. PICK p \in Packet : p = Head(tasks).pkt
  <2>1. tasks \in Seq(Task)  BY DEF IInv, TypeOK
  <2>2. Head(tasks) \in Handlers(tasks)  BY <1>1, <2>1 DEF Handlers
  <2> QED  BY <1>1, <2>2 DEF IInv, TasksConsistent, TaskOK
<1>3. ASSUME NEW ps \in peers, HandlePeerPacket(p, ps) PROVE Keeps
  BY <1>1, <1>3, PeerPacketKeeps
<1>4. CASE StateExists(p.ep) /\ HandleEsPacket(p, stateTable[p.ep])
  <2>1. PICK k \in EsId : k = stateTable[p.ep]
    BY <1>4 DEF StateExists, Packet, IInv, TypeOK
  <2> QED  BY <1>1, <1>4, <2>1, EsPacketKeeps
<1>5. CASE HandleNewPacket(p)
  BY <1>1, <1>5, NewPacketKeeps
<1>6. CASE DropPacket
  <2>1. /\ tasks' = Tail(tasks) \o <<>> /\ UNCHANGED es
        /\ (Distinct(peers) => Distinct(peers')) /\ \A o \in peers' : Listed(o)
    BY <1>6 DEF DropPacket, Finish, Listed
  <2> QED  BY <1>1, <2>1, PostedTypes, QuietKeeps, Zenon
<1> QED  BY <1>2, <1>3, <1>4, <1>5, <1>6 DEF PacketReceived

\* One case of stateChanged: object k becomes r, q is posted, and the peer list
\* stays or gains the announced object k.
LEMMA CaseKeeps ==
  ASSUME IInv, NEW k \in EsId, NEW r \in EstablishmentState, NEW q \in Seq(Task),
         es' = [es EXCEPT ![k] = r], tasks # <<>>, tasks' = Tail(tasks) \o q,
         Head(tasks).es = k, r.established >= es[k].established,
         es[k].state = "CONFIRMED_SENT" => r.established > 0,
         \/ r.state = es[k].state
         \/ r.state = "FAILURE"
         \/ es[k].state = "REQUEST_RECEIVED" /\ r.state = "CREATED_SENT"
         \/ es[k].state = "CREATED_RECEIVED" /\ r.state = "CONFIRMED_SENT",
         \/ peers' = peers
         \/ /\ peers' = AddPeer(k)
            /\ \/ r.established > 0
               \/ r.state = "CONFIRMED_SENT" /\ q = <<EsTask("stateChanged", k)>>
  PROVE  Keeps
<1>1. \A j \in EsId : Advances(j)
  BY ChangeAdvances, Zenon
<1>2. es'[k] = r
  BY DEF IInv, TypeOK
<1>3. \A j : j # k => Head(tasks) # EsTask("stateChanged", j)
  BY DEF EsTask
<1>4. ASSUME NEW j \in EsId, es[j].state = "CONFIRMED_SENT", Queued(EsTask("stateChanged", j))
      PROVE  es'[j].established > 0 \/ EsTask("stateChanged", j) \in Handlers(tasks')
  <2>1. CASE j = k
    BY <1>2, <1>4, <2>1
  <2>2. CASE j # k
    BY <1>3, <1>4, <2>2, AnnouncementKept, Zenon
  <2> QED  BY <2>1, <2>2
<1>5. Distinct(peers) => Distinct(peers')
  BY AddPeerDistinct
<1>6. ASSUME NEW p \in peers' PROVE Listed(p) \/ Announced(p.es)'
  <2>1. CASE p \in peers
    BY <2>1 DEF Listed
  <2>2. CASE p \notin peers
    <3>1. /\ p = [ep |-> es[k].ep, rh |-> es[k].rh, es |-> k, armed |-> TRUE]
          /\ \/ r.established > 0
             \/ r.state = "CONFIRMED_SENT" /\ q = <<EsTask("stateChanged", k)>>
      BY <1>6, <2>2 DEF AddPeer
    <3>2. p.es = k
      BY <3>1
    <3>3. q = <<EsTask("stateChanged", k)>> => EsTask("stateChanged", k) \in Handlers(tasks')
      <4>1. Handlers(q) \subseteq Handlers(tasks')
        BY QueueKept, Zenon
      <4> QED  BY <4>1, PostedElems
    <3>4. Announced(k)'
      BY <1>2, <3>1, <3>3 DEF Announced, Queued
    <3> QED  BY <3>2, <3>4
  <2> QED  BY <2>1, <2>2
<1> QED  BY <1>1, <1>4, <1>5, <1>6 DEF Keeps

\* stateChanged, one step for each case of its switch.
LEMMA StateChangedKeeps ==
  ASSUME ConstantsAssumption, IInv, StateChanged
  PROVE  Keeps
<1>1. PICK k \in EsId : Head(tasks).es = k /\ es[k] \in EstablishmentState
  BY RunningEs DEF StateChanged, Running
<1>2. /\ tasks # <<>> /\ es \in [EsId -> EstablishmentState]
      /\ es[k].established \in Nat /\ es[k].rh \in Router \cup {NoRouter}
  BY <1>1 DEF StateChanged, Running, IInv, TypeOK, EstablishmentState
<1>3. es[k].established >= es[k].established /\ es[k].established + 1 > 0
      /\ es[k].established + 1 >= es[k].established
  BY <1>2
<1>4. CASE LogState(k) \/ (EstablishmentFailed(k) /\ UNCHANGED es)
  <2>1. PICK q \in Seq(Task) : tasks' = Tail(tasks) \o q
    BY <1>2, <1>4, PostedTypes, Zenon DEF LogState, EstablishmentFailed, Finish
  <2>2. es' = [es EXCEPT ![k] = es[k]] /\ peers' = peers /\ es[k].state # "CONFIRMED_SENT"
    BY <1>2, <1>4 DEF LogState, EstablishmentFailed
  <2> QED  BY <1>1, <1>2, <1>3, <2>1, <2>2, CaseKeeps, Zenon
<1>5. CASE ProcessRequest(k)
  <2>1. PICK r : r = [es[k] EXCEPT !.keyed = TRUE, !.state = "CREATED_SENT"]
    OBVIOUS
  <2>2. r \in EstablishmentState /\ r.state = "CREATED_SENT" /\ r.established = es[k].established
    BY <1>1, <2>1, StateKeepsCount, Zenon DEF State
  <2>3. /\ es' = [es EXCEPT ![k] = r] /\ es[k].state = "REQUEST_RECEIVED" /\ peers' = peers
        /\ tasks' = Tail(tasks) \o <<EsTask("stateChanged", k)>>
    BY <1>5, <2>1, Zenon DEF ProcessRequest, Finish
  <2> QED  BY <1>1, <1>2, <1>3, <2>2, <2>3, PostedTypes, CaseKeeps, Zenon
<1>6. ASSUME es' = [es EXCEPT ![k].state = "FAILURE"], peers' = peers,
             es[k].state # "CONFIRMED_SENT",
             NEW q \in Seq(Task), tasks' = Tail(tasks) \o q
      PROVE  Keeps
  <2>1. PICK r : r = [es[k] EXCEPT !.state = "FAILURE"]
    BY Zenon
  <2>2. r \in EstablishmentState /\ r.state = "FAILURE" /\ r.established = es[k].established
    BY <1>1, <2>1, StateKeepsCount, Zenon DEF State
  <2>3. es' = [es EXCEPT ![k] = r]
    BY <1>6, <2>1
  <2> QED  BY <1>1, <1>2, <1>3, <1>6, <2>2, <2>3, CaseKeeps, Zenon
<1>7. CASE ProcessCreated(k) /\ es[k].signed
  <2>1. PICK r : r = [es[k] EXCEPT !.keyed = TRUE, !.state = "CONFIRMED_SENT"]
    OBVIOUS
  <2>2. r \in EstablishmentState /\ r.state = "CONFIRMED_SENT" /\ r.established = es[k].established
    BY <1>1, <2>1, StateKeepsCount, Zenon DEF State
  <2>3. /\ es' = [es EXCEPT ![k] = r] /\ es[k].state = "CREATED_RECEIVED" /\ peers' = AddPeer(k)
        /\ tasks' = Tail(tasks) \o <<EsTask("stateChanged", k)>>
    BY <1>7, <2>1, Zenon DEF ProcessCreated, Finish
  <2> QED  BY <1>1, <1>2, <1>3, <2>2, <2>3, PostedTypes, CaseKeeps, Zenon
<1>8. ASSUME es' = [es EXCEPT ![k].established = @ + 1], peers' \in {peers, AddPeer(k)},
             tasks' = Tail(tasks) \o <<RouterTask("established", es[k].rh)>>
      PROVE  Keeps
  <2>1. PICK r : r = [es[k] EXCEPT !.established = @ + 1]
    BY Zenon
  <2>2. /\ r \in EstablishmentState /\ r.state = es[k].state
        /\ r.established = es[k].established + 1
    BY <1>1, <2>1, CountUpdate, Zenon
  <2>3. es' = [es EXCEPT ![k] = r]
    BY <1>8, <2>1
  <2>4. PICK q \in Seq(Task) : q = <<RouterTask("established", es[k].rh)>>
    BY <1>2, PostedTypes, Zenon
  <2>5. r.established >= es[k].established /\ r.established > 0
    BY <1>2, <2>2
  <2>6. tasks' = Tail(tasks) \o q /\ (peers' = peers \/ peers' = AddPeer(k))
    BY <1>8, <2>4
  <2> QED  BY <1>1, <1>2, <2>2, <2>3, <2>5, <2>6, CaseKeeps, Zenon
<1>9. CASE EstablishmentFailed(k) /\ es' = [es EXCEPT ![k].failed = @ + 1]
  <2>1. PICK r : r = [es[k] EXCEPT !.failed = @ + 1]
    BY Zenon
  <2>2. r \in EstablishmentState /\ r.state = es[k].state /\ r.established = es[k].established
    BY <1>1, <2>1, CountUpdate, Zenon
  <2>3. es' = [es EXCEPT ![k] = r] /\ peers' = peers /\ es[k].state # "CONFIRMED_SENT"
    BY <1>9, <2>1 DEF EstablishmentFailed
  <2>4. PICK q \in Seq(Task) : tasks' = Tail(tasks) \o q
    BY <1>2, <1>9, PostedTypes, Zenon DEF EstablishmentFailed, Finish
  <2> QED  BY <1>1, <1>2, <1>3, <2>2, <2>3, <2>4, CaseKeeps, Zenon
<1>10. CASE ProcessCreated(k) /\ ~es[k].signed
  BY <1>6, <1>10, PostedTypes, Zenon DEF ProcessCreated, Finish
<1>11. CASE ProcessConfirmed(k)
  BY <1>6, <1>8, <1>11, PostedTypes, Zenon DEF ProcessConfirmed, Finish
<1>12. CASE ConfirmedSent(k)
  BY <1>8, <1>12 DEF ConfirmedSent, Finish
<1>13. CASE EstablishmentFailed(k)
  BY <1>4, <1>9, <1>13 DEF EstablishmentFailed
<1> QED
  BY <1>1, <1>4, <1>5, <1>7, <1>10, <1>11, <1>12, <1>13 DEF StateChanged

\* Something is queued behind the others, and the objects stay.
LEMMA ArrivalKeeps ==
  ASSUME IInv, UNCHANGED es, NEW t \in Task, tasks' = tasks \/ tasks' = Append(tasks, t),
         Distinct(peers) => Distinct(peers'), \A p \in peers' : Listed(p)
  PROVE  Keeps
<1>1. es \in [EsId -> EstablishmentState] /\ tasks \in Seq(Task)
  BY DEF IInv, TypeOK
<1>2. \A j \in EsId : Advances(j)
  BY <1>1, StillAdvances
<1>3. Handlers(tasks) \subseteq Handlers(tasks')
  <2>1. CASE tasks' = tasks
    BY <2>1
  <2>2. CASE tasks' = Append(tasks, t)
    <3>1. Handlers(Append(tasks, t)) = Handlers(tasks) \cup {t}
      BY <1>1, AppendElems
    <3> QED  BY <2>2, <3>1
  <2> QED  BY <2>1, <2>2
<1> QED  BY <1>2, <1>3 DEF Keeps, Queued

\* The router thread, the network and the timers.
LEMMA OutsideKeeps ==
  ASSUME ConstantsAssumption, IInv,
         \/ \E ri \in RouterInfo : ConnectBegin(ri)
         \/ ConnectEnd
         \/ GracefulShutdown
         \/ \E p \in Traffic : PacketArrives(p)
         \/ \E ep \in Endpoint : StateTimerExpires(ep)
         \/ \E p \in peers : PeerTimerExpires(p)
  PROVE  Keeps
<1>1. /\ es \in [EsId -> EstablishmentState] /\ tasks \in Seq(Task)
      /\ peers \subseteq PeerState /\ connecting \in EsId \cup {NoEs}
      /\ stateTimers \in [Endpoint -> EsId \cup {NoEs}]
  BY DEF IInv, TypeOK
<1>2. ASSUME peers' = peers PROVE (Distinct(peers) => Distinct(peers')) /\ \A p \in peers' : Listed(p)
  BY <1>2 DEF Listed
<1>3. ASSUME NEW ri \in RouterInfo, ConnectBegin(ri) PROVE Keeps
  <2>1. PICK k \in EsId : \E r : Fresh(k) /\ es' = [es EXCEPT ![k] = r]
    BY <1>3, Zenon DEF ConnectBegin
  <2>2. \A j \in EsId : Referenced(j) => Advances(j)
    BY <2>1, FreshAdvances, Zenon
  <2>3. tasks' = tasks /\ peers' = peers
    BY <1>3 DEF ConnectBegin
  <2> QED  BY <1>2, <2>2, <2>3 DEF Keeps, Queued
<1>4. CASE ConnectEnd
  <2>1. PICK k \in EsId : connecting = k /\ es[k].state = "UNKNOWN"
    BY <1>1, <1>4 DEF ConnectEnd, IInv, ConnectExclusive
  <2>2. PICK r : r = [es[k] EXCEPT !.state = "REQUEST_SENT"]
    BY Zenon
  <2>3. /\ r \in EstablishmentState /\ r.state = "REQUEST_SENT"
        /\ r.established = es[k].established /\ es[k].established \in Nat
    <3>1. es[k] \in EstablishmentState /\ "REQUEST_SENT" \in State
      BY <1>1 DEF State
    <3> QED  BY <2>2, <3>1, StateKeepsCount, Zenon
  <2>4. es' = [es EXCEPT ![k] = r] /\ r.established >= es[k].established
    <3>1. es' = [es EXCEPT ![k] = r]
      BY <1>4, <2>1, <2>2 DEF ConnectEnd
    <3> QED  BY <2>3, <3>1
  <2>5. \A j \in EsId : Advances(j)
    BY <2>1, <2>3, <2>4, ChangeAdvances, Zenon
  <2>6. Handlers(tasks) \subseteq Handlers(tasks') /\ peers' = peers
    <3>1. EsTask("stateChanged", k) \in Task
      BY TaskTypes DEF TaskOK
    <3> QED  BY <1>1, <1>4, <2>1, <3>1, AppendElems DEF ConnectEnd
  <2> QED  BY <1>2, <2>5, <2>6 DEF Keeps, Queued
<1>5. ASSUME NEW p \in Traffic, PacketArrives(p) PROVE Keeps
  <2>1. PacketTask(p) \in Task
    BY <1>5, TaskTypes DEF TaskOK, ConstantsAssumption
  <2> QED  BY <1>2, <1>5, <2>1, ArrivalKeeps DEF PacketArrives
<1>6. ASSUME NEW ep \in Endpoint, StateTimerExpires(ep) PROVE Keeps
  <2>1. EsTask("timeout", stateTimers[ep]) \in Task
    BY <1>1, <1>6, TaskTypes DEF TaskOK, StateTimerExpires
  <2> QED  BY <1>2, <1>6, <2>1, ArrivalKeeps, Zenon DEF StateTimerExpires
<1>7. ASSUME NEW p \in peers, PeerTimerExpires(p) PROVE Keeps
  <2>1. PICK u : u = [p EXCEPT !.armed = FALSE]
    BY Zenon
  <2>2. u.ep = p.ep /\ u.rh = p.rh /\ u.es = p.es /\ p.rh \in Router \cup {NoRouter}
    BY <1>1, <2>1 DEF PeerState
  <2>3. peers' = (peers \ {p}) \cup {u} /\ UNCHANGED es
    BY <1>7, <2>1 DEF PeerTimerExpires
  <2>4. Distinct(peers) => Distinct(peers')
    BY <2>2, <2>3, RearmDistinct
  <2>5. \A o \in peers' : Listed(o)
    BY <2>2, <2>3, Zenon DEF Listed
  <2>6. RouterTask("peerTimeout", p.rh) \in Task
    BY <2>2, TaskTypes, Zenon DEF TaskOK
  <2> QED  BY <1>7, <2>3, <2>4, <2>5, <2>6, ArrivalKeeps, Zenon DEF PeerTimerExpires
<1>8. CASE GracefulShutdown
  <2>1. UNCHANGED <<es, tasks, peers>>
    BY <1>8 DEF GracefulShutdown
  <2>2. \A j \in EsId : Advances(j)
    BY <1>1, <2>1, StillAdvances
  <2> QED  BY <1>2, <2>1, <2>2 DEF Keeps, Queued
<1> QED  BY <1>3, <1>4, <1>5, <1>6, <1>7, <1>8

\* Every step.
LEMMA NextKeeps == ConstantsAssumption /\ IInv /\ [Next]_vars => Keeps
<1> SUFFICES ASSUME ConstantsAssumption, IInv, [Next]_vars
             PROVE  Keeps
  OBVIOUS
<1>1. CASE ServiceThread
  BY <1>1, StateChangedKeeps, TimeoutKeeps, PacketKeeps, PeerTimeoutKeeps DEF ServiceThread
<1>2. CASE Next /\ ~ServiceThread
  BY <1>2, OutsideKeeps DEF Next
<1>3. CASE UNCHANGED vars
  <2>1. es \in [EsId -> EstablishmentState] /\ UNCHANGED <<es, tasks, peers>>
    BY <1>3 DEF vars, IInv, TypeOK
  <2>2. \A j \in EsId : Advances(j)
    BY <2>1, StillAdvances
  <2>3. \A p \in peers' : Listed(p)
    BY <2>1 DEF Listed
  <2> QED  BY <2>1, <2>2, <2>3 DEF Keeps, Queued
<1> QED  BY <1>1, <1>2, <1>3

-----------------------------------------------------------------------------
\* Both properties of the list and the invariant they rest on.
PeerInv == IInv /\ PeersDistinct /\ PeerAnnounced

\* Two entries with one object would share its endpoint.
LEMMA DistinctObjects ==
  ASSUME IInv
  PROVE  PeersDistinct <=> Distinct(peers)
  BY DEF IInv, PeerAuthenticated, PeersDistinct, Distinct

\* Every step keeps the list's invariant.
LEMMA NextPeers == ConstantsAssumption /\ PeerInv /\ [Next]_vars => PeerInv'
<1> SUFFICES ASSUME ConstantsAssumption, PeerInv, [Next]_vars
             PROVE  PeerInv'
  OBVIOUS
<1>1. IInv /\ IInv' /\ Keeps
  BY NextInv, NextKeeps DEF PeerInv
<1>2. PeersDistinct'
  <2>1. Distinct(peers) /\ Distinct(peers')
    BY <1>1, DistinctObjects DEF PeerInv, Keeps
  <2>2. \A p, q \in peers' : p.es = q.es => p.ep = q.ep
    BY <1>1 DEF IInv, PeerAuthenticated
  <2> QED  BY <2>1, <2>2 DEF PeersDistinct, Distinct
<1>3. ASSUME NEW p \in peers' PROVE Announced(p.es)'
  <2>1. CASE Listed(p)
    <3>1. PICK k \in EsId : k = p.es /\ Announced(k) /\ Referenced(k)
      BY <2>1 DEF Listed, PeerInv, PeerAnnounced, Announced, Referenced, IInv, TypeOK, PeerState
    <3>2. /\ es[k].established \in Nat /\ es'[k].established \in Nat
          /\ Advances(k)
      BY <1>1, <3>1, Zenon DEF Keeps, IInv, TypeOK, EstablishmentState
    <3>3. CASE es[k].established > 0
      <4>1. es'[k].established > 0
        BY <3>2, <3>3 DEF Advances
      <4> QED  BY <3>1, <4>1 DEF Announced
    <3>4. CASE es[k].state = "FAILURE"
      BY <3>1, <3>2, <3>4, Zenon DEF Announced, Advances
    <3>5. CASE es[k].state = "CONFIRMED_SENT" /\ Queued(EsTask("stateChanged", k))
      <4>1. es'[k].state \in {"CONFIRMED_SENT", "FAILURE"}
        BY <3>2, <3>5 DEF Advances
      <4>2. es'[k].established > 0 \/ EsTask("stateChanged", k) \in Handlers(tasks')
        BY <1>1, <3>5 DEF Keeps
      <4> QED  BY <3>1, <4>1, <4>2 DEF Announced, Queued
    <3> QED  BY <3>1, <3>3, <3>4, <3>5 DEF Announced
  <2> QED  BY <1>1, <1>3, <2>1 DEF Keeps
<1>4. PeerAnnounced'
  BY <1>3 DEF PeerAnnounced, Announced
<1> QED  BY <1>1, <1>2, <1>4 DEF PeerInv

\* The list is empty at the start.
LEMMA InitPeers == ConstantsAssumption /\ Init => PeerInv
<1>1. Init => PeersDistinct /\ PeerAnnounced
  BY DEF Init, PeersDistinct, PeerAnnounced
<1> QED  BY <1>1, InitInv DEF PeerInv

\* The invariant of the peer list.
THEOREM PeerInvariance == Spec => []PeerInv
<1>1. ConstantsAssumption
  BY ConstantsAssumption
<1> QED  BY <1>1, InitPeers, NextPeers, PTL DEF Spec

\* Whatever sessions complete, time out and replace each other, no two entries
\* of PeerStateList share an endpoint, a router or a session key.
THEOREM PeersStayDistinct == Spec => []PeersDistinct
<1>1. PeerInv => PeersDistinct
  BY DEF PeerInv
<1> QED  BY <1>1, PeerInvariance, PTL

\* addPeer never outruns its announcement: a listed peer has been announced, will
\* be by a handler that is queued, or its timer won the race.
THEOREM PeersAnnounced == Spec => []PeerAnnounced
<1>1. PeerInv => PeerAnnounced
  BY DEF PeerInv
<1> QED  BY <1>1, PeerInvariance, PTL

\* No order of packets, timers and handlers moves an establishment back that
\* something still refers to.
THEOREM NeverBack == Spec => ForwardOnly
<1>1. ConstantsAssumption
  BY ConstantsAssumption
<1>2. ConstantsAssumption /\ IInv /\ [Next]_vars =>
        [\A k \in EsId : Referenced(k) => Rank(es'[k].state) >= Rank(es[k].state)]_vars
  BY NextKeeps DEF Keeps, Advances
<1> QED  BY <1>1, <1>2, Invariance, PTL DEF Spec, ForwardOnly
=============================================================================
