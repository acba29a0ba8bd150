---------------------------- MODULE Establishment ----------------------------
(***************************************************************************)
(* Session establishment of the SSU transport of ONE router, as its two    *)
(* threads run it: the service thread of the transport, which executes the *)
(* FIFO of handlers posted to Context::ios (received packets, expired      *)
(* timers, EstablishmentManager::stateChanged, signals), and the router    *)
(* thread, which calls SSU::connect.  The remote routers and the network   *)
(* are the environment: any packet of Traffic may arrive, any number of    *)
(* times, in any order or never.                                           *)
(*                                                                         *)
(* An EstablishmentState is a heap object shared by the state table, the   *)
(* timer's handler and the posted handlers (std::shared_ptr), so it has an *)
(* identity of its own: a handler may still hold an object that the table  *)
(* has already dropped.  Identities that nothing refers to are reused.     *)
(***************************************************************************)
EXTENDS Naturals, Sequences, FiniteSets

CONSTANTS
  Endpoint,     \* UDP endpoints of remote routers
  Router,       \* hashes of remote routers
  RouterInfo,   \* the <<router, endpoint>> pairs SSU::connect is called with
  Own,          \* this router's hash, the key of a first packet to it
  NoRouter,     \* the identity of an inbound session before SESSION_CONFIRMED
  NoPacket,
  MaxEs,        \* bound: EstablishmentState objects alive at one time
  MaxTasks,     \* bound: the queue length up to which packets are accepted
  Traffic       \* the packets the environment may send

EsId == 1..MaxEs
NoEs == 0

State == {"UNKNOWN", "REQUEST_SENT", "REQUEST_RECEIVED", "CREATED_SENT",
          "CREATED_RECEIVED", "CONFIRMED_SENT", "CONFIRMED_RECEIVED", "FAILURE"}
PayloadType == {"SESSION_REQUEST", "SESSION_CREATED", "SESSION_CONFIRMED",
                "SESSION_DESTROY", "DATA"}

\* The MAC and session key of a packet: the hash of the router it is first
\* sent to, or the Diffie-Hellman secret of one establishment, named by it.
Key == {Own} \cup Router \cup EsId

\* wellFormed: the IP size is 4 or 16.  signed: the establishment over whose
\* exchanged values a valid signature was made, if there is one.  rh: the
\* identity a SESSION_CONFIRMED carries.
Packet == [ep : Endpoint, type : PayloadType, key : Key,
           wellFormed : BOOLEAN, signed : EsId \cup {NoEs}, rh : Router]

ASSUME ConstantsAssumption ==
  /\ MaxEs \in Nat /\ MaxTasks \in Nat
  /\ Endpoint # {}
  /\ RouterInfo \subseteq Router \X Endpoint
  /\ Traffic \subseteq Packet
  /\ NoRouter \notin Router
  /\ NoPacket \notin Packet

VARIABLES
  es,           \* the EstablishmentState objects
  stateTable,   \* EstablishmentManager::m_stateTable
  stateTimers,  \* the object whose timer in m_stateTimers is still pending
  tasks,        \* handlers posted to Context::ios and not yet run
  peers,        \* PeerStateList::m_container
  accepting,    \* Context::acceptingNewPeers
  connecting    \* the object of the SSU::connect under way on the router thread

vars == <<es, stateTable, stateTimers, tasks, peers, accepting, connecting>>

EstablishmentState ==
  [ep : Endpoint, dir : {"INBOUND", "OUTBOUND"}, rh : Router \cup {NoRouter},
   state : State, keyed : BOOLEAN, signed : BOOLEAN,
   established : Nat,   \* establishedSignals posted for this object
   failed : Nat]        \* failureSignals posted for this object

Op == {"packet", "stateChanged", "timeout", "peerTimeout",
       "established", "failure", "disconnected"}

Task == [op : Op, es : EsId \cup {NoEs}, pkt : Packet \cup {NoPacket},
         rh : Router \cup {NoRouter}]

PeerState == [ep : Endpoint, rh : Router \cup {NoRouter}, es : EsId, armed : BOOLEAN]

PacketTask(p) == [op |-> "packet", es |-> NoEs, pkt |-> p, rh |-> NoRouter]
EsTask(o, k) == [op |-> o, es |-> k, pkt |-> NoPacket, rh |-> NoRouter]
RouterTask(o, r) == [op |-> o, es |-> NoEs, pkt |-> NoPacket, rh |-> r]

-----------------------------------------------------------------------------
(* The establishment objects                                                *)

New(ep, dir, rh) ==
  [ep |-> ep, dir |-> dir, rh |-> rh, state |-> "UNKNOWN", keyed |-> FALSE,
   signed |-> FALSE, established |-> 0, failed |-> 0]

\* The key getMacKey()/getSessionKey() return for object k.
MacKey(k) ==
  IF es[k].keyed THEN k ELSE IF es[k].dir = "INBOUND" THEN Own ELSE es[k].rh

\* Packet::verify: the MAC was computed with this key.
Verify(p, key) == p.key = key

\* The signature p carries is over the values exchanged in establishment k, by
\* the identity k holds.
VerifySignature(p, k) == p.signed = k

Handlers(q) == {q[i] : i \in 1..Len(q)}

Queued(t) == t \in Handlers(tasks)

Referenced(k) ==
  \/ \E ep \in Endpoint : stateTable[ep] = k \/ stateTimers[ep] = k
  \/ connecting = k
  \/ \E p \in peers : p.es = k
  \/ \E t \in Handlers(tasks) :
       \/ t.es = k
       \/ t.op = "packet" /\ k \in {t.pkt.key, t.pkt.signed}

FreeEs == {k \in EsId : ~Referenced(k)}

\* k is the object the next allocation returns.
Fresh(k) == k \in FreeEs /\ \A j \in FreeEs : k <= j

\* Objects that remain for the requests not yet handled: keeps the bound MaxEs
\* from ever blocking a handler.
QueuedRequests ==
  Cardinality({i \in 1..Len(tasks) :
     tasks[i].op = "packet" /\ tasks[i].pkt.type = "SESSION_REQUEST"})

RoomForObject == Cardinality(FreeEs) > QueuedRequests

StateExists(ep) == stateTable[ep] # NoEs

(* The peer list                                                             *)

PeerExists(ep) == \E p \in peers : p.ep = ep

\* addPeer: the container has two unique keys, the endpoint and the hash.  An
\* entry with the same hash is replaced; the new entry is silently refused when
\* its endpoint belongs to an entry of another hash.
AddPeer(k) ==
  LET others == {p \in peers : p.rh # es[k].rh}
  IN  IF \E p \in others : p.ep = es[k].ep
      THEN peers
      ELSE others \cup {[ep |-> es[k].ep, rh |-> es[k].rh, es |-> k, armed |-> TRUE]}

-----------------------------------------------------------------------------
(* The router thread: SSU::connect                                          *)

\* connect() up to the point where the request is on the wire: both mutexes are
\* taken, the object is in the table, its state is still UNKNOWN.
ConnectBegin(ri) ==
  LET rh == ri[1]  ep == ri[2] IN
  /\ connecting = NoEs
  /\ ~StateExists(ep) /\ ~PeerExists(ep)
  /\ RoomForObject
  /\ \E k \in EsId :
       /\ Fresh(k)
       /\ es' = [es EXCEPT ![k] = New(ep, "OUTBOUND", rh)]
       /\ stateTable' = [stateTable EXCEPT ![ep] = k]
       /\ connecting' = k
  /\ UNCHANGED <<stateTimers, tasks, peers, accepting>>

\* The rest of connect(): the state changes, stateChanged is posted, the 10 s
\* timer is armed and the mutexes are released.
ConnectEnd ==
  /\ connecting # NoEs
  /\ es' = [es EXCEPT ![connecting].state = "REQUEST_SENT"]
  /\ tasks' = Append(tasks, EsTask("stateChanged", connecting))
  /\ stateTimers' = [stateTimers EXCEPT ![es[connecting].ep] = connecting]
  /\ connecting' = NoEs
  /\ UNCHANGED <<stateTable, peers, accepting>>

GracefulShutdown ==
  /\ accepting
  /\ accepting' = FALSE
  /\ UNCHANGED <<es, stateTable, stateTimers, tasks, peers, connecting>>

-----------------------------------------------------------------------------
(* What the network and the timers add to the queue of Context::ios          *)

\* The remote end of establishment k has computed the secret of k.
RemoteKnows(k) ==
  /\ Referenced(k)
  /\ es[k].keyed \/ es[k].dir = "OUTBOUND"

PacketArrives(p) ==
  /\ Len(tasks) < MaxTasks
  /\ \A k \in {p.key, p.signed} \cap EsId : RemoteKnows(k)
  /\ p.type = "SESSION_REQUEST" => RoomForObject
  /\ tasks' = Append(tasks, PacketTask(p))
  /\ UNCHANGED <<es, stateTable, stateTimers, peers, accepting, connecting>>

\* The 10 s timer of the establishment at ep expires: its handler is queued and
\* a later cancel() no longer stops it.
StateTimerExpires(ep) ==
  /\ stateTimers[ep] # NoEs
  /\ tasks' = Append(tasks, EsTask("timeout", stateTimers[ep]))
  /\ stateTimers' = [stateTimers EXCEPT ![ep] = NoEs]
  /\ UNCHANGED <<es, stateTable, peers, accepting, connecting>>

PeerTimerExpires(p) ==
  /\ p.armed
  /\ tasks' = Append(tasks, RouterTask("peerTimeout", p.rh))
  /\ peers' = (peers \ {p}) \cup {[p EXCEPT !.armed = FALSE]}
  /\ UNCHANGED <<es, stateTable, stateTimers, accepting, connecting>>

-----------------------------------------------------------------------------
(* The service thread: one handler of the queue at a time                    *)

Running(o) == tasks # <<>> /\ Head(tasks).op = o

Finish(posted) == tasks' = Tail(tasks) \o posted

\* connect() holds the mutexes of the peer list and of the state table.
Unlocked == connecting = NoEs

\* Wrong delState: the timer goes, the table entry stays.
DelStateTimerOnly(ep) ==
  /\ Unlocked
  /\ stateTimers' = [stateTimers EXCEPT ![ep] = NoEs]
  /\ UNCHANGED stateTable

DelState(ep) ==
  /\ Unlocked
  /\ stateTable' = [stateTable EXCEPT ![ep] = NoEs]
  /\ stateTimers' = [stateTimers EXCEPT ![ep] = NoEs]

LogState(k) ==
  /\ es[k].state \in {"REQUEST_SENT", "CREATED_SENT"}
  /\ Finish(<<>>)
  /\ UNCHANGED <<es, stateTable, stateTimers, peers>>

ProcessRequest(k) ==
  /\ es[k].state = "REQUEST_RECEIVED"
  /\ es' = [es EXCEPT ![k].keyed = TRUE, ![k].state = "CREATED_SENT"]
  /\ Finish(<<EsTask("stateChanged", k)>>)
  /\ UNCHANGED <<stateTable, stateTimers, peers>>

\* Wrong processCreated: the result of verifyCreationSignature() is not used.
ProcessCreatedUnverified(k) ==
  /\ es[k].state = "CREATED_RECEIVED"
  /\ Unlocked
  /\ peers' = AddPeer(k)
  /\ es' = [es EXCEPT ![k].keyed = TRUE, ![k].state = "CONFIRMED_SENT"]
  /\ Finish(<<EsTask("stateChanged", k)>>)
  /\ UNCHANGED <<stateTable, stateTimers>>

\* Wrong processCreated: the closing post(state) is missing.
ProcessCreatedUnposted(k) ==
  /\ es[k].state = "CREATED_RECEIVED" /\ es[k].signed
  /\ Unlocked
  /\ peers' = AddPeer(k)
  /\ es' = [es EXCEPT ![k].keyed = TRUE, ![k].state = "CONFIRMED_SENT"]
  /\ Finish(<<>>)
  /\ UNCHANGED <<stateTable, stateTimers>>

\* A bad signature leaves the object to its timer: nothing is posted.
ProcessCreated(k) ==
  /\ es[k].state = "CREATED_RECEIVED"
  /\ \/ /\ ~es[k].signed
        /\ es' = [es EXCEPT ![k].state = "FAILURE"]
        /\ Finish(<<>>)
        /\ UNCHANGED peers
     \/ /\ es[k].signed
        /\ Unlocked
        /\ peers' = AddPeer(k)
        /\ es' = [es EXCEPT ![k].keyed = TRUE, ![k].state = "CONFIRMED_SENT"]
        /\ Finish(<<EsTask("stateChanged", k)>>)
  /\ UNCHANGED <<stateTable, stateTimers>>

ConfirmedSent(k) ==
  /\ es[k].state = "CONFIRMED_SENT"
  /\ es' = [es EXCEPT ![k].established = @ + 1]
  /\ Finish(<<RouterTask("established", es[k].rh)>>)
  /\ DelState(es[k].ep)
  /\ UNCHANGED peers

\* Wrong processConfirmed: the peer is announced but never listed.
ProcessConfirmedUnlisted(k) ==
  /\ es[k].state = "CONFIRMED_RECEIVED" /\ es[k].signed
  /\ DelState(es[k].ep)
  /\ es' = [es EXCEPT ![k].established = @ + 1]
  /\ Finish(<<RouterTask("established", es[k].rh)>>)
  /\ UNCHANGED peers

\* Wrong processConfirmed: it ends in post(state), as processCreated does.
ProcessConfirmedReposted(k) ==
  /\ es[k].state = "CONFIRMED_RECEIVED"
  /\ \/ /\ ~es[k].signed
        /\ es' = [es EXCEPT ![k].state = "FAILURE"]
        /\ Finish(<<EsTask("stateChanged", k)>>)
        /\ UNCHANGED <<stateTable, stateTimers, peers>>
     \/ /\ es[k].signed
        /\ peers' = AddPeer(k)
        /\ DelState(es[k].ep)
        /\ es' = [es EXCEPT ![k].established = @ + 1]
        /\ Finish(<<RouterTask("established", es[k].rh), EsTask("stateChanged", k)>>)

ProcessConfirmed(k) ==
  /\ es[k].state = "CONFIRMED_RECEIVED"
  /\ \/ /\ ~es[k].signed
        /\ es' = [es EXCEPT ![k].state = "FAILURE"]
        /\ Finish(<<EsTask("stateChanged", k)>>)
        /\ UNCHANGED <<stateTable, stateTimers, peers>>
     \/ /\ es[k].signed
        /\ peers' = AddPeer(k)
        /\ DelState(es[k].ep)
        /\ es' = [es EXCEPT ![k].established = @ + 1]
        /\ Finish(<<RouterTask("established", es[k].rh)>>)

\* delState takes the endpoint, not the object: whatever the table holds there
\* goes, with its timer.
EstablishmentFailed(k) ==
  /\ es[k].state \in {"UNKNOWN", "FAILURE"}
  /\ IF es[k].dir = "OUTBOUND"
     THEN /\ es' = [es EXCEPT ![k].failed = @ + 1]
          /\ Finish(<<RouterTask("failure", es[k].rh)>>)
     ELSE /\ Finish(<<>>)
          /\ UNCHANGED es
  /\ DelState(es[k].ep)
  /\ UNCHANGED peers

StateChanged ==
  /\ Running("stateChanged")
  /\ LET k == Head(tasks).es IN
       \/ LogState(k) \/ ProcessRequest(k) \/ ProcessCreated(k)
       \/ ConfirmedSent(k) \/ ProcessConfirmed(k) \/ EstablishmentFailed(k)
  /\ UNCHANGED <<accepting, connecting>>

\* Wrong timeoutCallback: nobody is told.
TimeoutCallbackUnposted ==
  /\ Running("timeout")
  /\ es' = [es EXCEPT ![Head(tasks).es].state = "FAILURE"]
  /\ Finish(<<>>)
  /\ UNCHANGED <<stateTable, stateTimers, peers, accepting, connecting>>

\* timeoutCallback without an error: the object fails whatever its state is.
TimeoutCallback ==
  /\ Running("timeout")
  /\ LET k == Head(tasks).es IN
       /\ es' = [es EXCEPT ![k].state = "FAILURE"]
       /\ Finish(<<EsTask("stateChanged", k)>>)
  /\ UNCHANGED <<stateTable, stateTimers, peers, accepting, connecting>>

-----------------------------------------------------------------------------
(* PacketHandler::packetReceived                                             *)

\* A packet from the endpoint of a connected peer.  A verified one restarts the
\* peer's idle timer; SESSION_DESTROY then removes the peer.
HandlePeerPacket(p, ps) ==
  /\ IF ~Verify(p, ps.es)
     THEN /\ UNCHANGED peers
          /\ Finish(<<>>)
     ELSE IF p.type = "SESSION_DESTROY"
     THEN /\ peers' = peers \ {ps}
          /\ Finish(<<RouterTask("disconnected", ps.rh)>>)
     ELSE /\ peers' = (peers \ {ps}) \cup {[ps EXCEPT !.armed = TRUE]}
          /\ Finish(<<>>)
  /\ UNCHANGED <<es, stateTable, stateTimers>>

HandleSessionCreated(p, k) ==
  /\ p.type = "SESSION_CREATED"
  /\ es[k].state = "REQUEST_SENT" /\ p.wellFormed
  /\ es' = [es EXCEPT ![k].signed = VerifySignature(p, k), ![k].state = "CREATED_RECEIVED"]
  /\ Finish(<<EsTask("stateChanged", k)>>)

HandleSessionConfirmed(p, k) ==
  /\ p.type = "SESSION_CONFIRMED"
  /\ es[k].state = "CREATED_SENT"
  /\ es' = [es EXCEPT ![k].rh = p.rh, ![k].signed = VerifySignature(p, k),
                      ![k].state = "CONFIRMED_RECEIVED"]
  /\ Finish(<<EsTask("stateChanged", k)>>)

HandleSessionDestroyed(p, k) ==
  /\ p.type = "SESSION_DESTROY"
  /\ es' = [es EXCEPT ![k].state = "FAILURE"]
  /\ Finish(<<EsTask("stateChanged", k)>>)

\* The early returns and the default case.
IgnoredByEs(p, k) ==
  \/ ~Verify(p, MacKey(k))
  \/ p.type \in {"SESSION_REQUEST", "DATA"}
  \/ p.type = "SESSION_CREATED" /\ ~(es[k].state = "REQUEST_SENT" /\ p.wellFormed)
  \/ p.type = "SESSION_CONFIRMED" /\ es[k].state # "CREATED_SENT"

\* A packet from the endpoint of an establishment under way.
HandleEsPacket(p, k) ==
  /\ \/ /\ Verify(p, MacKey(k))
        /\ \/ HandleSessionCreated(p, k)
           \/ HandleSessionConfirmed(p, k)
           \/ HandleSessionDestroyed(p, k)
     \/ /\ IgnoredByEs(p, k)
        /\ Finish(<<>>)
        /\ UNCHANGED es
  /\ UNCHANGED <<stateTable, stateTimers, peers>>

\* A packet from an unknown endpoint.  The object, its table entry and its timer
\* exist before the request is parsed; a malformed one leaves it UNKNOWN.
HandleNewPacket(p) ==
  /\ IF Verify(p, Own) /\ p.type = "SESSION_REQUEST"
     THEN \E k \in EsId :
            /\ Fresh(k)
            /\ stateTable' = [stateTable EXCEPT ![p.ep] = k]
            /\ stateTimers' = [stateTimers EXCEPT ![p.ep] = k]
            /\ IF p.wellFormed
               THEN /\ es' = [es EXCEPT ![k] = [New(p.ep, "INBOUND", NoRouter)
                                                EXCEPT !.state = "REQUEST_RECEIVED"]]
                    /\ Finish(<<EsTask("stateChanged", k)>>)
               ELSE /\ es' = [es EXCEPT ![k] = New(p.ep, "INBOUND", NoRouter)]
                    /\ Finish(<<>>)
     ELSE /\ Finish(<<>>)
          /\ UNCHANGED <<es, stateTable, stateTimers>>
  /\ UNCHANGED peers

\* A packet from an endpoint without a session after gracefulShutdown().
DropPacket ==
  /\ Finish(<<>>)
  /\ UNCHANGED <<es, stateTable, stateTimers, peers>>

PacketReceived ==
  /\ Running("packet")
  /\ Unlocked
  /\ LET p == Head(tasks).pkt IN
       \/ \E ps \in peers : ps.ep = p.ep /\ HandlePeerPacket(p, ps)
       \/ /\ ~PeerExists(p.ep)
          /\ \/ accepting /\ StateExists(p.ep) /\ HandleEsPacket(p, stateTable[p.ep])
             \/ accepting /\ ~StateExists(p.ep) /\ HandleNewPacket(p)
             \/ ~accepting /\ DropPacket
  /\ UNCHANGED <<accepting, connecting>>

\* The idle timer's handler: Context::disconnect and SSU::disconnect.  It holds
\* the hash only, and removes whatever peer has that hash by now.
PeerTimeout ==
  /\ Running("peerTimeout")
  /\ Unlocked
  /\ peers' = {ps \in peers : ps.rh # Head(tasks).rh}
  /\ Finish(<<>>)
  /\ UNCHANGED <<es, stateTable, stateTimers, accepting, connecting>>

\* A signal reaches its slots, which are outside the transport.
EmitSignal ==
  /\ \E o \in {"established", "failure", "disconnected"} : Running(o)
  /\ Finish(<<>>)
  /\ UNCHANGED <<es, stateTable, stateTimers, peers, accepting, connecting>>

-----------------------------------------------------------------------------
Init ==
  /\ es = [k \in EsId |-> New(CHOOSE ep \in Endpoint : TRUE, "INBOUND", NoRouter)]
  /\ stateTable = [ep \in Endpoint |-> NoEs]
  /\ stateTimers = [ep \in Endpoint |-> NoEs]
  /\ tasks = <<>>
  /\ peers = {}
  /\ accepting = TRUE
  /\ connecting = NoEs

ServiceThread ==
  StateChanged \/ TimeoutCallback \/ PacketReceived \/ PeerTimeout \/ EmitSignal

Next ==
  \/ \E ri \in RouterInfo : ConnectBegin(ri)
  \/ ConnectEnd
  \/ GracefulShutdown
  \/ \E p \in Traffic : PacketArrives(p)
  \/ \E ep \in Endpoint : StateTimerExpires(ep)
  \/ \E p \in peers : PeerTimerExpires(p)
  \/ ServiceThread

Spec == Init /\ [][Next]_vars

\* Fairness: run() keeps taking handlers from the queue, connect() does not
\* block between its two halves, and an armed timer expires.
Fairness ==
  /\ WF_vars(ServiceThread)
  /\ WF_vars(ConnectEnd)
  /\ \A ep \in Endpoint : WF_vars(StateTimerExpires(ep))

FairSpec == Spec /\ Fairness

-----------------------------------------------------------------------------
(* Properties                                                                *)

\* Type correctness of the transport's state.
TypeOK ==
  /\ es \in [EsId -> EstablishmentState]
  /\ stateTable \in [Endpoint -> EsId \cup {NoEs}]
  /\ stateTimers \in [Endpoint -> EsId \cup {NoEs}]
  /\ tasks \in Seq(Task)
  /\ peers \subseteq PeerState
  /\ accepting \in BOOLEAN
  /\ connecting \in EsId \cup {NoEs}

\* No establishment is left behind in the state table: for every entry its timer
\* is pending, or connect() is about to arm it, or the expired timer's handler is
\* queued, or the object has failed and the stateChanged that removes it is
\* queued.  An orphan would block its endpoint for ever: connect() returns early
\* for it and a new SESSION_REQUEST is matched against its keys.
NoOrphan ==
  \A ep \in Endpoint :
    LET k == stateTable[ep] IN
    k # NoEs =>
      \/ stateTimers[ep] = k
      \/ connecting = k
      \/ Queued(EsTask("timeout", k))
      \/ es[k].state = "FAILURE" /\ Queued(EsTask("stateChanged", k))

\* A peer is only ever listed on the strength of one completed establishment: its
\* key is the secret of that object, whose signature verified for exactly this
\* endpoint and router (PeerStateList::addPeer in processCreated and
\* processConfirmed).  No later packet may change what was verified.
PeerAuthenticated ==
  \A p \in peers :
    /\ es[p.es].keyed /\ es[p.es].signed
    /\ es[p.es].ep = p.ep /\ es[p.es].rh = p.rh

\* The two unique indices of PeerStateList::m_container, and no two peers share
\* a session key.
PeersDistinct ==
  \A p, q \in peers : p # q => p.ep # q.ep /\ p.rh # q.rh /\ p.es # q.es

\* Whoever is in the peer list has been announced to the router, or the
\* announcement is queued, or the establishment's timer won the race against it
\* (timeoutCallback overwrites CONFIRMED_SENT by FAILURE).
PeerAnnounced ==
  \A p \in peers :
    \/ es[p.es].established > 0
    \/ es[p.es].state = "CONFIRMED_SENT" /\ Queued(EsTask("stateChanged", p.es))
    \/ es[p.es].state = "FAILURE"

\* An inbound establishment is announced at most once, an outbound one at most
\* twice: a SESSION_CREATED that arrives before connect() has posted its own
\* stateChanged leaves two handlers that both find CONFIRMED_SENT.
AnnouncedOnce ==
  [][\A k \in EsId :
       es'[k].established > es[k].established =>
         es'[k].established <= IF es[k].dir = "INBOUND" THEN 1 ELSE 2]_vars

Rank(s) ==
  CASE s = "UNKNOWN" -> 0
    [] s \in {"REQUEST_SENT", "REQUEST_RECEIVED"} -> 1
    [] s \in {"CREATED_SENT", "CREATED_RECEIVED"} -> 2
    [] s \in {"CONFIRMED_SENT", "CONFIRMED_RECEIVED"} -> 3
    [] s = "FAILURE" -> 4

\* Duplicated, delayed or reordered packets never move an establishment back:
\* while anything refers to the object its state only advances, and FAILURE is
\* final.
ForwardOnly ==
  [][\A k \in EsId :
       Referenced(k) => Rank(es'[k].state) >= Rank(es[k].state)]_vars

\* addPeer never refuses an authenticated peer: when an object leaves
\* CREATED_RECEIVED for CONFIRMED_SENT, or is announced, its router is in the
\* list under its endpoint.  The refusal in addPeer needs another router at the
\* same endpoint, and the order of the queue excludes it.
NeverRefused ==
  [][\A k \in EsId :
       (\/ es[k].state = "CREATED_RECEIVED" /\ es'[k].state = "CONFIRMED_SENT"
        \/ es[k].state = "CONFIRMED_RECEIVED" /\ es'[k].established > es[k].established)
       => \E p \in peers' : p.es = k]_vars

\* A session request that is not answered times out.
RequestTimesOut ==
  \A k \in EsId :
    es[k].dir = "OUTBOUND" /\ es[k].state = "REQUEST_SENT" =>
      \/ stateTimers[es[k].ep] = k
      \/ Queued(EsTask("timeout", k))

\* Every entry of the state table is removed in the end, whatever the remote end
\* does: the endpoint becomes available to connect() and to SESSION_REQUEST.
TableDrains ==
  \A ep \in Endpoint, k \in EsId : stateTable[ep] = k ~> stateTable[ep] # k
=============================================================================
