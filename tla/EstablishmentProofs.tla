------------------------- MODULE EstablishmentProofs -------------------------
(***************************************************************************)
(* Proofs about session establishment, for any number of endpoints,        *)
(* routers, objects and queued packets.                                    *)
(***************************************************************************)
EXTENDS Establishment, TLAPS

\* What the proof needs to know of an establishment object besides its type: its
\* keys are agreed on before it may be confirmed.
KeyedWhenCreated ==
  \A k \in EsId : es[k].state \in {"CREATED_SENT", "CONFIRMED_RECEIVED"} => es[k].keyed

\* A table entry is filed under its own endpoint; a pending timer belongs to the
\* entry at its endpoint.
TableConsistent ==
  \A ep \in Endpoint :
    /\ stateTable[ep] # NoEs => es[stateTable[ep]].ep = ep
    /\ stateTimers[ep] # NoEs => stateTimers[ep] = stateTable[ep]

\* While connect() is between its two halves its object is in the table,
\* untouched, and no handler holds it.
ConnectExclusive ==
  connecting # NoEs =>
    /\ stateTable[es[connecting].ep] = connecting
    /\ es[connecting].state = "UNKNOWN"
    /\ \A ep \in Endpoint : stateTimers[ep] # connecting
    /\ \A t \in Handlers(tasks) : t.es # connecting

\* The handlers of the queue hold what their operation needs.
TaskOK(t) ==
  /\ t \in Task
  /\ t.op \in {"stateChanged", "timeout"} => t.es \in EsId
  /\ t.op = "packet" => t.pkt \in Packet

TasksConsistent == \A t \in Handlers(tasks) : TaskOK(t)

\* A listed peer's object has passed the last step that checks a signature.
PeerCompleted ==
  \A p \in peers :
    es[p.es].state \in {"CONFIRMED_SENT", "CONFIRMED_RECEIVED", "FAILURE"}

\* The inductive invariant.
IInv ==
  /\ TypeOK
  /\ KeyedWhenCreated
  /\ TableConsistent
  /\ ConnectExclusive
  /\ TasksConsistent
  /\ NoOrphan
  /\ PeerCompleted
  /\ PeerAuthenticated

-----------------------------------------------------------------------------
\* Appending a handler to the queue.
LEMMA AppendElems ==
  ASSUME NEW S, NEW s \in Seq(S), NEW t \in S
  PROVE  /\ Append(s, t) \in Seq(S)
         /\ Handlers(Append(s, t)) = Handlers(s) \cup {t}
<1>1. Append(s, t) \in Seq(S) /\ Len(Append(s, t)) = Len(s) + 1
  OBVIOUS
<1>2. \A i \in 1..Len(s) : Append(s, t)[i] = s[i]
  OBVIOUS
<1>3. Append(s, t)[Len(s) + 1] = t
  OBVIOUS
<1>4. Len(s) \in Nat
  OBVIOUS
<1>5. Handlers(Append(s, t)) \subseteq Handlers(s) \cup {t}
  BY <1>1, <1>2, <1>3, <1>4 DEF Handlers
<1>6. Handlers(s) \cup {t} \subseteq Handlers(Append(s, t))
  BY <1>1, <1>2, <1>3, <1>4 DEF Handlers
<1> QED  BY <1>1, <1>5, <1>6

\* Running the first handler of the queue and posting others: what was queued
\* behind it stays queued, and nothing appears but what was posted.
LEMMA FinishElems ==
  ASSUME NEW S, NEW s \in Seq(S), s # <<>>, NEW q \in Seq(S)
  PROVE  /\ Tail(s) \o q \in Seq(S)
         /\ Head(s) \in S /\ Head(s) \in Handlers(s)
         /\ Handlers(s) \ {Head(s)} \subseteq Handlers(Tail(s) \o q)
         /\ Handlers(q) \subseteq Handlers(Tail(s) \o q)
         /\ Handlers(Tail(s) \o q) \subseteq Handlers(s) \cup Handlers(q)
<1>1. /\ Tail(s) \in Seq(S) /\ Len(Tail(s)) = Len(s) - 1
      /\ Len(s) \in Nat \ {0} /\ Head(s) = s[1] /\ Len(q) \in Nat
  OBVIOUS
<1>2. \A i \in 1..Len(s) - 1 : Tail(s)[i] = s[i + 1]
  OBVIOUS
<1>3. Tail(s) \o q \in Seq(S) /\ Len(Tail(s) \o q) = Len(s) - 1 + Len(q)
  BY <1>1
<1>4. \A i \in 1..Len(s) - 1 : (Tail(s) \o q)[i] = s[i + 1]
  BY <1>1, <1>2
<1>5. \A i \in 1..Len(q) : (Tail(s) \o q)[Len(s) - 1 + i] = q[i]
  BY <1>1
<1>6. Handlers(s) \ {Head(s)} \subseteq Handlers(Tail(s) \o q)
  <2> SUFFICES ASSUME NEW i \in 1..Len(s), s[i] # Head(s)
               PROVE  s[i] \in Handlers(Tail(s) \o q)
    BY Zenon DEF Handlers
  <2>1. i - 1 \in 1..Len(s) - 1 /\ i - 1 \in 1..Len(Tail(s) \o q)
    BY <1>1, <1>3
  <2>2. (Tail(s) \o q)[i - 1] = s[i]
    BY <2>1, <1>1, <1>4
  <2> QED  BY <2>1, <2>2, Zenon DEF Handlers
<1>7. Handlers(q) \subseteq Handlers(Tail(s) \o q)
  <2> SUFFICES ASSUME NEW i \in 1..Len(q)
               PROVE  q[i] \in Handlers(Tail(s) \o q)
    BY Zenon DEF Handlers
  <2>1. Len(s) - 1 + i \in 1..Len(Tail(s) \o q)
    BY <1>1, <1>3
  <2> QED  BY <2>1, <1>5, Zenon DEF Handlers
<1>8. Handlers(Tail(s) \o q) \subseteq Handlers(s) \cup Handlers(q)
  <2> SUFFICES ASSUME NEW i \in 1..Len(Tail(s) \o q)
               PROVE  (Tail(s) \o q)[i] \in Handlers(s) \cup Handlers(q)
    BY DEF Handlers
  <2>1. CASE i \in 1..Len(s) - 1
    <3>1. i + 1 \in 1..Len(s)  BY <2>1, <1>1
    <3> QED  BY <3>1, <2>1, <1>4 DEF Handlers
  <2>2. CASE i \notin 1..Len(s) - 1
    <3>1. i - (Len(s) - 1) \in 1..Len(q)  BY <2>2, <1>1, <1>3
    <3>2. i = Len(s) - 1 + (i - (Len(s) - 1))  BY <1>1, <1>3
    <3> QED  BY <3>1, <3>2, <1>5 DEF Handlers
  <2> QED  BY <2>1, <2>2
<1>9. Head(s) \in S /\ Head(s) \in Handlers(s)
  BY <1>1 DEF Handlers
<1> QED  BY <1>3, <1>6, <1>7, <1>8, <1>9

\* The posted handlers: none or one.
LEMMA PostedElems ==
  /\ Handlers(<<>>) = {}
  /\ \A t : Handlers(<<t>>) = {t}
  BY DEF Handlers

\* The three kinds of handler are well typed.
LEMMA TaskTypes ==
  ASSUME ConstantsAssumption
  PROVE  /\ \A k \in EsId, o \in {"stateChanged", "timeout"} :
              TaskOK(EsTask(o, k)) /\ EsTask(o, k).es = k
         /\ \A p \in Packet : TaskOK(PacketTask(p)) /\ PacketTask(p).es = NoEs
         /\ \A r \in Router \cup {NoRouter},
               o \in {"peerTimeout", "established", "failure", "disconnected"} :
              TaskOK(RouterTask(o, r)) /\ RouterTask(o, r).es = NoEs
  BY DEF TaskOK, Task, Op, EsTask, PacketTask, RouterTask

\* The effect of one handler on the queue, in terms of its elements.
LEMMA ServiceStep ==
  ASSUME NEW s \in Seq(Task), s # <<>>, \A t \in Handlers(s) : TaskOK(t),
         NEW q, q = <<>> \/ \E t : TaskOK(t) /\ q = <<t>>
  PROVE  /\ Tail(s) \o q \in Seq(Task)
         /\ \A t \in Handlers(Tail(s) \o q) : TaskOK(t)
         /\ Head(s) \in Handlers(s) /\ TaskOK(Head(s))
         /\ Handlers(s) \ {Head(s)} \subseteq Handlers(Tail(s) \o q)
         /\ Handlers(q) \subseteq Handlers(Tail(s) \o q)
         /\ Handlers(Tail(s) \o q) \subseteq Handlers(s) \cup Handlers(q)
<1>1. CASE q = <<>>
  <2>1. q \in Seq(Task) /\ Handlers(q) = {}
    BY <1>1, PostedElems
  <2> QED  BY <2>1, FinishElems
<1>2. ASSUME NEW t, TaskOK(t), q = <<t>>
      PROVE  q \in Seq(Task) /\ \A u \in Handlers(q) : TaskOK(u)
  <2>1. t \in Task  BY <1>2 DEF TaskOK
  <2>2. q \in Seq(Task)  BY <1>2, <2>1
  <2>3. Handlers(q) = {t}  BY <1>2, PostedElems
  <2> QED  BY <1>2, <2>2, <2>3
<1>3. CASE \E t : TaskOK(t) /\ q = <<t>>
  <2>1. q \in Seq(Task) /\ \A u \in Handlers(q) : TaskOK(u)
    BY <1>2, <1>3
  <2> QED  BY <2>1, FinishElems
<1> QED  BY <1>1, <1>3

\* Replacing one establishment object.
LEMMA EsUpdate ==
  ASSUME NEW f \in [EsId -> EstablishmentState], NEW k \in EsId,
         NEW r \in EstablishmentState
  PROVE  /\ [f EXCEPT ![k] = r] \in [EsId -> EstablishmentState]
         /\ [f EXCEPT ![k] = r][k] = r
         /\ \A j \in EsId : j # k => [f EXCEPT ![k] = r][j] = f[j]
  OBVIOUS

\* Changing the state of an object leaves what was verified about it.
LEMMA StateUpdate ==
  ASSUME NEW r \in EstablishmentState, NEW v \in State
  PROVE  LET u == [r EXCEPT !.state = v] IN
         /\ u \in EstablishmentState
         /\ u.state = v /\ u.ep = r.ep /\ u.rh = r.rh
         /\ u.keyed = r.keyed /\ u.signed = r.signed
  BY DEF EstablishmentState

\* One handler changes object k: the effect on everything but the peer list.  A
\* handler that drops the last witness of NoOrphan for k either posts a new one
\* or removes the entry.
LEMMA EsStep ==
  ASSUME IInv, NEW k \in EsId, NEW r \in EstablishmentState, NEW q,
         es' = [es EXCEPT ![k] = r],
         r.ep = es[k].ep,
         r.state \in {"CREATED_SENT", "CONFIRMED_RECEIVED"} => r.keyed,
         es[k].state = "FAILURE" => r.state = "FAILURE",
         connecting' = connecting, accepting' = accepting, k # connecting,
         tasks # <<>>, tasks' = Tail(tasks) \o q,
         q = <<>> \/ \E t : TaskOK(t) /\ t.es \in {k, NoEs} /\ q = <<t>>,
         Head(tasks).op \in {"stateChanged", "timeout"} => Head(tasks).es = k,
         \/ /\ UNCHANGED <<stateTable, stateTimers>>
            /\ Head(tasks).op = "stateChanged" =>
                 es[k].state # "FAILURE"
            /\ Head(tasks).op = "timeout" =>
                 r.state = "FAILURE" /\ q = <<EsTask("stateChanged", k)>>
         \/ DelState(es[k].ep)
  PROVE  /\ es' \in [EsId -> EstablishmentState]
         /\ stateTable' \in [Endpoint -> EsId \cup {NoEs}]
         /\ stateTimers' \in [Endpoint -> EsId \cup {NoEs}]
         /\ tasks' \in Seq(Task)
         /\ KeyedWhenCreated' /\ TableConsistent' /\ ConnectExclusive'
         /\ TasksConsistent' /\ NoOrphan'
         /\ es'[k] = r /\ \A j \in EsId : j # k => es'[j] = es[j]
<1>1. /\ es \in [EsId -> EstablishmentState] /\ tasks \in Seq(Task)
      /\ stateTable \in [Endpoint -> EsId \cup {NoEs}]
      /\ stateTimers \in [Endpoint -> EsId \cup {NoEs}]
      /\ connecting \in EsId \cup {NoEs}
      /\ es[k] \in EstablishmentState
  BY DEF IInv, TypeOK
<1>2. /\ es' \in [EsId -> EstablishmentState]
      /\ es'[k] = r /\ \A j \in EsId : j # k => es'[j] = es[j]
  BY <1>1, EsUpdate
<1>3. /\ tasks' \in Seq(Task) /\ TasksConsistent'
      /\ Handlers(tasks) \ {Head(tasks)} \subseteq Handlers(tasks')
      /\ Handlers(q) \subseteq Handlers(tasks')
      /\ Handlers(tasks') \subseteq Handlers(tasks) \cup Handlers(q)
  BY <1>1, ServiceStep DEF IInv, TasksConsistent
<1>4. \A t \in Handlers(q) : t.es \in {k, NoEs}
  BY PostedElems
<1>5. /\ stateTable' \in [Endpoint -> EsId \cup {NoEs}]
      /\ stateTimers' \in [Endpoint -> EsId \cup {NoEs}]
  BY <1>1, Zenon DEF DelState
<1>6. KeyedWhenCreated'
  BY <1>2 DEF IInv, KeyedWhenCreated
<1>7. TableConsistent'
  <2> SUFFICES ASSUME NEW ep \in Endpoint
               PROVE  /\ stateTable'[ep] # NoEs => es'[stateTable'[ep]].ep = ep
                      /\ stateTimers'[ep] # NoEs => stateTimers'[ep] = stateTable'[ep]
    BY DEF TableConsistent
  <2>1. \/ stateTable'[ep] = stateTable[ep] /\ stateTimers'[ep] = stateTimers[ep]
        \/ stateTable'[ep] = NoEs /\ stateTimers'[ep] = NoEs
    BY <1>1 DEF DelState
  <2> QED  BY <1>1, <1>2, <2>1 DEF IInv, TableConsistent
<1>8. ConnectExclusive'
  <2> SUFFICES ASSUME connecting # NoEs
               PROVE  /\ stateTable'[es'[connecting].ep] = connecting
                      /\ es'[connecting].state = "UNKNOWN"
                      /\ \A ep \in Endpoint : stateTimers'[ep] # connecting
                      /\ \A t \in Handlers(tasks') : t.es # connecting
    BY DEF ConnectExclusive
  <2>1. stateTable' = stateTable /\ stateTimers' = stateTimers /\ connecting \in EsId
    BY <1>1 DEF DelState, Unlocked
  <2> QED  BY <1>2, <1>3, <1>4, <2>1 DEF IInv, ConnectExclusive
<1>9. NoOrphan'
  <2> SUFFICES ASSUME NEW ep \in Endpoint, stateTable'[ep] # NoEs
               PROVE  LET j == stateTable'[ep] IN
                      \/ stateTimers'[ep] = j
                      \/ connecting = j
                      \/ EsTask("timeout", j) \in Handlers(tasks')
                      \/ es'[j].state = "FAILURE" /\ EsTask("stateChanged", j) \in Handlers(tasks')
    BY DEF NoOrphan, Queued
  <2> DEFINE j == stateTable[ep]
  <2>1. /\ j \in EsId /\ es[j].ep = ep
        /\ stateTable'[ep] = j /\ stateTimers'[ep] = stateTimers[ep]
        /\ DelState(es[k].ep) => j # k
    BY <1>1 DEF DelState, IInv, TableConsistent
  <2>2. \/ stateTimers[ep] = j
        \/ connecting = j
        \/ EsTask("timeout", j) \in Handlers(tasks)
        \/ es[j].state = "FAILURE" /\ EsTask("stateChanged", j) \in Handlers(tasks)
    BY <2>1 DEF IInv, NoOrphan, Queued, NoEs, EsId
  <2>3. CASE j # k
    <3>1. EsTask("timeout", j) # Head(tasks) /\ EsTask("stateChanged", j) # Head(tasks)
      BY <2>3 DEF EsTask
    <3> QED  BY <1>2, <1>3, <2>1, <2>2, <2>3, <3>1
  <2>4. CASE j = k
    <3>1. CASE Head(tasks).op = "timeout"
      <4>1. EsTask("stateChanged", k) \in Handlers(tasks')
        BY <1>3, <2>1, <2>4, <3>1, PostedElems
      <4> QED  BY <1>2, <2>1, <2>4, <3>1, <4>1
    <3>2. CASE Head(tasks).op # "timeout"
      <4>1. EsTask("timeout", k) # Head(tasks)
        BY <3>2 DEF EsTask
      <4>2. es[k].state = "FAILURE" => EsTask("stateChanged", k) # Head(tasks)
        BY <2>1, <2>4 DEF EsTask
      <4> QED  BY <1>2, <1>3, <2>1, <2>2, <2>4, <4>1, <4>2
    <3> QED  BY <3>1, <3>2
  <2> QED  BY <2>3, <2>4
<1> QED  BY <1>2, <1>3, <1>5, <1>6, <1>7, <1>8, <1>9

Completed == {"CONFIRMED_SENT", "CONFIRMED_RECEIVED", "FAILURE"}

\* The same for the whole invariant: the peer list loses entries or gains the one
\* of object k, which must then be verified.
LEMMA EsStepInv ==
  ASSUME IInv, NEW k \in EsId, NEW r \in EstablishmentState, NEW q,
         es' = [es EXCEPT ![k] = r],
         r.ep = es[k].ep,
         r.state \in {"CREATED_SENT", "CONFIRMED_RECEIVED"} => r.keyed,
         es[k].state = "FAILURE" => r.state = "FAILURE",
         connecting' = connecting, accepting' = accepting, k # connecting,
         tasks # <<>>, tasks' = Tail(tasks) \o q,
         q = <<>> \/ \E t : TaskOK(t) /\ t.es \in {k, NoEs} /\ q = <<t>>,
         Head(tasks).op \in {"stateChanged", "timeout"} => Head(tasks).es = k,
         \/ /\ UNCHANGED <<stateTable, stateTimers>>
            /\ Head(tasks).op = "stateChanged" => es[k].state # "FAILURE"
            /\ Head(tasks).op = "timeout" =>
                 r.state = "FAILURE" /\ q = <<EsTask("stateChanged", k)>>
         \/ DelState(es[k].ep),
         es[k].state \in Completed =>
           /\ r.state \in Completed /\ r.rh = es[k].rh
           /\ r.keyed = es[k].keyed /\ r.signed = es[k].signed,
         \/ peers' = peers
         \/ /\ peers' = AddPeer(k)
            /\ r.rh = es[k].rh /\ r.keyed /\ r.signed /\ r.state \in Completed
  PROVE  IInv'
<1>1. /\ es' \in [EsId -> EstablishmentState]
      /\ stateTable' \in [Endpoint -> EsId \cup {NoEs}]
      /\ stateTimers' \in [Endpoint -> EsId \cup {NoEs}]
      /\ tasks' \in Seq(Task)
      /\ KeyedWhenCreated' /\ TableConsistent' /\ ConnectExclusive'
      /\ TasksConsistent' /\ NoOrphan'
      /\ es'[k] = r /\ \A j \in EsId : j # k => es'[j] = es[j]
  BY EsStep, Zenon
<1>2. /\ es[k] \in EstablishmentState /\ peers \subseteq PeerState
      /\ es[k].ep \in Endpoint /\ es[k].rh \in Router \cup {NoRouter}
  BY Zenon DEF IInv, TypeOK, EstablishmentState
<1>3. \A p \in peers' :
         \/ p \in peers
         \/ /\ p = [ep |-> es[k].ep, rh |-> es[k].rh, es |-> k, armed |-> TRUE]
            /\ r.rh = es[k].rh /\ r.keyed /\ r.signed /\ r.state \in Completed
  BY DEF AddPeer
<1>4. peers' \subseteq PeerState
  <2>1. [ep |-> es[k].ep, rh |-> es[k].rh, es |-> k, armed |-> TRUE] \in PeerState
    BY <1>2, Zenon DEF PeerState
  <2> QED  BY <1>2, <1>3, <2>1, Zenon
<1>5. TypeOK'
  BY <1>1, <1>4, Zenon DEF IInv, TypeOK
<1>6. ASSUME NEW p \in peers'
      PROVE  /\ es'[p.es].state \in Completed
             /\ es'[p.es].keyed /\ es'[p.es].signed
             /\ es'[p.es].ep = p.ep /\ es'[p.es].rh = p.rh
  <2>1. CASE p \in peers
    <3>1. /\ p.es \in EsId /\ es[p.es].state \in Completed
          /\ es[p.es].keyed /\ es[p.es].signed
          /\ es[p.es].ep = p.ep /\ es[p.es].rh = p.rh
      BY <1>2, <2>1, Zenon DEF IInv, PeerCompleted, PeerAuthenticated, PeerState, Completed
    <3> QED  BY <1>1, <3>1
  <2>2. CASE /\ p = [ep |-> es[k].ep, rh |-> es[k].rh, es |-> k, armed |-> TRUE]
             /\ r.rh = es[k].rh /\ r.keyed /\ r.signed /\ r.state \in Completed
    BY <1>1, <2>2, Zenon
  <2> QED  BY <1>3, <2>1, <2>2, Zenon
<1>7. PeerCompleted' /\ PeerAuthenticated'
  BY <1>6, Zenon DEF PeerCompleted, PeerAuthenticated, Completed
<1> QED  BY <1>1, <1>5, <1>7 DEF IInv

\* The object of a running handler.
LEMMA RunningEs ==
  ASSUME IInv, tasks # <<>>, Head(tasks).op \in {"stateChanged", "timeout"}
  PROVE  /\ Head(tasks).es \in EsId /\ Head(tasks).es # connecting
         /\ es[Head(tasks).es] \in EstablishmentState
<1>1. tasks \in Seq(Task) /\ es \in [EsId -> EstablishmentState]
  BY DEF IInv, TypeOK
<1>2. Head(tasks) \in Handlers(tasks)
  BY <1>1 DEF Handlers
<1>3. Head(tasks).es \in EsId
  BY <1>2 DEF IInv, TasksConsistent, TaskOK
<1> QED  BY <1>1, <1>2, <1>3 DEF IInv, ConnectExclusive, NoEs, EsId

\* TimeoutCallback keeps the invariant.
LEMMA TimeoutCallbackInv ==
  ASSUME ConstantsAssumption, IInv, TimeoutCallback
  PROVE  IInv'
<1>1. /\ tasks # <<>> /\ Head(tasks).op = "timeout"
      /\ UNCHANGED <<stateTable, stateTimers, peers, accepting, connecting>>
  BY DEF TimeoutCallback, Running
<1>2. PICK k \in EsId : /\ Head(tasks).es = k /\ k # connecting
                        /\ es[k] \in EstablishmentState
  BY <1>1, RunningEs
<1>3. PICK r : r = [es[k] EXCEPT !.state = "FAILURE"]
  BY Zenon
<1>4. PICK q : q = <<EsTask("stateChanged", k)>>
  BY Zenon
<1>5. /\ r \in EstablishmentState
      /\ r.state = "FAILURE" /\ r.ep = es[k].ep /\ r.rh = es[k].rh
      /\ r.keyed = es[k].keyed /\ r.signed = es[k].signed
  BY <1>2, <1>3, StateUpdate, Zenon DEF State
<1>6. es' = [es EXCEPT ![k] = r] /\ tasks' = Tail(tasks) \o q
  BY <1>2, <1>3, <1>4, Zenon DEF TimeoutCallback, Finish
<1>7. TaskOK(EsTask("stateChanged", k)) /\ EsTask("stateChanged", k).es = k
  BY TaskTypes
<1> QED
  BY <1>1, <1>2, <1>4, <1>5, <1>6, <1>7, EsStepInv, Zenon DEF Completed

\* The other updates of an object that stateChanged makes.
LEMMA KeyedUpdate ==
  ASSUME NEW r \in EstablishmentState, NEW v \in State
  PROVE  LET u == [r EXCEPT !.keyed = TRUE, !.state = v] IN
         /\ u \in EstablishmentState
         /\ u.state = v /\ u.ep = r.ep /\ u.rh = r.rh
         /\ u.keyed = TRUE /\ u.signed = r.signed
  BY Zenon DEF EstablishmentState

\* Counting a posted signal leaves what was verified about an object.
LEMMA SignalUpdate ==
  ASSUME NEW r \in EstablishmentState
  PROVE  \A u \in {[r EXCEPT !.established = @ + 1], [r EXCEPT !.failed = @ + 1]} :
           /\ u \in EstablishmentState
           /\ u.state = r.state /\ u.ep = r.ep /\ u.rh = r.rh
           /\ u.keyed = r.keyed /\ u.signed = r.signed
  BY DEF EstablishmentState

\* Each case of the switch in stateChanged keeps the invariant.
LEMMA StateChangedInv ==
  ASSUME ConstantsAssumption, IInv, StateChanged
  PROVE  IInv'
<1>1. /\ tasks # <<>> /\ Head(tasks).op = "stateChanged"
      /\ UNCHANGED <<accepting, connecting>>
  BY DEF StateChanged, Running
<1>2. PICK k \in EsId : /\ Head(tasks).es = k /\ k # connecting
                        /\ es[k] \in EstablishmentState
  BY <1>1, RunningEs
<1>3. /\ TaskOK(EsTask("stateChanged", k)) /\ EsTask("stateChanged", k).es = k
      /\ \A o \in {"established", "failure"} :
           TaskOK(RouterTask(o, es[k].rh)) /\ RouterTask(o, es[k].rh).es = NoEs
  BY <1>2, TaskTypes DEF EstablishmentState
<1>4. es[k].state \in {"CREATED_SENT", "CONFIRMED_RECEIVED"} => es[k].keyed
  BY DEF IInv, KeyedWhenCreated
<1>5. es = [es EXCEPT ![k] = es[k]]
  BY DEF IInv, TypeOK
<1>6. ASSUME LogState(k) PROVE IInv'
  <2>1. /\ es' = [es EXCEPT ![k] = es[k]] /\ tasks' = Tail(tasks) \o <<>>
        /\ UNCHANGED <<stateTable, stateTimers, peers>>
        /\ es[k].state \in {"REQUEST_SENT", "CREATED_SENT"}
    BY <1>5, <1>6 DEF LogState, Finish
  <2>2. PICK r : r = es[k]  OBVIOUS
  <2> QED  BY <1>1, <1>2, <1>4, <2>1, <2>2, EsStepInv, Zenon
<1>7. ASSUME ProcessRequest(k) PROVE IInv'
  <2>1. PICK r : r = [es[k] EXCEPT !.keyed = TRUE, !.state = "CREATED_SENT"]
    OBVIOUS
  <2>2. PICK q : q = <<EsTask("stateChanged", k)>>
    BY Zenon
  <2>3. /\ es' = [es EXCEPT ![k] = r] /\ tasks' = Tail(tasks) \o q
        /\ UNCHANGED <<stateTable, stateTimers, peers>>
        /\ es[k].state = "REQUEST_RECEIVED"
    BY <1>7, <2>1, <2>2, Zenon DEF ProcessRequest, Finish
  <2>4. r \in EstablishmentState /\ r.ep = es[k].ep /\ r.keyed
    BY <1>2, <2>1, KeyedUpdate, Zenon DEF State
  <2> QED  BY <1>1, <1>2, <1>3, <2>2, <2>3, <2>4, EsStepInv, Zenon DEF Completed
<1>8. ASSUME ProcessCreated(k) PROVE IInv'
  <2>1. CASE ~es[k].signed
    <3>1. PICK r : r = [es[k] EXCEPT !.state = "FAILURE"]
      BY Zenon
    <3>2. /\ es' = [es EXCEPT ![k] = r] /\ tasks' = Tail(tasks) \o <<>>
          /\ UNCHANGED <<stateTable, stateTimers, peers>>
          /\ es[k].state = "CREATED_RECEIVED"
      BY <1>8, <2>1, <3>1 DEF ProcessCreated, Finish
    <3>3. r \in EstablishmentState /\ r.ep = es[k].ep /\ r.state = "FAILURE"
      BY <1>2, <3>1, StateUpdate, Zenon DEF State
    <3> QED  BY <1>1, <1>2, <3>2, <3>3, EsStepInv, Zenon DEF Completed
  <2>2. CASE es[k].signed
    <3>1. PICK r : r = [es[k] EXCEPT !.keyed = TRUE, !.state = "CONFIRMED_SENT"]
      OBVIOUS
    <3>2. PICK q : q = <<EsTask("stateChanged", k)>>
      BY Zenon
    <3>3. /\ es' = [es EXCEPT ![k] = r] /\ tasks' = Tail(tasks) \o q
          /\ UNCHANGED <<stateTable, stateTimers>> /\ peers' = AddPeer(k)
          /\ es[k].state = "CREATED_RECEIVED"
      BY <1>8, <2>2, <3>1, <3>2, Zenon DEF ProcessCreated, Finish
    <3>4. /\ r \in EstablishmentState /\ r.ep = es[k].ep /\ r.rh = es[k].rh
          /\ r.state = "CONFIRMED_SENT" /\ r.keyed /\ r.signed
      <4>1. /\ r \in EstablishmentState /\ r.ep = es[k].ep /\ r.rh = es[k].rh
            /\ r.state = "CONFIRMED_SENT" /\ r.keyed = TRUE /\ r.signed = es[k].signed
        BY <1>2, <3>1, KeyedUpdate, Zenon DEF State
      <4> QED  BY <2>2, <4>1, Zenon
    <3> QED  BY <1>1, <1>2, <1>3, <3>2, <3>3, <3>4, EsStepInv, Zenon DEF Completed
  <2> QED  BY <2>1, <2>2
<1>9. ASSUME ConfirmedSent(k) PROVE IInv'
  <2>1. PICK r : r = [es[k] EXCEPT !.established = @ + 1]
    BY Zenon
  <2>2. PICK q : q = <<RouterTask("established", es[k].rh)>>
    BY Zenon
  <2>3. /\ es' = [es EXCEPT ![k] = r] /\ tasks' = Tail(tasks) \o q
        /\ DelState(es[k].ep) /\ UNCHANGED peers
        /\ es[k].state = "CONFIRMED_SENT"
    BY <1>9, <2>1, <2>2 DEF ConfirmedSent, Finish
  <2>4. /\ r \in EstablishmentState /\ r.ep = es[k].ep /\ r.rh = es[k].rh
        /\ r.state = es[k].state /\ r.keyed = es[k].keyed /\ r.signed = es[k].signed
    BY <1>2, <2>1, SignalUpdate, Zenon
  <2> QED  BY <1>1, <1>2, <1>3, <2>2, <2>3, <2>4, EsStepInv, Zenon
<1>10. ASSUME ProcessConfirmed(k) PROVE IInv'
  <2>1. CASE ~es[k].signed
    <3>1. PICK r : r = [es[k] EXCEPT !.state = "FAILURE"]
      BY Zenon
    <3>2. PICK q : q = <<EsTask("stateChanged", k)>>
      BY Zenon
    <3>3. /\ es' = [es EXCEPT ![k] = r] /\ tasks' = Tail(tasks) \o q
          /\ UNCHANGED <<stateTable, stateTimers, peers>>
          /\ es[k].state = "CONFIRMED_RECEIVED"
      BY <1>10, <2>1, <3>1, <3>2 DEF ProcessConfirmed, Finish
    <3>4. /\ r \in EstablishmentState /\ r.ep = es[k].ep /\ r.rh = es[k].rh
          /\ r.state = "FAILURE" /\ r.keyed = es[k].keyed /\ r.signed = es[k].signed
      BY <1>2, <3>1, StateUpdate, Zenon DEF State
    <3> QED  BY <1>1, <1>2, <1>3, <3>2, <3>3, <3>4, EsStepInv, Zenon DEF Completed
  <2>2. CASE es[k].signed
    <3>1. PICK r : r = [es[k] EXCEPT !.established = @ + 1]
      BY Zenon
    <3>2. PICK q : q = <<RouterTask("established", es[k].rh)>>
      BY Zenon
    <3>3. /\ es' = [es EXCEPT ![k] = r] /\ tasks' = Tail(tasks) \o q
          /\ DelState(es[k].ep) /\ peers' = AddPeer(k)
          /\ es[k].state = "CONFIRMED_RECEIVED"
      BY <1>10, <2>2, <3>1, <3>2 DEF ProcessConfirmed, Finish
    <3>4. /\ r \in EstablishmentState /\ r.ep = es[k].ep /\ r.rh = es[k].rh
          /\ r.state = es[k].state /\ r.keyed = es[k].keyed /\ r.signed = es[k].signed
      BY <1>2, <3>1, SignalUpdate, Zenon
    <3> QED  BY <1>1, <1>2, <1>3, <1>4, <2>2, <3>2, <3>3, <3>4, EsStepInv, Zenon DEF Completed
  <2> QED  BY <2>1, <2>2
<1>11. ASSUME EstablishmentFailed(k) PROVE IInv'
  <2>1. CASE es[k].dir = "OUTBOUND"
    <3>1. PICK r : r = [es[k] EXCEPT !.failed = @ + 1]
      BY Zenon
    <3>2. PICK q : q = <<RouterTask("failure", es[k].rh)>>
      BY Zenon
    <3>3. /\ es' = [es EXCEPT ![k] = r] /\ tasks' = Tail(tasks) \o q
          /\ DelState(es[k].ep) /\ UNCHANGED peers
      BY <1>11, <2>1, <3>1, <3>2 DEF EstablishmentFailed, Finish
    <3>4. /\ r \in EstablishmentState /\ r.ep = es[k].ep /\ r.rh = es[k].rh
          /\ r.state = es[k].state /\ r.keyed = es[k].keyed /\ r.signed = es[k].signed
      BY <1>2, <3>1, SignalUpdate, Zenon
    <3> QED  BY <1>1, <1>2, <1>3, <1>4, <3>2, <3>3, <3>4, EsStepInv, Zenon
  <2>2. CASE es[k].dir # "OUTBOUND"
    <3>1. /\ es' = [es EXCEPT ![k] = es[k]] /\ tasks' = Tail(tasks) \o <<>>
          /\ DelState(es[k].ep) /\ UNCHANGED peers
      BY <1>5, <1>11, <2>2 DEF EstablishmentFailed, Finish
    <3>2. PICK r : r = es[k]  OBVIOUS
    <3> QED  BY <1>1, <1>2, <1>4, <3>1, <3>2, EsStepInv, Zenon
  <2> QED  BY <2>1, <2>2
<1> QED
  BY <1>2, <1>6, <1>7, <1>8, <1>9, <1>10, <1>11 DEF StateChanged

\* A handler that touches no establishment: the peer list only loses entries or
\* has timers restarted.
LEMMA QuietStepInv ==
  ASSUME IInv, NEW q,
         UNCHANGED <<es, stateTable, stateTimers, accepting, connecting>>,
         tasks # <<>>, tasks' = Tail(tasks) \o q,
         Head(tasks).op \notin {"stateChanged", "timeout"},
         q = <<>> \/ \E t : TaskOK(t) /\ t.es = NoEs /\ q = <<t>>,
         \A p \in peers' : p \in PeerState /\
           \E o \in peers : o.ep = p.ep /\ o.rh = p.rh /\ o.es = p.es
  PROVE  IInv'
<1>1. tasks \in Seq(Task) /\ stateTable \in [Endpoint -> EsId \cup {NoEs}]
  BY DEF IInv, TypeOK
<1>2. /\ tasks' \in Seq(Task) /\ TasksConsistent'
      /\ Handlers(tasks) \ {Head(tasks)} \subseteq Handlers(tasks')
      /\ Handlers(tasks') \subseteq Handlers(tasks) \cup Handlers(q)
  BY <1>1, ServiceStep DEF IInv, TasksConsistent
<1>3. \A t \in Handlers(q) : t.es = NoEs
  BY PostedElems
<1>4. TypeOK'
  BY <1>2 DEF IInv, TypeOK
<1>5. KeyedWhenCreated' /\ TableConsistent'
  BY DEF IInv, KeyedWhenCreated, TableConsistent
<1>6. ConnectExclusive'
  BY <1>2, <1>3 DEF IInv, ConnectExclusive
<1>7. NoOrphan'
  <2>1. \A k : Head(tasks) # EsTask("timeout", k) /\ Head(tasks) # EsTask("stateChanged", k)
    BY DEF EsTask
  <2> QED  BY <1>2, <2>1 DEF IInv, NoOrphan, Queued
<1>8. PeerCompleted' /\ PeerAuthenticated'
  BY DEF IInv, PeerCompleted, PeerAuthenticated
<1> QED  BY <1>2, <1>4, <1>5, <1>6, <1>7, <1>8 DEF IInv

\* PeerTimeout keeps the invariant: peers are only removed.
LEMMA PeerTimeoutInv ==
  ASSUME IInv, PeerTimeout
  PROVE  IInv'
<1>1. /\ tasks # <<>> /\ Head(tasks).op = "peerTimeout"
      /\ tasks' = Tail(tasks) \o <<>> /\ peers' \subseteq peers
      /\ UNCHANGED <<es, stateTable, stateTimers, accepting, connecting>>
  BY DEF PeerTimeout, Running, Finish
<1>2. peers \subseteq PeerState
  BY DEF IInv, TypeOK
<1> QED  BY <1>1, <1>2, QuietStepInv

\* EmitSignal keeps the invariant: only the queue changes.
LEMMA EmitSignalInv ==
  ASSUME IInv, EmitSignal
  PROVE  IInv'
<1>1. /\ tasks # <<>> /\ Head(tasks).op \in {"established", "failure", "disconnected"}
      /\ tasks' = Tail(tasks) \o <<>> /\ peers' = peers
      /\ UNCHANGED <<es, stateTable, stateTimers, accepting, connecting>>
  BY DEF EmitSignal, Running, Finish
<1>2. peers \subseteq PeerState
  BY DEF IInv, TypeOK
<1> QED  BY <1>1, <1>2, QuietStepInv, Zenon

\* A new object enters the table at an endpoint that has none: the common part
\* of connect() and of an inbound SESSION_REQUEST.
LEMMA FreshObject ==
  ASSUME IInv, NEW k \in EsId, Fresh(k)
  PROVE  /\ \A ep \in Endpoint : stateTable[ep] # k /\ stateTimers[ep] # k
         /\ connecting # k
         /\ \A p \in peers : p.es # k
         /\ \A t \in Handlers(tasks) : t.es # k
<1>1. ~Referenced(k)
  BY DEF Fresh, FreeEs
<1>2. \A ep \in Endpoint : stateTable[ep] # k /\ stateTimers[ep] # k
  BY <1>1 DEF Referenced
<1>3. connecting # k
  BY <1>1 DEF Referenced
<1>4. \A p \in peers : p.es # k
  BY <1>1 DEF Referenced
<1>5. \A t \in Handlers(tasks) : t.es # k
  BY <1>1 DEF Referenced
<1> QED  BY <1>2, <1>3, <1>4, <1>5

\* A new object is well typed.
LEMMA NewType ==
  ASSUME NEW ep \in Endpoint, NEW dir \in {"INBOUND", "OUTBOUND"},
         NEW rh \in Router \cup {NoRouter}, NEW v \in State
  PROVE  /\ New(ep, dir, rh) \in EstablishmentState
         /\ New(ep, dir, rh).ep = ep /\ New(ep, dir, rh).state = "UNKNOWN"
         /\ [New(ep, dir, rh) EXCEPT !.state = v] \in EstablishmentState
         /\ [New(ep, dir, rh) EXCEPT !.state = v].ep = ep
         /\ [New(ep, dir, rh) EXCEPT !.state = v].state = v
  BY Zenon DEF New, EstablishmentState, State

\* The first half of connect() keeps the invariant: the new entry is the one
\* under way.
LEMMA ConnectBeginInv ==
  ASSUME ConstantsAssumption, IInv, NEW ri \in RouterInfo, ConnectBegin(ri)
  PROVE  IInv'
<1>1. PICK rh \in Router, ep \in Endpoint : ri = <<rh, ep>>
  BY DEF ConstantsAssumption
<1>2. ri[1] = rh /\ ri[2] = ep
  BY <1>1
<1>3. PICK k \in EsId :
        /\ Fresh(k)
        /\ es' = [es EXCEPT ![k] = New(ep, "OUTBOUND", rh)]
        /\ stateTable' = [stateTable EXCEPT ![ep] = k]
        /\ connecting' = k
  BY <1>2, Zenon DEF ConnectBegin
<1>4. /\ connecting = NoEs /\ stateTable[ep] = NoEs
      /\ UNCHANGED <<stateTimers, tasks, peers, accepting>>
  BY <1>2 DEF ConnectBegin, StateExists
<1>5. PICK r : r = New(ep, "OUTBOUND", rh)
  OBVIOUS
<1>6. r \in EstablishmentState /\ r.ep = ep /\ r.state = "UNKNOWN"
  <2>1. "UNKNOWN" \in State  BY DEF State
  <2> QED  BY <1>5, <2>1, NewType, Zenon
<1>7. /\ es \in [EsId -> EstablishmentState] /\ tasks \in Seq(Task)
      /\ stateTable \in [Endpoint -> EsId \cup {NoEs}]
      /\ stateTimers \in [Endpoint -> EsId \cup {NoEs}]
      /\ peers \subseteq PeerState
  BY DEF IInv, TypeOK
<1>8. /\ es' \in [EsId -> EstablishmentState] /\ es'[k] = r
      /\ \A j \in EsId : j # k => es'[j] = es[j]
  BY <1>3, <1>5, <1>6, <1>7, EsUpdate
<1>9. /\ \A e \in Endpoint : stateTable[e] # k /\ stateTimers[e] # k
      /\ \A p \in peers : p.es # k
      /\ \A t \in Handlers(tasks) : t.es # k
  BY <1>3, FreshObject
<1>10. /\ stateTable'[ep] = k
       /\ \A e \in Endpoint : e # ep => stateTable'[e] = stateTable[e]
       /\ stateTimers[ep] = NoEs
  BY <1>3, <1>4, <1>7 DEF IInv, TableConsistent
<1>11. TypeOK'
  BY <1>3, <1>4, <1>7, <1>8 DEF IInv, TypeOK
<1>12. KeyedWhenCreated'
  BY <1>6, <1>8, Zenon DEF IInv, KeyedWhenCreated
<1>13. TableConsistent'
  BY <1>4, <1>6, <1>7, <1>8, <1>9, <1>10 DEF IInv, TableConsistent
<1>14. ConnectExclusive'
  BY <1>3, <1>4, <1>6, <1>8, <1>9, <1>10 DEF ConnectExclusive
<1>15. TasksConsistent'
  BY <1>4, Zenon DEF IInv, TasksConsistent
<1>16. NoOrphan'
  <2> SUFFICES ASSUME NEW e \in Endpoint, stateTable'[e] # NoEs
               PROVE  LET j == stateTable'[e] IN
                      \/ stateTimers[e] = j
                      \/ k = j
                      \/ EsTask("timeout", j) \in Handlers(tasks)
                      \/ es'[j].state = "FAILURE" /\ EsTask("stateChanged", j) \in Handlers(tasks)
    BY <1>3, <1>4, Zenon DEF NoOrphan, Queued
  <2>1. CASE e = ep
    BY <1>10, <2>1, Zenon
  <2>2. CASE e # ep
    <3>1. stateTable'[e] = stateTable[e] /\ stateTable[e] \in EsId /\ stateTable[e] # k
      BY <1>7, <1>9, <1>10, <2>2, Zenon
    <3> QED  BY <1>4, <1>8, <3>1 DEF IInv, NoOrphan, Queued
  <2> QED  BY <2>1, <2>2, Zenon
<1>17. PeerCompleted' /\ PeerAuthenticated'
  BY <1>4, <1>7, <1>8, <1>9 DEF IInv, PeerCompleted, PeerAuthenticated, PeerState
<1> QED  BY <1>11, <1>12, <1>13, <1>14, <1>15, <1>16, <1>17 DEF IInv

\* The second half of connect() keeps the invariant: the timer takes over.
LEMMA ConnectEndInv ==
  ASSUME ConstantsAssumption, IInv, ConnectEnd
  PROVE  IInv'
<1>1. PICK k \in EsId : k = connecting
  BY DEF ConnectEnd, IInv, TypeOK
<1>2. /\ es \in [EsId -> EstablishmentState] /\ tasks \in Seq(Task)
      /\ stateTable \in [Endpoint -> EsId \cup {NoEs}]
      /\ stateTimers \in [Endpoint -> EsId \cup {NoEs}]
      /\ peers \subseteq PeerState /\ es[k] \in EstablishmentState
  BY DEF IInv, TypeOK
<1>3. PICK ep \in Endpoint : ep = es[k].ep
  BY <1>2 DEF EstablishmentState
<1>4. PICK r : r = [es[k] EXCEPT !.state = "REQUEST_SENT"]
  BY Zenon
<1>5. r \in EstablishmentState /\ r.ep = ep /\ r.state = "REQUEST_SENT"
  BY <1>2, <1>3, <1>4, StateUpdate, Zenon DEF State
<1>6. /\ es' = [es EXCEPT ![k] = r]
      /\ tasks' = Append(tasks, EsTask("stateChanged", k))
      /\ stateTimers' = [stateTimers EXCEPT ![ep] = k]
      /\ connecting' = NoEs
      /\ UNCHANGED <<stateTable, peers, accepting>>
  BY <1>1, <1>3, <1>4 DEF ConnectEnd
<1>7. /\ stateTable[ep] = k /\ es[k].state = "UNKNOWN" /\ k # NoEs
  BY <1>1, <1>3 DEF IInv, ConnectExclusive, ConnectEnd
<1>8. /\ es' \in [EsId -> EstablishmentState] /\ es'[k] = r
      /\ \A j \in EsId : j # k => es'[j] = es[j]
  BY <1>2, <1>5, <1>6, EsUpdate
<1>9. TaskOK(EsTask("stateChanged", k)) /\ EsTask("stateChanged", k) \in Task
  BY TaskTypes DEF TaskOK
<1>10. /\ tasks' \in Seq(Task)
       /\ Handlers(tasks') = Handlers(tasks) \cup {EsTask("stateChanged", k)}
  BY <1>2, <1>6, <1>9, AppendElems
<1>11. /\ stateTimers'[ep] = k
       /\ \A e \in Endpoint : e # ep => stateTimers'[e] = stateTimers[e]
       /\ stateTimers' \in [Endpoint -> EsId \cup {NoEs}]
  BY <1>2, <1>6, Zenon
<1>12. TypeOK'
  BY <1>2, <1>6, <1>8, <1>10, <1>11 DEF IInv, TypeOK
<1>13. KeyedWhenCreated'
  BY <1>5, <1>8 DEF IInv, KeyedWhenCreated
<1>14. TableConsistent'
  BY <1>2, <1>5, <1>6, <1>7, <1>8, <1>11 DEF IInv, TableConsistent
<1>15. ConnectExclusive'
  BY <1>6 DEF ConnectExclusive
<1>16. TasksConsistent'
  BY <1>9, <1>10, Zenon DEF IInv, TasksConsistent
<1>17. NoOrphan'
  <2> SUFFICES ASSUME NEW e \in Endpoint, stateTable[e] # NoEs
               PROVE  LET j == stateTable[e] IN
                      \/ stateTimers'[e] = j
                      \/ EsTask("timeout", j) \in Handlers(tasks')
                      \/ es'[j].state = "FAILURE" /\ EsTask("stateChanged", j) \in Handlers(tasks')
    BY <1>6 DEF NoOrphan, Queued
  <2>1. CASE e = ep
    BY <1>7, <1>11, <2>1, Zenon
  <2>2. CASE e # ep
    <3>1. stateTable[e] \in EsId /\ es[stateTable[e]].ep = e
      BY <1>2, Zenon DEF IInv, TableConsistent
    <3>2. stateTable[e] # k
      BY <1>3, <2>2, <3>1, Zenon
    <3> QED  BY <1>1, <1>8, <1>10, <1>11, <2>2, <3>1, <3>2 DEF IInv, NoOrphan, Queued
  <2> QED  BY <2>1, <2>2
<1>18. PeerCompleted' /\ PeerAuthenticated'
  <2>1. \A p \in peers : p.es \in EsId /\ p.es # k
    BY <1>2, <1>7, Zenon DEF IInv, PeerCompleted, PeerState
  <2> QED  BY <1>6, <1>8, <2>1 DEF IInv, PeerCompleted, PeerAuthenticated
<1> QED  BY <1>12, <1>13, <1>14, <1>15, <1>16, <1>17, <1>18 DEF IInv

\* What the environment appends to the queue: a received packet, or the handler
\* of an expired timer.
LEMMA ArrivalInv ==
  ASSUME IInv, NEW t, TaskOK(t), tasks' = Append(tasks, t), t.es # connecting \/ connecting = NoEs,
         UNCHANGED <<es, stateTable, accepting, connecting>>,
         stateTimers' \in [Endpoint -> EsId \cup {NoEs}],
         \A ep \in Endpoint :
           \/ stateTimers'[ep] = stateTimers[ep]
           \/ stateTimers'[ep] = NoEs /\ t = EsTask("timeout", stateTimers[ep]),
         \A p \in peers' : p \in PeerState /\
           \E o \in peers : o.ep = p.ep /\ o.rh = p.rh /\ o.es = p.es
  PROVE  IInv'
<1>1. tasks \in Seq(Task) /\ t \in Task
  BY Zenon DEF IInv, TypeOK, TaskOK
<1>2. tasks' \in Seq(Task) /\ Handlers(tasks') = Handlers(tasks) \cup {t}
  BY <1>1, AppendElems
<1>3. TypeOK'
  BY <1>2, Zenon DEF IInv, TypeOK
<1>4. KeyedWhenCreated' /\ TableConsistent'
  BY Zenon DEF IInv, KeyedWhenCreated, TableConsistent
<1>5. ConnectExclusive' /\ TasksConsistent'
  BY <1>2 DEF IInv, ConnectExclusive, TasksConsistent
<1>6. NoOrphan'
  BY <1>2 DEF IInv, NoOrphan, Queued
<1>7. PeerCompleted' /\ PeerAuthenticated'
  BY DEF IInv, PeerCompleted, PeerAuthenticated
<1> QED  BY <1>3, <1>4, <1>5, <1>6, <1>7 DEF IInv

\* An arriving packet keeps the invariant.
LEMMA PacketArrivesInv ==
  ASSUME ConstantsAssumption, IInv, NEW p \in Traffic, PacketArrives(p)
  PROVE  IInv'
<1>1. p \in Packet
  BY DEF ConstantsAssumption
<1>2. TaskOK(PacketTask(p)) /\ PacketTask(p).es = NoEs
  BY <1>1, TaskTypes
<1>3. PICK t : t = PacketTask(p)
  BY Zenon
<1>4. /\ tasks' = Append(tasks, t)
      /\ UNCHANGED <<es, stateTable, stateTimers, peers, accepting, connecting>>
  BY <1>3 DEF PacketArrives
<1>5. stateTimers \in [Endpoint -> EsId \cup {NoEs}] /\ peers \subseteq PeerState
  BY DEF IInv, TypeOK
<1> QED  BY <1>2, <1>3, <1>4, <1>5, ArrivalInv

\* An expiring establishment timer keeps the invariant: its queued handler takes
\* over.
LEMMA StateTimerExpiresInv ==
  ASSUME ConstantsAssumption, IInv, NEW ep \in Endpoint, StateTimerExpires(ep)
  PROVE  IInv'
<1>1. /\ stateTimers \in [Endpoint -> EsId \cup {NoEs}]
      /\ stateTable \in [Endpoint -> EsId \cup {NoEs}] /\ peers \subseteq PeerState
  BY DEF IInv, TypeOK
<1>2. PICK k \in EsId : k = stateTimers[ep]
  BY <1>1 DEF StateTimerExpires
<1>3. TaskOK(EsTask("timeout", k)) /\ EsTask("timeout", k).es = k
  BY TaskTypes
<1>4. PICK t : t = EsTask("timeout", k)
  OBVIOUS
<1>5. /\ tasks' = Append(tasks, t)
      /\ stateTimers' = [stateTimers EXCEPT ![ep] = NoEs]
      /\ UNCHANGED <<es, stateTable, peers, accepting, connecting>>
  BY <1>2, <1>4 DEF StateTimerExpires
<1>6. connecting # k \/ connecting = NoEs
  \* connect() arms the timer of its object only when it ends.
  BY <1>2 DEF IInv, ConnectExclusive
<1> QED  BY <1>1, <1>2, <1>3, <1>4, <1>5, <1>6, ArrivalInv

\* An expiring idle timer keeps the invariant.
LEMMA PeerTimerExpiresInv ==
  ASSUME ConstantsAssumption, IInv, NEW p \in peers, PeerTimerExpires(p)
  PROVE  IInv'
<1>1. /\ stateTimers \in [Endpoint -> EsId \cup {NoEs}]
      /\ peers \subseteq PeerState
  BY DEF IInv, TypeOK
<1>2. /\ p.rh \in Router \cup {NoRouter}
      /\ [p EXCEPT !.armed = FALSE] \in PeerState
      /\ [p EXCEPT !.armed = FALSE].ep = p.ep
      /\ [p EXCEPT !.armed = FALSE].rh = p.rh
      /\ [p EXCEPT !.armed = FALSE].es = p.es
  BY <1>1, Zenon DEF PeerState
<1>3. TaskOK(RouterTask("peerTimeout", p.rh)) /\ RouterTask("peerTimeout", p.rh).es = NoEs
  BY <1>2, TaskTypes
<1>4. PICK t : t = RouterTask("peerTimeout", p.rh)
  OBVIOUS
<1>5. /\ tasks' = Append(tasks, t)
      /\ peers' = (peers \ {p}) \cup {[p EXCEPT !.armed = FALSE]}
      /\ UNCHANGED <<es, stateTable, stateTimers, accepting, connecting>>
  BY <1>4 DEF PeerTimerExpires
<1>6. \A x \in peers' : x \in PeerState /\
           \E o \in peers : o.ep = x.ep /\ o.rh = x.rh /\ o.es = x.es
  BY <1>1, <1>2, <1>5, Zenon
<1> QED  BY <1>1, <1>3, <1>4, <1>5, <1>6, ArrivalInv

\* gracefulShutdown() keeps the invariant.
LEMMA GracefulShutdownInv ==
  ASSUME IInv, GracefulShutdown
  PROVE  IInv'
<1>1. /\ UNCHANGED <<es, stateTable, stateTimers, tasks, peers, connecting>>
      /\ accepting' = FALSE
  BY DEF GracefulShutdown
<1>2. TypeOK' /\ KeyedWhenCreated' /\ TableConsistent'
  BY <1>1, Zenon DEF IInv, TypeOK, KeyedWhenCreated, TableConsistent
<1>3. ConnectExclusive' /\ TasksConsistent' /\ NoOrphan'
  BY <1>1, Zenon DEF IInv, ConnectExclusive, TasksConsistent, NoOrphan, Queued
<1>4. PeerCompleted' /\ PeerAuthenticated'
  BY <1>1 DEF IInv, PeerCompleted, PeerAuthenticated
<1> QED  BY <1>2, <1>3, <1>4 DEF IInv

\* A packet for an establishment under way.
LEMMA HandleEsPacketInv ==
  ASSUME ConstantsAssumption, IInv, NEW p, NEW k \in EsId, HandleEsPacket(p, k),
         connecting = NoEs, tasks # <<>>, Head(tasks).op = "packet",
         p \in Packet, UNCHANGED <<accepting, connecting>>
  PROVE  IInv'
<1>1. es[k] \in EstablishmentState /\ es \in [EsId -> EstablishmentState]
  BY DEF IInv, TypeOK
<1>2. /\ UNCHANGED <<stateTable, stateTimers, peers>> /\ k # connecting
  BY DEF HandleEsPacket, NoEs, EsId
<1>3. TaskOK(EsTask("stateChanged", k)) /\ EsTask("stateChanged", k).es = k
  BY TaskTypes
<1>4. es[k].state \in {"CREATED_SENT", "CONFIRMED_RECEIVED"} => es[k].keyed
  BY DEF IInv, KeyedWhenCreated
<1>5. PICK q : q = <<EsTask("stateChanged", k)>>
  BY Zenon
<1>6. ASSUME HandleSessionCreated(p, k) PROVE IInv'
  <2>1. PICK r : r = [es[k] EXCEPT !.signed = (p.signed = k), !.state = "CREATED_RECEIVED"]
    OBVIOUS
  <2>2. /\ es' = [es EXCEPT ![k] = r] /\ tasks' = Tail(tasks) \o q
        /\ es[k].state = "REQUEST_SENT"
    BY <1>5, <1>6, <2>1, Zenon DEF HandleSessionCreated, VerifySignature, Finish
  <2>3. r \in EstablishmentState /\ r.ep = es[k].ep /\ r.state = "CREATED_RECEIVED"
    BY <1>1, <2>1, Zenon DEF EstablishmentState, State
  <2> QED  BY <1>2, <1>3, <1>5, <2>2, <2>3, EsStepInv, Zenon DEF Completed
<1>7. ASSUME HandleSessionConfirmed(p, k) PROVE IInv'
  <2>1. PICK r : r = [es[k] EXCEPT !.rh = p.rh, !.signed = (p.signed = k),
                                   !.state = "CONFIRMED_RECEIVED"]
    OBVIOUS
  <2>2. /\ es' = [es EXCEPT ![k] = r] /\ tasks' = Tail(tasks) \o q
        /\ es[k].state = "CREATED_SENT"
    BY <1>5, <1>7, <2>1, Zenon DEF HandleSessionConfirmed, VerifySignature, Finish
  <2>3. p.rh \in Router
    BY DEF Packet
  <2>4. r \in EstablishmentState /\ r.ep = es[k].ep /\ r.keyed = es[k].keyed
    BY <1>1, <2>1, <2>3, Zenon DEF EstablishmentState, State
  <2> QED  BY <1>2, <1>3, <1>4, <1>5, <2>2, <2>4, EsStepInv, Zenon DEF Completed
<1>8. ASSUME HandleSessionDestroyed(p, k) PROVE IInv'
  <2>1. PICK r : r = [es[k] EXCEPT !.state = "FAILURE"]
    BY Zenon
  <2>2. es' = [es EXCEPT ![k] = r] /\ tasks' = Tail(tasks) \o q
    BY <1>5, <1>8, <2>1 DEF HandleSessionDestroyed, Finish
  <2>3. /\ r \in EstablishmentState /\ r.ep = es[k].ep /\ r.rh = es[k].rh
        /\ r.state = "FAILURE" /\ r.keyed = es[k].keyed /\ r.signed = es[k].signed
    BY <1>1, <2>1, StateUpdate, Zenon DEF State
  <2> QED  BY <1>2, <1>3, <1>5, <2>2, <2>3, EsStepInv, Zenon DEF Completed
<1>9. ASSUME Finish(<<>>), UNCHANGED es PROVE IInv'
  <2>1. tasks' = Tail(tasks) \o <<>> /\ peers \subseteq PeerState
    BY <1>9 DEF Finish, IInv, TypeOK
  <2> QED  BY <1>2, <1>9, <2>1, QuietStepInv
<1> QED  BY <1>6, <1>7, <1>8, <1>9 DEF HandleEsPacket

\* A packet for a connected peer.
LEMMA HandlePeerPacketInv ==
  ASSUME ConstantsAssumption, IInv, NEW p, NEW ps \in peers, HandlePeerPacket(p, ps),
         tasks # <<>>, Head(tasks).op = "packet", UNCHANGED <<accepting, connecting>>
  PROVE  IInv'
<1>1. peers \subseteq PeerState /\ UNCHANGED <<es, stateTable, stateTimers>>
  BY DEF IInv, TypeOK, HandlePeerPacket
<1>2. /\ ps.rh \in Router \cup {NoRouter}
      /\ [ps EXCEPT !.armed = TRUE] \in PeerState
      /\ [ps EXCEPT !.armed = TRUE].ep = ps.ep
      /\ [ps EXCEPT !.armed = TRUE].rh = ps.rh
      /\ [ps EXCEPT !.armed = TRUE].es = ps.es
  BY <1>1, Zenon DEF PeerState
<1>3. /\ TaskOK(RouterTask("disconnected", ps.rh))
      /\ RouterTask("disconnected", ps.rh).es = NoEs
  BY <1>2, TaskTypes
<1>4. PICK q : q = <<RouterTask("disconnected", ps.rh)>>
  BY Zenon
<1>5. \A x \in peers' : x \in peers \/ x = [ps EXCEPT !.armed = TRUE]
  BY DEF HandlePeerPacket
<1>6. \A x \in peers' : x \in PeerState /\
           \E o \in peers : o.ep = x.ep /\ o.rh = x.rh /\ o.es = x.es
  BY <1>1, <1>2, <1>5, Zenon
<1>7. tasks' = Tail(tasks) \o <<>> \/ tasks' = Tail(tasks) \o q
  BY <1>4 DEF HandlePeerPacket, Verify, Finish
<1> QED  BY <1>1, <1>3, <1>4, <1>6, <1>7, QuietStepInv, Zenon

\* A packet from an endpoint with neither a session nor an establishment.
LEMMA HandleNewPacketInv ==
  ASSUME ConstantsAssumption, IInv, NEW p \in Packet, HandleNewPacket(p),
         connecting = NoEs, stateTable[p.ep] = NoEs, UNCHANGED <<accepting, connecting>>,
         tasks # <<>>, Head(tasks).op = "packet"
  PROVE  IInv'
<1>1. /\ es \in [EsId -> EstablishmentState] /\ tasks \in Seq(Task)
      /\ stateTable \in [Endpoint -> EsId \cup {NoEs}]
      /\ stateTimers \in [Endpoint -> EsId \cup {NoEs}]
      /\ peers \subseteq PeerState /\ p.ep \in Endpoint
  BY DEF IInv, TypeOK, Packet
<1>2. CASE ~(p.key = Own /\ p.type = "SESSION_REQUEST")
  <2>1. /\ tasks' = Tail(tasks) \o <<>>
        /\ UNCHANGED <<es, stateTable, stateTimers, peers>>
    BY <1>2, Zenon DEF HandleNewPacket, Verify, Finish
  <2> QED  BY <1>1, <2>1, QuietStepInv, Zenon
<1>3. CASE p.key = Own /\ p.type = "SESSION_REQUEST"
  <2>1. PICK k \in EsId :
          /\ Fresh(k)
          /\ stateTable' = [stateTable EXCEPT ![p.ep] = k]
          /\ stateTimers' = [stateTimers EXCEPT ![p.ep] = k]
          /\ peers' = peers
          /\ \/ /\ es' = [es EXCEPT ![k] = [New(p.ep, "INBOUND", NoRouter)
                                            EXCEPT !.state = "REQUEST_RECEIVED"]]
                /\ tasks' = Tail(tasks) \o <<EsTask("stateChanged", k)>>
             \/ /\ es' = [es EXCEPT ![k] = New(p.ep, "INBOUND", NoRouter)]
                /\ tasks' = Tail(tasks) \o <<>>
    BY <1>3, Zenon DEF HandleNewPacket, Verify, Finish
  <2>2. PICK r, q :
          /\ es' = [es EXCEPT ![k] = r] /\ tasks' = Tail(tasks) \o q
          /\ r \in EstablishmentState /\ r.ep = p.ep
          /\ r.state \in {"UNKNOWN", "REQUEST_RECEIVED"}
          /\ q = <<>> \/ \E t : TaskOK(t) /\ q = <<t>>
    <3>1. TaskOK(EsTask("stateChanged", k))
      BY TaskTypes, Zenon
    <3>2. "REQUEST_RECEIVED" \in State /\ "INBOUND" \in {"INBOUND", "OUTBOUND"}
      BY DEF State
    <3>3. /\ New(p.ep, "INBOUND", NoRouter) \in EstablishmentState
          /\ New(p.ep, "INBOUND", NoRouter).ep = p.ep
          /\ New(p.ep, "INBOUND", NoRouter).state = "UNKNOWN"
          /\ [New(p.ep, "INBOUND", NoRouter) EXCEPT !.state = "REQUEST_RECEIVED"]
               \in EstablishmentState
          /\ [New(p.ep, "INBOUND", NoRouter) EXCEPT !.state = "REQUEST_RECEIVED"].ep = p.ep
          /\ [New(p.ep, "INBOUND", NoRouter) EXCEPT !.state = "REQUEST_RECEIVED"].state
               = "REQUEST_RECEIVED"
      BY <1>1, <3>2, NewType
    <3> QED  BY <2>1, <3>1, <3>3, Zenon
  <2>3. /\ \A e \in Endpoint : stateTable[e] # k /\ stateTimers[e] # k
        /\ \A x \in peers : x.es # k
    BY <2>1, FreshObject, Zenon
  <2>4. /\ es' \in [EsId -> EstablishmentState] /\ es'[k] = r
        /\ \A j \in EsId : j # k => es'[j] = es[j]
    BY <1>1, <2>2, EsUpdate, Zenon
  <2>5. /\ tasks' \in Seq(Task) /\ TasksConsistent'
        /\ Handlers(tasks) \ {Head(tasks)} \subseteq Handlers(tasks')
    BY <1>1, <2>2, ServiceStep, Zenon DEF IInv, TasksConsistent
  <2>6. /\ stateTable'[p.ep] = k /\ stateTimers'[p.ep] = k
        /\ \A e \in Endpoint : e # p.ep =>
             stateTable'[e] = stateTable[e] /\ stateTimers'[e] = stateTimers[e]
    BY <1>1, <2>1
  <2>7. TypeOK'
    BY <1>1, <2>1, <2>4, <2>5 DEF IInv, TypeOK
  <2>8. KeyedWhenCreated'
    BY <2>2, <2>4, Zenon DEF IInv, KeyedWhenCreated
  <2>9. TableConsistent'
    <3> SUFFICES ASSUME NEW e \in Endpoint
                 PROVE  /\ stateTable'[e] # NoEs => es'[stateTable'[e]].ep = e
                        /\ stateTimers'[e] # NoEs => stateTimers'[e] = stateTable'[e]
      BY Zenon DEF TableConsistent
    <3>1. CASE e = p.ep
      BY <2>2, <2>4, <2>6, <3>1, Zenon
    <3>2. CASE e # p.ep
      <4>1. stateTable[e] # NoEs => stateTable[e] \in EsId \ {k}
        BY <1>1, <2>3, Zenon DEF NoEs, EsId
      <4>2. TableConsistent
        BY Zenon DEF IInv
      <4> QED  BY <2>4, <2>6, <3>2, <4>1, <4>2, ZenonT(40) DEF TableConsistent
    <3> QED  BY <3>1, <3>2, Zenon
  <2>10. ConnectExclusive'
    BY Zenon DEF ConnectExclusive
  <2>11. NoOrphan'
    <3> SUFFICES ASSUME NEW e \in Endpoint, stateTable'[e] # NoEs
                 PROVE  LET j == stateTable'[e] IN
                        \/ stateTimers'[e] = j
                        \/ EsTask("timeout", j) \in Handlers(tasks')
                        \/ es'[j].state = "FAILURE" /\ EsTask("stateChanged", j) \in Handlers(tasks')
      BY Zenon DEF NoOrphan, Queued
    <3>1. CASE e = p.ep
      BY <2>6, <3>1, Zenon
    <3>2. CASE e # p.ep
      <4>1. /\ stateTable'[e] = stateTable[e] /\ stateTable[e] \in EsId
            /\ stateTable[e] # k /\ stateTable[e] # connecting
        BY <1>1, <2>3, <2>6, <3>2, Zenon DEF NoEs, EsId
      <4>2. \A j : Head(tasks) # EsTask("timeout", j) /\ Head(tasks) # EsTask("stateChanged", j)
        BY DEF EsTask
      <4> QED  BY <2>4, <2>5, <2>6, <3>2, <4>1, <4>2, ZenonT(40) DEF IInv, NoOrphan, Queued
    <3> QED  BY <3>1, <3>2, Zenon
  <2>12. PeerCompleted' /\ PeerAuthenticated'
    <3>1. peers' = peers /\ \A x \in peers : es'[x.es] = es[x.es]
      BY <1>1, <2>1, <2>3, <2>4 DEF PeerState
    <3>2. PeerCompleted /\ PeerAuthenticated
      BY Zenon DEF IInv
    <3> QED  BY <3>1, <3>2, Zenon DEF PeerCompleted, PeerAuthenticated
  <2> QED  BY <2>5, <2>7, <2>8, <2>9, <2>10, <2>11, <2>12 DEF IInv
<1> QED  BY <1>2, <1>3

\* packetReceived keeps the invariant, whomever the packet is for.
LEMMA PacketReceivedInv ==
  ASSUME ConstantsAssumption, IInv, PacketReceived
  PROVE  IInv'
<1>1. /\ tasks # <<>> /\ Head(tasks).op = "packet" /\ connecting = NoEs
      /\ UNCHANGED <<accepting, connecting>>
  BY DEF PacketReceived, Running, Unlocked
<1>2. Head(tasks).pkt \in Packet
  <2>1. tasks \in Seq(Task)  BY DEF IInv, TypeOK
  <2>2. Head(tasks) \in Handlers(tasks)  BY <1>1, <2>1 DEF Handlers
  <2> QED  BY <1>1, <2>2 DEF IInv, TasksConsistent, TaskOK
<1>3. PICK p \in Packet : p = Head(tasks).pkt
  BY <1>2
<1>4. /\ p.ep \in Endpoint /\ stateTable \in [Endpoint -> EsId \cup {NoEs}]
      /\ peers \subseteq PeerState
  BY Zenon DEF Packet, IInv, TypeOK
<1>5. CASE \E ps \in peers : ps.ep = p.ep /\ HandlePeerPacket(p, ps)
  BY <1>1, <1>5, HandlePeerPacketInv, Zenon
<1>6. CASE StateExists(p.ep) /\ HandleEsPacket(p, stateTable[p.ep])
  <2>1. PICK k \in EsId : k = stateTable[p.ep]
    BY <1>4, <1>6 DEF StateExists
  <2> QED  BY <1>1, <1>6, <2>1, HandleEsPacketInv
<1>7. CASE ~StateExists(p.ep) /\ HandleNewPacket(p)
  BY <1>1, <1>7, HandleNewPacketInv DEF StateExists
<1>8. CASE DropPacket
  <2>1. /\ tasks' = Tail(tasks) \o <<>>
        /\ UNCHANGED <<es, stateTable, stateTimers, peers>>
    BY <1>8 DEF DropPacket, Finish
  <2> QED  BY <1>1, <1>4, <2>1, QuietStepInv, Zenon
<1> QED  BY <1>3, <1>5, <1>6, <1>7, <1>8, Zenon DEF PacketReceived

\* The invariant holds at the start.
LEMMA InitInv == ConstantsAssumption /\ Init => IInv
<1> SUFFICES ASSUME ConstantsAssumption, Init
             PROVE  IInv
  OBVIOUS
<1>1. PICK e \in Endpoint : e = CHOOSE ep \in Endpoint : TRUE
  BY DEF ConstantsAssumption
<1>2. New(e, "INBOUND", NoRouter) \in EstablishmentState
  BY NewType, Zenon DEF State
<1>3. \A k \in EsId : es[k] = New(e, "INBOUND", NoRouter)
  BY <1>1 DEF Init
<1>4. TypeOK
  BY <1>1, <1>2 DEF Init, TypeOK
<1>5. Handlers(tasks) = {}
  BY PostedElems DEF Init
<1> QED
  BY <1>3, <1>4, <1>5, Zenon DEF Init, IInv, KeyedWhenCreated, TableConsistent, ConnectExclusive,
     TasksConsistent, NoOrphan, PeerCompleted, PeerAuthenticated, New

\* Every step keeps the invariant.
LEMMA NextInv == ConstantsAssumption /\ IInv /\ [Next]_vars => IInv'
<1> SUFFICES ASSUME ConstantsAssumption, IInv, [Next]_vars
             PROVE  IInv'
  OBVIOUS
<1>1. CASE Next
  <2>1. ASSUME NEW ri \in RouterInfo, ConnectBegin(ri) PROVE IInv'
    BY <2>1, ConnectBeginInv
  <2>2. CASE ConnectEnd
    BY <2>2, ConnectEndInv
  <2>3. CASE GracefulShutdown
    BY <2>3, GracefulShutdownInv
  <2>4. ASSUME NEW p \in Traffic, PacketArrives(p) PROVE IInv'
    BY <2>4, PacketArrivesInv
  <2>5. ASSUME NEW ep \in Endpoint, StateTimerExpires(ep) PROVE IInv'
    BY <2>5, StateTimerExpiresInv
  <2>6. ASSUME NEW p \in peers, PeerTimerExpires(p) PROVE IInv'
    BY <2>6, PeerTimerExpiresInv
  <2>7. CASE StateChanged
    BY <2>7, StateChangedInv
  <2>8. CASE TimeoutCallback
    BY <2>8, TimeoutCallbackInv
  <2>9. CASE PacketReceived
    BY <2>9, PacketReceivedInv
  <2>10. CASE PeerTimeout
    BY <2>10, PeerTimeoutInv
  <2>11. CASE EmitSignal
    BY <2>11, EmitSignalInv
  <2> QED
    BY <1>1, <2>1, <2>2, <2>3, <2>4, <2>5, <2>6, <2>7, <2>8, <2>9, <2>10, <2>11
       DEF Next, ServiceThread
<1>2. CASE UNCHANGED vars
  <2>1. TypeOK' /\ KeyedWhenCreated' /\ TableConsistent'
    BY <1>2 DEF vars, IInv, TypeOK, KeyedWhenCreated, TableConsistent
  <2>2. ConnectExclusive' /\ TasksConsistent' /\ NoOrphan'
    BY <1>2, Zenon DEF vars, IInv, ConnectExclusive, TasksConsistent, NoOrphan, Queued
  <2>3. PeerCompleted' /\ PeerAuthenticated'
    BY <1>2, Zenon DEF vars, IInv, PeerCompleted, PeerAuthenticated
  <2> QED  BY <2>1, <2>2, <2>3, Zenon DEF IInv
<1> QED  BY <1>1, <1>2

\* The invariant that carries all the others.
THEOREM Invariance == Spec => []IInv
<1>1. ConstantsAssumption
  BY ConstantsAssumption
<1> QED  BY <1>1, InitInv, NextInv, PTL DEF Spec

\* The state of the transport is well typed in every reachable state.
THEOREM TypeCorrect == Spec => []TypeOK
<1>1. IInv => TypeOK
  BY DEF IInv
<1> QED  BY <1>1, Invariance, PTL

\* However packets, timers and calls of connect() interleave, no entry of the
\* state table is ever left without something that will remove it.
THEOREM NoOrphanTheorem == Spec => []NoOrphan
<1>1. IInv => NoOrphan
  BY DEF IInv
<1> QED  BY <1>1, Invariance, PTL

\* A peer is listed only under the endpoint, router and secret of an
\* establishment whose signature verified, and stays so.
THEOREM PeerAuthenticatedTheorem == Spec => []PeerAuthenticated
<1>1. IInv => PeerAuthenticated
  BY DEF IInv
<1> QED  BY <1>1, Invariance, PTL
=============================================================================
