----------------------------- MODULE QueueProofs -----------------------------
(***************************************************************************)
(* Proofs about the order of the handlers in Context::ios: how often an    *)
(* establishment is announced and why addPeer never refuses a peer.        *)
(***************************************************************************)
EXTENDS EstablishmentProofs

\* The handler that runs stateChanged on object k.
Change(k) == EsTask("stateChanged", k)

\* How many handlers of the queue s are t: none, at most one, at most two.
Absent(t, s) == \A i \in 1..Len(s) : s[i] # t
AtMostOne(t, s) == \A i, j \in 1..Len(s) : s[i] = t /\ s[j] = t => i = j
AtMostTwo(t, s) ==
  \A i, j, l \in 1..Len(s) : s[i] = t /\ s[j] = t /\ s[l] = t => i = j \/ i = l \/ j = l

\* The i-th handler of the queue is a packet that was made with the secret of k.
KeyedPacket(i, k) == tasks[i].op = "packet" /\ tasks[i].pkt.key = k

\* ... that carries a signature over the values of k.
SignedPacket(i, k) == tasks[i].op = "packet" /\ tasks[i].pkt.signed = k

\* An inbound object has one stateChanged queued at most.  Nobody can use its
\* secret before CREATED_SENT is reached, so a packet that does is behind the
\* handler posted then.  Once announced it has none left.
InboundOK(k) ==
  /\ es[k].state \in {"UNKNOWN", "REQUEST_RECEIVED", "CREATED_SENT",
                      "CONFIRMED_RECEIVED", "FAILURE"}
  /\ es[k].state # "FAILURE" => AtMostOne(Change(k), tasks)
  /\ es[k].state \in {"UNKNOWN", "REQUEST_RECEIVED"} =>
       ~es[k].keyed /\ \A i \in 1..Len(tasks) : ~KeyedPacket(i, k)
  /\ es[k].state = "CREATED_SENT" =>
       \A i, j \in 1..Len(tasks) : tasks[i] = Change(k) /\ KeyedPacket(j, k) => i < j
  /\ es[k].state = "CONFIRMED_RECEIVED" =>
       \/ es[k].established = 0 /\ Queued(Change(k))
       \/ es[k].established = 1 /\ Absent(Change(k), tasks)

\* An outbound object has a second stateChanged when the answer was faster than
\* the handler connect() posted; what is queued and what was announced are two at
\* most.
OutboundOK(k) ==
  /\ es[k].state \in {"UNKNOWN", "REQUEST_SENT", "CREATED_RECEIVED",
                      "CONFIRMED_SENT", "FAILURE"}
  /\ es[k].state = "UNKNOWN" => Absent(Change(k), tasks)
  /\ es[k].state = "REQUEST_SENT" => AtMostOne(Change(k), tasks)
  /\ es[k].state = "CREATED_RECEIVED" =>
       AtMostTwo(Change(k), tasks) /\ Queued(Change(k))
  /\ es[k].state = "CONFIRMED_SENT" =>
       \/ es[k].established = 0 /\ AtMostTwo(Change(k), tasks)
       \/ es[k].established = 1 /\ AtMostOne(Change(k), tasks)
       \/ es[k].established = 2 /\ Absent(Change(k), tasks)

ObjectOK(k) ==
  /\ es[k].state \notin Completed => es[k].established = 0
  /\ es[k].dir = "INBOUND" => InboundOK(k)
  /\ es[k].dir = "OUTBOUND" => OutboundOK(k)

\* The signature of k verified and the handler that lists its peer is queued.
Completing(k) ==
  /\ es[k].signed
  /\ \/ es[k].state = "CREATED_RECEIVED"
     \/ es[k].state = "CONFIRMED_RECEIVED" /\ es[k].established = 0

\* No peer is listed yet where an object completes, and no other object completes.
CompletingAlone ==
  \A k \in EsId : Completing(k) =>
    /\ ~PeerExists(es[k].ep)
    /\ \A j \in EsId : Completing(j) /\ es[j].ep = es[k].ep => j = k

\* When the table has moved on from a completing object j to an object k of the
\* same endpoint, whatever could complete k is behind the handler of j.
CompletingFirst ==
  \A j, k \in EsId :
    Completing(j) /\ j # k /\ es[j].ep = es[k].ep /\ stateTable[es[k].ep] = k =>
      \A i \in 1..Len(tasks) : SignedPacket(i, k) =>
        \E l \in 1..Len(tasks) : l < i /\ tasks[l] = Change(j)

\* A handler of stateChanged holds its object and nothing else.
ChangesPlain ==
  \A i \in 1..Len(tasks) : tasks[i].op = "stateChanged" => tasks[i] = Change(tasks[i].es)

QueueOK ==
  /\ ChangesPlain
  /\ connecting # NoEs => es[connecting].dir = "OUTBOUND"
  /\ \A k \in EsId : ObjectOK(k)
  /\ CompletingAlone
  /\ CompletingFirst

\* The inductive invariant.
QueueInv == IInv /\ QueueOK

-----------------------------------------------------------------------------
\* The queue u is s without its first d handlers and with n handlers t behind it.
Moved(s, u, d, n, t) ==
  /\ d \in {0, 1} /\ n \in {0, 1} /\ d <= Len(s)
  /\ Len(s) \in Nat /\ Len(u) = (Len(s) - d) + n
  /\ \A i \in 1..Len(s) - d : u[i] = s[i + d]
  /\ n = 1 => u[(Len(s) - d) + 1] = t

\* The four ways the queue changes.
LEMMA QueueMoved ==
  ASSUME NEW s \in Seq(Task), NEW t \in Task
  PROVE  /\ Moved(s, s, 0, 0, t)
         /\ Moved(s, Append(s, t), 0, 1, t)
         /\ s # <<>> => Moved(s, Tail(s) \o <<>>, 1, 0, t)
         /\ s # <<>> => Moved(s, Tail(s) \o <<t>>, 1, 1, t)
<1>1. Len(s) \in Nat
  OBVIOUS
<1>2. Moved(s, s, 0, 0, t)
  BY <1>1 DEF Moved
<1>3. Moved(s, Append(s, t), 0, 1, t)
  <2>1. /\ Len(Append(s, t)) = Len(s) + 1
        /\ \A i \in 1..Len(s) : Append(s, t)[i] = s[i]
        /\ Append(s, t)[Len(s) + 1] = t
    OBVIOUS
  <2> QED  BY <1>1, <2>1 DEF Moved
<1>4. ASSUME s # <<>>, NEW q \in Seq(Task)
      PROVE  /\ Len(s) >= 1 /\ Len(Tail(s) \o q) = (Len(s) - 1) + Len(q)
             /\ \A i \in 1..Len(s) - 1 : (Tail(s) \o q)[i] = s[i + 1]
             /\ \A i \in 1..Len(q) : (Tail(s) \o q)[(Len(s) - 1) + i] = q[i]
  <2>1. /\ Tail(s) \in Seq(Task) /\ Len(Tail(s)) = Len(s) - 1
        /\ Len(s) \in Nat \ {0} /\ Len(q) \in Nat
    BY <1>4
  <2>2. \A i \in 1..Len(s) - 1 : Tail(s)[i] = s[i + 1]
    BY <1>4
  <2> QED  BY <2>1, <2>2
<1>5. s # <<>> => Moved(s, Tail(s) \o <<>>, 1, 0, t)
  <2>1. <<>> \in Seq(Task) /\ Len(<<>>) = 0
    OBVIOUS
  <2> QED  BY <1>1, <1>4, <2>1 DEF Moved
<1>6. s # <<>> => Moved(s, Tail(s) \o <<t>>, 1, 1, t)
  <2>1. <<t>> \in Seq(Task) /\ Len(<<t>>) = 1 /\ <<t>>[1] = t
    OBVIOUS
  <2> QED  BY <1>1, <1>4, <2>1 DEF Moved
<1> QED  BY <1>2, <1>3, <1>5, <1>6

\* Where a handler of the new queue comes from, and where one of the old goes.
LEMMA MovedFrom ==
  ASSUME NEW s, NEW u, NEW d, NEW n, NEW t, Moved(s, u, d, n, t)
  PROVE  /\ \A i \in 1..Len(u) :
              \/ i + d \in 1..Len(s) /\ u[i] = s[i + d]
              \/ n = 1 /\ i = Len(u) /\ u[i] = t
         /\ \A i \in 1..Len(s) : i > d => i - d \in 1..Len(u) /\ u[i - d] = s[i]
         /\ n = 1 => Len(u) \in 1..Len(u) /\ u[Len(u)] = t
         /\ Len(u) \in Nat
<1>1. /\ d \in {0, 1} /\ n \in {0, 1} /\ d <= Len(s)
      /\ Len(s) \in Nat /\ Len(u) = (Len(s) - d) + n
      /\ \A i \in 1..Len(s) - d : u[i] = s[i + d]
      /\ n = 1 => u[(Len(s) - d) + 1] = t
  BY DEF Moved
<1>2. ASSUME NEW i \in 1..Len(u)
      PROVE  \/ i + d \in 1..Len(s) /\ u[i] = s[i + d]
             \/ n = 1 /\ i = Len(u) /\ u[i] = t
  <2>1. CASE i \in 1..Len(s) - d
    <3>1. i + d \in 1..Len(s)  BY <1>1, <2>1
    <3> QED  BY <1>1, <2>1, <3>1
  <2>2. CASE i \notin 1..Len(s) - d
    <3>1. n = 1 /\ i = (Len(s) - d) + 1 /\ i = Len(u)  BY <1>1, <2>2
    <3> QED  BY <1>1, <3>1
  <2> QED  BY <2>1, <2>2
<1>3. ASSUME NEW i \in 1..Len(s), i > d
      PROVE  i - d \in 1..Len(u) /\ u[i - d] = s[i]
  <2>1. i - d \in 1..Len(s) - d /\ (i - d) + d = i /\ i - d \in 1..Len(u)
    BY <1>1, <1>3
  <2> QED  BY <1>1, <2>1
<1>4. n = 1 => Len(u) \in 1..Len(u) /\ u[Len(u)] = t
  BY <1>1
<1>5. Len(u) \in Nat
  BY <1>1
<1> QED  BY <1>2, <1>3, <1>4, <1>5

\* One is at most two, none is at most one.
LEMMA FewerStill ==
  ASSUME NEW t, NEW s, NEW m \in Nat, Len(s) = m
  PROVE  /\ Absent(t, s) => AtMostOne(t, s)
         /\ AtMostOne(t, s) => AtMostTwo(t, s)
  BY DEF Absent, AtMostOne, AtMostTwo

\* A step that posts no x leaves as many, and one less when x itself ran.
LEMMA CountKept ==
  ASSUME NEW s, NEW u, NEW d, NEW n, NEW t, Moved(s, u, d, n, t),
         NEW x, n = 1 => t # x
  PROVE  /\ Absent(x, s) => Absent(x, u)
         /\ AtMostOne(x, s) => AtMostOne(x, u)
         /\ AtMostTwo(x, s) => AtMostTwo(x, u)
         /\ d = 1 /\ s[1] = x => /\ AtMostOne(x, s) => Absent(x, u)
                                 /\ AtMostTwo(x, s) => AtMostOne(x, u)
<1>1. /\ d \in {0, 1} /\ d <= Len(s) /\ Len(s) \in Nat /\ Len(u) \in Nat
      /\ \A i \in 1..Len(u) : u[i] = x => i + d \in 1..Len(s) /\ s[i + d] = x
  BY MovedFrom DEF Moved
<1>2. Absent(x, s) => Absent(x, u)
  BY <1>1 DEF Absent
<1>3. AtMostOne(x, s) => AtMostOne(x, u)
  <2> SUFFICES ASSUME AtMostOne(x, s), NEW i \in 1..Len(u), NEW j \in 1..Len(u),
                      u[i] = x, u[j] = x
               PROVE  i = j
    BY DEF AtMostOne
  <2>1. i + d = j + d  BY <1>1 DEF AtMostOne
  <2> QED  BY <1>1, <2>1
<1>4. AtMostTwo(x, s) => AtMostTwo(x, u)
  <2> SUFFICES ASSUME AtMostTwo(x, s), NEW i \in 1..Len(u), NEW j \in 1..Len(u),
                      NEW l \in 1..Len(u), u[i] = x, u[j] = x, u[l] = x
               PROVE  i = j \/ i = l \/ j = l
    BY DEF AtMostTwo
  <2>1. i + d = j + d \/ i + d = l + d \/ j + d = l + d  BY <1>1, Zenon DEF AtMostTwo
  <2> QED  BY <1>1, <2>1
<1>5. ASSUME d = 1, s[1] = x, AtMostOne(x, s) PROVE Absent(x, u)
  <2> SUFFICES ASSUME NEW i \in 1..Len(u), u[i] = x PROVE FALSE
    BY DEF Absent
  <2>1. i + 1 \in 1..Len(s) /\ s[i + 1] = x /\ 1 \in 1..Len(s)  BY <1>1, <1>5
  <2>2. i + 1 = 1  BY <1>5, <2>1 DEF AtMostOne
  <2> QED  BY <1>1, <2>2
<1>6. ASSUME d = 1, s[1] = x, AtMostTwo(x, s) PROVE AtMostOne(x, u)
  <2> SUFFICES ASSUME NEW i \in 1..Len(u), NEW j \in 1..Len(u), u[i] = x, u[j] = x
               PROVE  i = j
    BY DEF AtMostOne
  <2>1. /\ i + 1 \in 1..Len(s) /\ s[i + 1] = x /\ 1 \in 1..Len(s)
        /\ j + 1 \in 1..Len(s) /\ s[j + 1] = x
    BY <1>1, <1>6
  <2>2. i + 1 = 1 \/ j + 1 = 1 \/ i + 1 = j + 1  BY <1>6, <2>1 DEF AtMostTwo
  <2> QED  BY <1>1, <2>2
<1> QED  BY <1>2, <1>3, <1>4, <1>5, <1>6

\* A step that posts nothing brings no x.
LEMMA NonePosted ==
  ASSUME NEW s, NEW u, NEW d, NEW t, Moved(s, u, d, 0, t), NEW x, Absent(x, s)
  PROVE  Absent(x, u)
  BY CountKept

\* A step that posts x leaves one more, and as many when x itself ran.
LEMMA CountPosted ==
  ASSUME NEW s, NEW u, NEW d, NEW x, Moved(s, u, d, 1, x)
  PROVE  /\ Absent(x, s) => AtMostOne(x, u)
         /\ AtMostOne(x, s) => AtMostTwo(x, u)
         /\ d = 1 /\ s[1] = x => /\ AtMostOne(x, s) => AtMostOne(x, u)
                                 /\ AtMostTwo(x, s) => AtMostTwo(x, u)
<1>1. /\ d \in {0, 1} /\ d <= Len(s) /\ Len(s) \in Nat /\ Len(u) \in Nat
      /\ \A i \in 1..Len(u) : i # Len(u) => i + d \in 1..Len(s) /\ s[i + d] = u[i]
  BY MovedFrom DEF Moved
<1>2. Absent(x, s) => AtMostOne(x, u)
  <2> SUFFICES ASSUME Absent(x, s), NEW i \in 1..Len(u), u[i] = x
               PROVE  i = Len(u)
    BY DEF AtMostOne
  <2> QED  BY <1>1 DEF Absent
<1>3. AtMostOne(x, s) => AtMostTwo(x, u)
  <2> SUFFICES ASSUME AtMostOne(x, s), NEW i \in 1..Len(u), NEW j \in 1..Len(u),
                      u[i] = x, u[j] = x, i # Len(u), j # Len(u)
               PROVE  i = j
    BY DEF AtMostTwo
  <2>1. i + d = j + d  BY <1>1 DEF AtMostOne
  <2> QED  BY <1>1, <2>1
<1>4. ASSUME d = 1, s[1] = x, AtMostOne(x, s) PROVE AtMostOne(x, u)
  <2> SUFFICES ASSUME NEW i \in 1..Len(u), u[i] = x, i # Len(u) PROVE FALSE
    BY DEF AtMostOne
  <2>1. i + 1 \in 1..Len(s) /\ s[i + 1] = x /\ 1 \in 1..Len(s)  BY <1>1, <1>4
  <2>2. i + 1 = 1  BY <1>4, <2>1 DEF AtMostOne
  <2> QED  BY <1>1, <2>2
<1>5. ASSUME d = 1, s[1] = x, AtMostTwo(x, s) PROVE AtMostTwo(x, u)
  <2> SUFFICES ASSUME NEW i \in 1..Len(u), NEW j \in 1..Len(u), u[i] = x, u[j] = x,
                      i # Len(u), j # Len(u)
               PROVE  i = j
    BY DEF AtMostTwo
  <2>1. /\ i + 1 \in 1..Len(s) /\ s[i + 1] = x /\ 1 \in 1..Len(s)
        /\ j + 1 \in 1..Len(s) /\ s[j + 1] = x
    BY <1>1, <1>5
  <2>2. i + 1 = 1 \/ j + 1 = 1 \/ i + 1 = j + 1  BY <1>5, <2>1 DEF AtMostTwo
  <2> QED  BY <1>1, <2>2
<1> QED  BY <1>2, <1>3, <1>4, <1>5

\* The first x posted is the only one.
LEMMA FirstPosted ==
  ASSUME NEW s, NEW u, NEW d, NEW x, Moved(s, u, d, 1, x), Absent(x, s)
  PROVE  AtMostOne(x, u)
  BY CountPosted

\* What is queued stays queued unless it ran; what is posted is queued.
LEMMA MovedQueued ==
  ASSUME NEW s, NEW u, NEW d, NEW n, NEW t, Moved(s, u, d, n, t), NEW x,
         \/ n = 1 /\ t = x
         \/ x \in Handlers(s) /\ (d = 1 => s[1] # x)
  PROVE  x \in Handlers(u)
<1>1. CASE n = 1 /\ t = x
  BY <1>1, MovedFrom DEF Handlers
<1>2. CASE x \in Handlers(s) /\ (d = 1 => s[1] # x)
  <2>1. PICK i \in 1..Len(s) : s[i] = x
    BY <1>2 DEF Handlers
  <2>2. i > d
    BY <1>2, <2>1 DEF Moved
  <2>3. i - d \in 1..Len(u) /\ u[i - d] = s[i]
    BY <2>2, MovedFrom
  <2> QED  BY <2>1, <2>3 DEF Handlers
<1> QED  BY <1>1, <1>2

-----------------------------------------------------------------------------
\* An object that keeps its state, in a step that does not post its stateChanged:
\* it may be the one that runs, unless it still has work to do.
LEMMA SameObject ==
  ASSUME NEW k, ObjectOK(k), es'[k].state = es[k].state, es'[k].dir = es[k].dir,
         es'[k].keyed = es[k].keyed, es'[k].established = es[k].established,
         NEW d, NEW n, NEW t, Moved(tasks, tasks', d, n, t), n = 1 => t # Change(k),
         d = 1 /\ tasks[1] = Change(k) =>
           es[k].state \notin {"CREATED_RECEIVED", "CONFIRMED_RECEIVED"},
         n = 1 /\ t.op = "packet" /\ t.pkt.key = k => es[k].keyed \/ es[k].dir = "OUTBOUND"
  PROVE  ObjectOK(k)'
<1>1. PICK x : x = Change(k) /\ x.op = "stateChanged"
  BY DEF Change, EsTask
<1>2. /\ Absent(x, tasks) => Absent(x, tasks')
      /\ AtMostOne(x, tasks) => AtMostOne(x, tasks')
      /\ AtMostTwo(x, tasks) => AtMostTwo(x, tasks')
  BY <1>1, CountKept
<1>3. es[k].state \in {"CREATED_RECEIVED", "CONFIRMED_RECEIVED"} /\ x \in Handlers(tasks) =>
        x \in Handlers(tasks')
  BY <1>1, MovedQueued
<1>4. \A i \in 1..Len(tasks') :
        \/ i + d \in 1..Len(tasks) /\ tasks'[i] = tasks[i + d]
        \/ n = 1 /\ i = Len(tasks') /\ tasks'[i] = t
  BY MovedFrom
<1>5. d \in {0, 1} /\ Len(tasks) \in Nat /\ Len(tasks') \in Nat
  BY MovedFrom DEF Moved
<1>6. ASSUME ~es[k].keyed, es[k].dir = "INBOUND", \A i \in 1..Len(tasks) : ~KeyedPacket(i, k)
      PROVE  \A i \in 1..Len(tasks') : ~KeyedPacket(i, k)'
  BY <1>4, <1>6 DEF KeyedPacket
<1>7. ASSUME \A i, j \in 1..Len(tasks) : tasks[i] = x /\ KeyedPacket(j, k) => i < j,
             NEW i \in 1..Len(tasks'), NEW j \in 1..Len(tasks'),
             tasks'[i] = x, KeyedPacket(j, k)'
      PROVE  i < j
  <2>1. i + d \in 1..Len(tasks) /\ tasks[i + d] = x
    BY <1>1, <1>4, <1>7
  <2>2. CASE j + d \in 1..Len(tasks) /\ tasks'[j] = tasks[j + d]
    <3>1. KeyedPacket(j + d, k)  BY <1>7, <2>2 DEF KeyedPacket
    <3>2. i + d < j + d  BY <1>7, <2>1, <2>2, <3>1
    <3> QED  BY <1>5, <3>2
  <2>3. CASE j = Len(tasks')
    <3>1. i # j  BY <1>1, <1>7, Zenon DEF KeyedPacket
    <3> QED  BY <1>5, <2>3, <3>1
  <2> QED  BY <1>4, <2>2, <2>3
<1>8. es[k].dir = "INBOUND" => InboundOK(k)'
  <2> SUFFICES ASSUME es[k].dir = "INBOUND" PROVE InboundOK(k)'
    OBVIOUS
  <2>1. InboundOK(k)
    BY DEF ObjectOK
  <2>2. es[k].state = "CREATED_SENT" =>
          \A i, j \in 1..Len(tasks') : tasks'[i] = x /\ KeyedPacket(j, k)' => i < j
    BY <1>1, <1>7, <2>1 DEF InboundOK
  <2>3. es[k].state \in {"UNKNOWN", "REQUEST_RECEIVED"} =>
          ~es[k].keyed /\ \A i \in 1..Len(tasks') : ~KeyedPacket(i, k)'
    BY <1>6, <2>1, Zenon DEF InboundOK
  <2> QED  BY <1>1, <1>2, <1>3, <2>1, <2>2, <2>3 DEF InboundOK, Queued, Change, EsTask
<1>9. es[k].dir = "OUTBOUND" => OutboundOK(k)'
  BY <1>1, <1>2, <1>3 DEF ObjectOK, OutboundOK, Queued, Change, EsTask
<1> QED  BY <1>8, <1>9 DEF ObjectOK

\* A step that changes object k alone, and runs and posts no other's stateChanged.
LEMMA OneObject ==
  ASSUME QueueInv, NEW k \in EsId, NEW r \in EstablishmentState,
         es' = [es EXCEPT ![k] = r],
         NEW d, NEW n, NEW t, Moved(tasks, tasks', d, n, t),
         n = 1 => t.op # "packet" /\ (t.op = "stateChanged" => t.es = k),
         d = 1 /\ tasks[1].op = "stateChanged" => tasks[1].es = k,
         ObjectOK(k)'
  PROVE  \A j \in EsId : ObjectOK(j)'
<1> SUFFICES ASSUME NEW j \in EsId, j # k PROVE ObjectOK(j)'
  OBVIOUS
<1>1. es'[j] = es[j] /\ ObjectOK(j)
  BY DEF QueueInv, QueueOK, IInv, TypeOK
<1>2. Change(j).op = "stateChanged" /\ Change(j).es = j
  BY DEF Change, EsTask
<1> QED  BY <1>1, <1>2, SameObject

\* A step that changes no object and runs and posts no stateChanged; a packet
\* that is queued uses a secret its sender can know.
LEMMA NoObject ==
  ASSUME QueueInv, UNCHANGED es,
         NEW d, NEW n, NEW t, Moved(tasks, tasks', d, n, t),
         n = 1 => t.op # "stateChanged",
         d = 1 => tasks[1].op # "stateChanged",
         n = 1 /\ t.op = "packet" =>
           \A k \in EsId : t.pkt.key = k => es[k].keyed \/ es[k].dir = "OUTBOUND"
  PROVE  \A j \in EsId : ObjectOK(j)'
<1> SUFFICES ASSUME NEW j \in EsId PROVE ObjectOK(j)'
  OBVIOUS
<1>1. es'[j] = es[j] /\ ObjectOK(j)
  BY DEF QueueInv, QueueOK
<1>2. Change(j).op = "stateChanged"
  BY Zenon DEF Change, EsTask
<1> QED  BY <1>1, <1>2, SameObject

\* A completing object waits for its handler.
LEMMA CompletingQueued ==
  ASSUME NEW k, ObjectOK(k), es[k].dir \in {"INBOUND", "OUTBOUND"}, Completing(k)
  PROVE  Change(k) \in Handlers(tasks)
  BY DEF ObjectOK, InboundOK, OutboundOK, Completing, Queued

\* A step in which no object starts completing.  The list grows only by the peer
\* of an object that stops, and the table only by an object nobody has signed for.
LEMMA NoneCompletes ==
  ASSUME QueueInv, NEW d, NEW n, NEW t, Moved(tasks, tasks', d, n, t),
         \A j \in EsId : Completing(j)' =>
           /\ Completing(j) /\ es'[j].ep = es[j].ep
           /\ d = 1 => tasks[1] # Change(j),
         \A p \in peers' :
           \/ PeerExists(p.ep)
           \/ \E j \in EsId : Completing(j) /\ ~Completing(j)' /\ es[j].ep = p.ep,
         \A j \in EsId : stateTable'[es'[j].ep] = j =>
           \/ stateTable[es[j].ep] = j /\ es'[j].ep = es[j].ep
           \/ \A i \in 1..Len(tasks') : ~SignedPacket(i, j)'
  PROVE  CompletingAlone' /\ CompletingFirst'
<1>1. \A i \in 1..Len(tasks') :
        \/ i + d \in 1..Len(tasks) /\ tasks'[i] = tasks[i + d]
        \/ n = 1 /\ i = Len(tasks') /\ tasks'[i] = t
  BY MovedFrom
<1>2. d \in {0, 1} /\ Len(tasks) \in Nat /\ Len(tasks') \in Nat
  BY MovedFrom, Zenon DEF Moved
<1>3. \A j \in EsId : es[j].dir \in {"INBOUND", "OUTBOUND"} /\ ObjectOK(j)
  BY DEF QueueInv, QueueOK, IInv, TypeOK, EstablishmentState
<1>4. CompletingAlone'
  <2> SUFFICES ASSUME NEW k \in EsId, Completing(k)'
               PROVE  /\ \A p \in peers' : p.ep # es'[k].ep
                      /\ \A j \in EsId : Completing(j)' /\ es'[j].ep = es'[k].ep => j = k
    BY Zenon DEF CompletingAlone, PeerExists
  <2>1. /\ Completing(k) /\ es'[k].ep = es[k].ep /\ ~PeerExists(es[k].ep)
        /\ \A j \in EsId : Completing(j) /\ es[j].ep = es[k].ep => j = k
    BY DEF QueueInv, QueueOK, CompletingAlone
  <2>2. ASSUME NEW p \in peers', p.ep = es'[k].ep PROVE FALSE
    <3>1. PICK j \in EsId : Completing(j) /\ ~Completing(j)' /\ es[j].ep = p.ep
      BY <2>1, <2>2
    <3>2. j = k
      BY <2>1, <2>2, <3>1, Zenon
    <3> QED  BY <3>1, <3>2
  <2> QED  BY <2>1, <2>2
<1>5. CompletingFirst'
  <2> SUFFICES ASSUME NEW j \in EsId, NEW k \in EsId, Completing(j)', j # k,
                      es'[j].ep = es'[k].ep, stateTable'[es'[k].ep] = k,
                      NEW i \in 1..Len(tasks'), SignedPacket(i, k)'
               PROVE  \E l \in 1..Len(tasks') : l < i /\ tasks'[l] = Change(j)
    BY Zenon DEF CompletingFirst, Change, EsTask
  <2>1. /\ Completing(j) /\ es'[j].ep = es[j].ep /\ (d = 1 => tasks[1] # Change(j))
        /\ stateTable[es[k].ep] = k /\ es'[k].ep = es[k].ep
    BY Zenon
  <2>2. ASSUME NEW m \in 1..Len(tasks), tasks[m] = Change(j), m < i + d
        PROVE  \E l \in 1..Len(tasks') : l < i /\ tasks'[l] = Change(j)
    <3>1. m > d
      BY <1>2, <2>1, <2>2
    <3>2. m - d \in 1..Len(tasks') /\ tasks'[m - d] = Change(j)
      BY <2>2, <3>1, MovedFrom
    <3>3. m - d < i
      BY <1>2, <2>2
    <3> QED  BY <3>2, <3>3
  <2>3. CASE i + d \in 1..Len(tasks) /\ tasks'[i] = tasks[i + d]
    <3>1. SignedPacket(i + d, k)
      BY <2>3 DEF SignedPacket
    <3>2. PICK m \in 1..Len(tasks) : m < i + d /\ tasks[m] = Change(j)
      BY <2>1, <2>3, <3>1, ZenonT(40) DEF QueueInv, QueueOK, CompletingFirst
    <3> QED  BY <2>2, <3>2, Zenon
  <2>4. CASE n = 1 /\ i = Len(tasks')
    <3>0. Change(j) \in Handlers(tasks)
      BY <1>3, <2>1, CompletingQueued, Zenon
    <3>1. PICK m \in 1..Len(tasks) : tasks[m] = Change(j)
      BY <3>0, Zenon DEF Handlers
    <3>2. Len(tasks') + d = Len(tasks) + 1
      BY <2>4 DEF Moved
    <3>3. m < i + d
      BY <1>2, <2>4, <3>2
    <3> QED  BY <2>2, <3>1, <3>3, Zenon
  <2> QED  BY <1>1, <2>3, <2>4, Zenon
<1> QED  BY <1>4, <1>5

\* A packet at the head of the queue completes the object k of the table: no peer
\* is listed there and every other object that completes would be ahead of it.
LEMMA OneCompletes ==
  ASSUME QueueInv, NEW k \in EsId, NEW r \in EstablishmentState,
         es' = [es EXCEPT ![k] = r], r.ep = es[k].ep,
         NEW n, NEW t, Moved(tasks, tasks', 1, n, t),
         stateTable[es[k].ep] = k, ~PeerExists(es[k].ep), SignedPacket(1, k),
         UNCHANGED <<stateTable, peers>>, n = 1 => t.op # "packet"
  PROVE  CompletingAlone' /\ CompletingFirst'
<1>1. 1 \in 1..Len(tasks)
  BY DEF Moved
<1>2. es'[k] = r /\ \A j \in EsId : j # k => es'[j] = es[j]
  BY DEF QueueInv, QueueOK, IInv, TypeOK
<1>3. \A j \in EsId : j # k => (Completing(j)' <=> Completing(j))
  BY <1>2 DEF Completing
<1>4. \A j \in EsId : Completing(j) /\ es[j].ep = es[k].ep => j = k
  <2> SUFFICES ASSUME NEW j \in EsId, Completing(j), es[j].ep = es[k].ep, j # k PROVE FALSE
    BY Zenon
  <2>1. PICK l \in 1..Len(tasks) : l < 1
    BY <1>1, Zenon DEF QueueInv, QueueOK, CompletingFirst
  <2> QED  BY <2>1
<1>5. CompletingAlone'
  <2> SUFFICES ASSUME NEW i \in EsId, Completing(i)'
               PROVE  /\ \A p \in peers : p.ep # es'[i].ep
                      /\ \A j \in EsId : Completing(j)' /\ es'[j].ep = es'[i].ep => j = i
    BY DEF CompletingAlone, PeerExists
  <2>1. CASE i = k
    BY <1>2, <1>3, <1>4, <2>1, Zenon DEF PeerExists
  <2>2. CASE i # k
    <3>1. Completing(i) /\ es'[i] = es[i] /\ es[i].ep # es[k].ep
      BY <1>2, <1>3, <1>4, <2>2, Zenon
    <3>2. /\ \A p \in peers : p.ep # es[i].ep
          /\ \A j \in EsId : Completing(j) /\ es[j].ep = es[i].ep => j = i
      BY <3>1, Zenon DEF PeerExists, QueueInv, QueueOK, CompletingAlone
    <3>3. ASSUME NEW j \in EsId, Completing(j)', es'[j].ep = es'[i].ep PROVE j = i
      <4>1. j # k
        BY <1>2, <3>1, <3>3
      <4> QED  BY <1>2, <1>3, <3>1, <3>2, <3>3, <4>1, Zenon
    <3> QED  BY <3>1, <3>2, <3>3, Zenon
  <2> QED  BY <2>1, <2>2, Zenon
<1>6. CompletingFirst'
  <2> SUFFICES ASSUME NEW j \in EsId, NEW i \in EsId, Completing(j)', j # i,
                      es'[j].ep = es'[i].ep, stateTable[es'[i].ep] = i,
                      NEW m \in 1..Len(tasks'), SignedPacket(m, i)'
               PROVE  \E l \in 1..Len(tasks') : l < m /\ tasks'[l] = Change(j)
    BY DEF CompletingFirst, Change, EsTask
  <2>1. i # k
    <3>1. i = k => j # k /\ Completing(j) /\ es[j].ep = es[k].ep
      BY <1>2, <1>3, Zenon
    <3> QED  BY <1>4, <3>1, Zenon
  <2>1a. j # k
    <3>1. es'[i] = es[i]
      BY <1>2, <2>1, Zenon
    <3>2. j = k => es[i].ep = es[k].ep /\ stateTable[es[i].ep] = i
      BY <1>2, <3>1
    <3> QED  BY <2>1, <3>2, Zenon
  <2>2. m + 1 \in 1..Len(tasks) /\ tasks'[m] = tasks[m + 1]
    BY MovedFrom DEF SignedPacket
  <2>3. SignedPacket(m + 1, i)
    BY <2>2, Zenon DEF SignedPacket
  <2>4. PICK l \in 1..Len(tasks) : l < m + 1 /\ tasks[l] = Change(j)
    BY <1>2, <1>3, <2>1, <2>1a, <2>2, <2>3 DEF QueueInv, QueueOK, CompletingFirst
  <2>5. l # 1
    <3>1. tasks[1].op = "packet" /\ Change(j).op = "stateChanged"
      BY Zenon DEF SignedPacket, Change, EsTask
    <3> QED  BY <2>4, <3>1, Zenon
  <2>6. l > 1 /\ l - 1 < m
    <3>1. m \in Nat /\ l \in Nat /\ l >= 1
      OBVIOUS
    <3> QED  BY <2>4, <2>5, <3>1
  <2>7. l - 1 \in 1..Len(tasks') /\ tasks'[l - 1] = Change(j)
    BY <2>4, <2>6, MovedFrom
  <2> QED  BY <2>6, <2>7, Zenon
<1> QED  BY <1>5, <1>6

\* A posted stateChanged is the one of its object.
LEMMA PlainKept ==
  ASSUME ChangesPlain, NEW d, NEW n, NEW t, Moved(tasks, tasks', d, n, t),
         n = 1 /\ t.op = "stateChanged" => t = Change(t.es)
  PROVE  ChangesPlain'
<1> SUFFICES ASSUME NEW i \in 1..Len(tasks'), tasks'[i].op = "stateChanged"
             PROVE  tasks'[i] = Change(tasks'[i].es)
  BY DEF ChangesPlain, Change, EsTask
<1>1. \/ i + d \in 1..Len(tasks) /\ tasks'[i] = tasks[i + d]
      \/ n = 1 /\ tasks'[i] = t
  BY MovedFrom
<1> QED  BY <1>1 DEF ChangesPlain

-----------------------------------------------------------------------------
\* The peer added has the endpoint of its establishment.
LEMMA AddedPeer ==
  ASSUME NEW k, NEW p \in AddPeer(k)
  PROVE  p \in peers \/ p.ep = es[k].ep
  BY DEF AddPeer

\* No object is the absent one.
LEMMA EsIsSome ==
  ASSUME NEW k \in EsId
  PROVE  k # NoEs
  BY DEF EsId, NoEs

\* What the fields of an object are.
LEMMA EsFields ==
  ASSUME NEW r \in EstablishmentState
  PROVE  r.dir \in {"INBOUND", "OUTBOUND"} /\ r.ep \in Endpoint
  BY DEF EstablishmentState

\* One handler changes object k: it keeps its endpoint and its direction, the
\* table loses entries at most, and the list may gain the peer of k when k
\* stops completing.
LEMMA HandlerStep ==
  ASSUME QueueInv, NEW k \in EsId, NEW r \in EstablishmentState,
         es' = [es EXCEPT ![k] = r], r.ep = es[k].ep, r.dir = es[k].dir,
         NEW n, NEW t, Moved(tasks, tasks', 1, n, t),
         n = 1 => t.op # "packet" /\ (t.op = "stateChanged" => t = Change(k)),
         tasks[1].op = "stateChanged" => tasks[1].es = k,
         ObjectOK(k)', connecting' = connecting,
         \A ep \in Endpoint : stateTable'[ep] \in {stateTable[ep], NoEs},
         Completing(k)' => Completing(k) /\ tasks[1].op # "stateChanged",
         peers' = peers \/ (peers' = AddPeer(k) /\ Completing(k) /\ ~Completing(k)')
  PROVE  QueueOK'
<1>1. /\ es \in [EsId -> EstablishmentState] /\ connecting \in EsId \cup {NoEs}
      /\ \A j \in EsId : es[j].ep \in Endpoint
  BY Zenon DEF QueueInv, IInv, TypeOK, EstablishmentState
<1>2. es'[k] = r /\ \A j \in EsId : j # k => es'[j] = es[j]
  BY <1>1
<1>3. (\A j \in EsId : ObjectOK(j)') /\ ChangesPlain'
  <2>1. Change(k).es = k
    BY Zenon DEF Change, EsTask
  <2> QED  BY <2>1, OneObject, PlainKept, Zenon DEF QueueInv, QueueOK
<1>4. connecting' # NoEs => es'[connecting'].dir = "OUTBOUND"
  BY <1>1, <1>2, Zenon DEF QueueInv, QueueOK
<1>5. ASSUME NEW j \in EsId, Completing(j)'
      PROVE  Completing(j) /\ es'[j].ep = es[j].ep /\ tasks[1] # Change(j)
  <2>1. Change(j).op = "stateChanged" /\ Change(j).es = j
    BY Zenon DEF Change, EsTask
  <2>2. CASE j = k
    BY <1>2, <1>5, <2>1, <2>2, Zenon
  <2>3. CASE j # k
    BY <1>2, <1>5, <2>1, <2>3, Zenon DEF Completing
  <2> QED  BY <2>2, <2>3, Zenon
<1>6. ASSUME NEW p \in peers'
      PROVE  \/ PeerExists(p.ep)
             \/ \E j \in EsId : Completing(j) /\ ~Completing(j)' /\ es[j].ep = p.ep
  BY <1>6, AddedPeer, Zenon DEF PeerExists
<1>7. \A j \in EsId : stateTable'[es'[j].ep] = j =>
        stateTable[es[j].ep] = j /\ es'[j].ep = es[j].ep
  <2> SUFFICES ASSUME NEW j \in EsId, stateTable'[es'[j].ep] = j
               PROVE  stateTable[es[j].ep] = j /\ es'[j].ep = es[j].ep
    BY Zenon
  <2>1. es'[j].ep = es[j].ep /\ es[j].ep \in Endpoint
    BY <1>1, <1>2, Zenon
  <2>2. stateTable'[es[j].ep] = j /\ j # NoEs
    BY <2>1, EsIsSome, Zenon
  <2>3. stateTable'[es[j].ep] \in {stateTable[es[j].ep], NoEs}
    BY <2>1, Zenon
  <2> QED  BY <2>1, <2>2, <2>3, Zenon
<1>8. CompletingAlone' /\ CompletingFirst'
  BY <1>5, <1>6, <1>7, NoneCompletes, Zenon
<1> QED  BY <1>3, <1>4, <1>8, Zenon DEF QueueOK

\* The failure of an object asks nothing of the queue.
LEMMA FailedOK ==
  ASSUME NEW k, es'[k].state = "FAILURE"
  PROVE  ObjectOK(k)' /\ ~Completing(k)'
  BY Zenon DEF ObjectOK, InboundOK, OutboundOK, Completed, Completing

\* What the handlers leave of an object: setState, ...
LEMMA StateLeaves ==
  ASSUME NEW r \in EstablishmentState, NEW v \in State
  PROVE  LET u == [r EXCEPT !.state = v] IN
         /\ u \in EstablishmentState /\ u.state = v
         /\ u.ep = r.ep /\ u.dir = r.dir /\ u.established = r.established
  BY DEF EstablishmentState

\* ... the session key, ...
LEMMA KeyLeaves ==
  ASSUME NEW r \in EstablishmentState, NEW v \in State
  PROVE  LET u == [r EXCEPT !.keyed = TRUE, !.state = v] IN
         /\ u \in EstablishmentState /\ u.state = v
         /\ u.ep = r.ep /\ u.dir = r.dir /\ u.established = r.established
  BY Zenon DEF EstablishmentState

\* ... and the two signals.
LEMMA SignalLeaves ==
  ASSUME NEW r \in EstablishmentState
  PROVE  /\ LET u == [r EXCEPT !.established = @ + 1] IN
            /\ u \in EstablishmentState /\ u.state = r.state
            /\ u.ep = r.ep /\ u.dir = r.dir /\ u.established = r.established + 1
         /\ LET u == [r EXCEPT !.failed = @ + 1] IN
            /\ u \in EstablishmentState /\ u.state = r.state /\ u.keyed = r.keyed
            /\ u.ep = r.ep /\ u.dir = r.dir /\ u.established = r.established
  BY DEF EstablishmentState

\* timeoutCallback.
LEMMA TimeoutQueue ==
  ASSUME ConstantsAssumption, QueueInv, TimeoutCallback
  PROVE  QueueOK'
<1>1. tasks # <<>> /\ Head(tasks).op = "timeout" /\ tasks \in Seq(Task)
  BY DEF TimeoutCallback, Running, QueueInv, IInv, TypeOK
<1>2. PICK k \in EsId : Head(tasks).es = k /\ es[k] \in EstablishmentState
  BY <1>1, RunningEs DEF QueueInv
<1>3. PICK r : r = [es[k] EXCEPT !.state = "FAILURE"]
  BY Zenon
<1>4. r \in EstablishmentState /\ r.state = "FAILURE" /\ r.ep = es[k].ep /\ r.dir = es[k].dir
  BY <1>2, <1>3, StateLeaves, Zenon DEF State
<1>5. es' = [es EXCEPT ![k] = r] /\ tasks' = Tail(tasks) \o <<Change(k)>>
      /\ UNCHANGED <<stateTable, peers, connecting>>
  BY <1>2, <1>3, Zenon DEF TimeoutCallback, Finish, Change
<1>6. Change(k) \in Task /\ Change(k).op = "stateChanged" /\ Change(k).es = k
  BY TaskTypes, Zenon DEF TaskOK, Change, EsTask
<1>7. Moved(tasks, tasks', 1, 1, Change(k)) /\ tasks[1] = Head(tasks)
  BY <1>1, <1>5, <1>6, QueueMoved
<1>8. es'[k] = r
  BY <1>5 DEF QueueInv, IInv, TypeOK
<1>9. ObjectOK(k)' /\ ~Completing(k)'
  BY <1>4, <1>8, FailedOK, Zenon
<1> QED  BY <1>1, <1>4, <1>5, <1>6, <1>7, <1>9, HandlerStep, Zenon

\* Each case of the switch in stateChanged.
LEMMA StateChangedQueue ==
  ASSUME ConstantsAssumption, QueueInv, StateChanged
  PROVE  QueueOK'
<1>1. /\ tasks # <<>> /\ Head(tasks).op = "stateChanged" /\ tasks \in Seq(Task)
      /\ connecting' = connecting /\ es \in [EsId -> EstablishmentState]
      /\ stateTable \in [Endpoint -> EsId \cup {NoEs}]
  BY DEF StateChanged, Running, QueueInv, IInv, TypeOK
<1>2. PICK k \in EsId : Head(tasks).es = k /\ es[k] \in EstablishmentState
  BY <1>1, RunningEs DEF QueueInv
<1>3. /\ Change(k) \in Task /\ Change(k).op = "stateChanged" /\ Change(k).es = k
      /\ es[k].dir \in {"INBOUND", "OUTBOUND"} /\ es[k].established \in Nat
      /\ es[k].rh \in Router \cup {NoRouter} /\ es[k].ep \in Endpoint
  BY <1>2, TaskTypes, Zenon DEF TaskOK, Change, EsTask, EstablishmentState
<1>4. tasks[1] = Head(tasks) /\ tasks[1] = Change(k) /\ Len(tasks) \in Nat
  <2>1. tasks[1] = Head(tasks) /\ Len(tasks) \in Nat /\ 1 \in 1..Len(tasks)
    BY <1>1
  <2> QED  BY <1>1, <1>2, <2>1 DEF QueueInv, QueueOK, ChangesPlain
<1>5. ObjectOK(k)
  BY DEF QueueInv, QueueOK
<1>6. ASSUME NEW o \in {"established", "failure"}
      PROVE  /\ RouterTask(o, es[k].rh) \in Task
             /\ RouterTask(o, es[k].rh).op \notin {"stateChanged", "packet"}
  BY <1>3, TaskTypes, Zenon DEF TaskOK, RouterTask
<1>7. \A ep \in Endpoint : DelState(es[k].ep) \/ UNCHANGED stateTable =>
        stateTable'[ep] \in {stateTable[ep], NoEs}
  BY <1>1 DEF DelState
<1>8. Moved(tasks, Tail(tasks) \o <<>>, 1, 0, Change(k))
      /\ \A t \in Task : Moved(tasks, Tail(tasks) \o <<t>>, 1, 1, t)
  BY <1>1, <1>3, QueueMoved, Zenon
\* The object keeps its state: the handler only logs, or clears the table.
<1>9. ASSUME NEW r \in EstablishmentState, es' = [es EXCEPT ![k] = r],
             r.state = es[k].state, r.ep = es[k].ep, r.dir = es[k].dir,
             r.keyed = es[k].keyed, r.established = es[k].established,
             es[k].state \notin {"CREATED_RECEIVED", "CONFIRMED_RECEIVED"},
             peers' = peers, DelState(es[k].ep) \/ UNCHANGED stateTable,
             \/ tasks' = Tail(tasks) \o <<>>
             \/ tasks' = Tail(tasks) \o <<RouterTask("failure", es[k].rh)>>
      PROVE  QueueOK'
  <2>1. es'[k] = r
    BY <1>1, <1>9
  <2>2. ~Completing(k)'
    BY <1>9, <2>1 DEF Completing
  <2>3. CASE tasks' = Tail(tasks) \o <<>>
    <3>1. Moved(tasks, tasks', 1, 0, Change(k))
      BY <1>8, <2>3, Zenon
    <3>2. ObjectOK(k)'
      BY <1>5, <1>9, <2>1, <3>1, SameObject
    <3> QED  BY <1>2, <1>4, <1>7, <1>1, <1>9, <2>2, <3>1, <3>2, HandlerStep, Zenon
  <2>4. CASE tasks' = Tail(tasks) \o <<RouterTask("failure", es[k].rh)>>
    <3>1. PICK t \in Task : /\ t = RouterTask("failure", es[k].rh)
                            /\ t.op \notin {"stateChanged", "packet"}
      BY <1>6
    <3>2. Moved(tasks, tasks', 1, 1, t)
      BY <1>8, <2>4, <3>1
    <3>3. ObjectOK(k)'
      BY <1>3, <1>5, <1>9, <2>1, <3>1, <3>2, SameObject, Zenon
    <3> QED  BY <1>2, <1>4, <1>7, <1>1, <1>9, <2>2, <3>1, <3>2, <3>3, HandlerStep, Zenon
  <2> QED  BY <1>9, <2>3, <2>4
\* The object moves on and its stateChanged is posted again.
<1>10. ASSUME NEW r \in EstablishmentState, es' = [es EXCEPT ![k] = r],
              r.ep = es[k].ep, r.dir = es[k].dir, ObjectOK(k)', ~Completing(k)',
              UNCHANGED stateTable,
              peers' = peers \/ (peers' = AddPeer(k) /\ Completing(k)),
              tasks' = Tail(tasks) \o <<Change(k)>>
      PROVE  QueueOK'
  <2>1. Moved(tasks, tasks', 1, 1, Change(k))
    BY <1>3, <1>8, <1>10, Zenon
  <2> QED  BY <1>1, <1>2, <1>3, <1>4, <1>7, <1>10, <2>1, HandlerStep, Zenon
\* The session is announced.
<1>11. ASSUME NEW r \in EstablishmentState, es' = [es EXCEPT ![k] = r],
              r.ep = es[k].ep, r.dir = es[k].dir, ~Completing(k)', DelState(es[k].ep),
              peers' = peers \/ (peers' = AddPeer(k) /\ Completing(k)),
              tasks' = Tail(tasks) \o <<RouterTask("established", es[k].rh)>>,
              r.established = es[k].established + 1, r.state = es[k].state,
              es[k].state \in {"CONFIRMED_SENT", "CONFIRMED_RECEIVED"}
      PROVE  QueueOK'
  <2>1. PICK t \in Task : /\ t = RouterTask("established", es[k].rh)
                          /\ t.op \notin {"stateChanged", "packet"}
    BY <1>6
  <2>2. Moved(tasks, tasks', 1, 1, t)
    BY <1>8, <1>11, <2>1, Zenon
  <2>3. /\ AtMostOne(Change(k), tasks) => Absent(Change(k), tasks')
        /\ AtMostTwo(Change(k), tasks) => AtMostOne(Change(k), tasks')
        /\ ~Absent(Change(k), tasks)
    <3>1. ~Absent(Change(k), tasks)
      BY <1>1, <1>4 DEF Absent
    <3> QED  BY <1>3, <1>4, <2>1, <2>2, <3>1, CountKept
  <2>4. es'[k] = r
    BY <1>1, <1>11, Zenon
  <2>5. ObjectOK(k)'
    <3>1. Absent(Change(k), tasks') => AtMostOne(Change(k), tasks')
      BY <2>2, MovedFrom, FewerStill
    <3>2. CASE es[k].dir = "INBOUND"
      <4>1. /\ es[k].state = "CONFIRMED_RECEIVED" /\ es[k].established = 0
            /\ AtMostOne(Change(k), tasks)
        BY <1>5, <1>11, <2>3, <3>2, Zenon DEF ObjectOK, InboundOK
      <4>2. /\ es'[k].state = "CONFIRMED_RECEIVED" /\ es'[k].established = 1
            /\ es'[k].dir = "INBOUND"
            /\ Absent(Change(k), tasks') /\ AtMostOne(Change(k), tasks')
        BY <1>11, <2>3, <2>4, <3>1, <3>2, <4>1
      <4> QED  BY <4>2, Zenon DEF ObjectOK, InboundOK, Completed, Change, EsTask
    <3>3. CASE es[k].dir = "OUTBOUND"
      <4>1. /\ es[k].state = "CONFIRMED_SENT"
            /\ \/ es[k].established = 0 /\ AtMostTwo(Change(k), tasks)
               \/ es[k].established = 1 /\ AtMostOne(Change(k), tasks)
        BY <1>5, <1>11, <2>3, <3>3 DEF ObjectOK, OutboundOK
      <4>2. /\ es'[k].state = "CONFIRMED_SENT" /\ es'[k].dir = "OUTBOUND"
            /\ \/ es'[k].established = 1 /\ AtMostOne(Change(k), tasks')
               \/ es'[k].established = 2 /\ Absent(Change(k), tasks')
        BY <1>11, <2>3, <2>4, <3>3, <4>1
      <4> QED  BY <4>2, Zenon DEF ObjectOK, OutboundOK, Completed, Change, EsTask
    <3> QED  BY <1>3, <3>2, <3>3, Zenon
  <2> QED  BY <1>1, <1>2, <1>3, <1>4, <1>7, <1>11, <2>1, <2>2, <2>5, HandlerStep, Zenon
<1>12. CASE LogState(k)
  <2>1. es' = [es EXCEPT ![k] = es[k]] /\ tasks' = Tail(tasks) \o <<>>
        /\ UNCHANGED <<stateTable, peers>>
        /\ es[k].state \in {"REQUEST_SENT", "CREATED_SENT"}
    BY <1>1, <1>12 DEF LogState, Finish
  <2>2. PICK r \in EstablishmentState : r = es[k]
    BY <1>2
  <2> QED  BY <1>9, <2>1, <2>2, Zenon
<1>13. CASE EstablishmentFailed(k)
  <2>1. PICK r \in {es[k], [es[k] EXCEPT !.failed = @ + 1]} :
          /\ es' = [es EXCEPT ![k] = r]
          /\ \/ tasks' = Tail(tasks) \o <<>>
             \/ tasks' = Tail(tasks) \o <<RouterTask("failure", es[k].rh)>>
    BY <1>1, <1>13 DEF EstablishmentFailed, Finish
  <2>2. /\ r \in EstablishmentState /\ r.state = es[k].state /\ r.ep = es[k].ep
        /\ r.dir = es[k].dir /\ r.keyed = es[k].keyed /\ r.established = es[k].established
    BY <1>2, <2>1, SignalLeaves, ZenonT(40)
  <2>3. DelState(es[k].ep) /\ peers' = peers /\ es[k].state \in {"UNKNOWN", "FAILURE"}
    BY <1>13 DEF EstablishmentFailed
  <2> QED  BY <1>9, <2>1, <2>2, <2>3, Zenon
<1>14. CASE ProcessRequest(k)
  <2>1. PICK r : r = [es[k] EXCEPT !.keyed = TRUE, !.state = "CREATED_SENT"]
    OBVIOUS
  <2>2. /\ es' = [es EXCEPT ![k] = r] /\ tasks' = Tail(tasks) \o <<Change(k)>>
        /\ UNCHANGED <<stateTable, peers>> /\ es[k].state = "REQUEST_RECEIVED"
    BY <1>14, <2>1, Zenon DEF ProcessRequest, Finish, Change
  <2>3. /\ r \in EstablishmentState /\ r.ep = es[k].ep /\ r.dir = es[k].dir
        /\ r.state = "CREATED_SENT" /\ r.established = es[k].established /\ es'[k] = r
    <3>1. "CREATED_SENT" \in State  BY Zenon DEF State
    <3> QED  BY <1>1, <1>2, <2>1, <2>2, <3>1, KeyLeaves, Zenon
  <2>4. /\ es[k].dir = "INBOUND" /\ AtMostOne(Change(k), tasks) /\ es[k].established = 0
        /\ \A i \in 1..Len(tasks) : ~KeyedPacket(i, k)
    BY <1>3, <1>5, <2>2, Zenon DEF ObjectOK, InboundOK, OutboundOK, Completed
  <2>5. Moved(tasks, tasks', 1, 1, Change(k))
    BY <1>3, <1>8, <2>2, Zenon
  <2>6. AtMostOne(Change(k), tasks')
    BY <1>4, <2>4, <2>5, CountPosted, Zenon
  <2>7. \A i \in 1..Len(tasks') : ~KeyedPacket(i, k)'
    BY <1>3, <2>4, <2>5, MovedFrom DEF KeyedPacket
  <2>8. ObjectOK(k)' /\ ~Completing(k)'
    BY <2>3, <2>4, <2>6, <2>7, Zenon DEF ObjectOK, InboundOK, Completing, Completed, Change, EsTask
  <2> QED  BY <1>10, <2>2, <2>3, <2>8, Zenon
<1>15. CASE es' = [es EXCEPT ![k].state = "FAILURE"] /\ UNCHANGED <<stateTable, peers>>
            /\ \/ tasks' = Tail(tasks) \o <<>>
               \/ tasks' = Tail(tasks) \o <<Change(k)>>
  <2>1. PICK r : r = [es[k] EXCEPT !.state = "FAILURE"]
    BY Zenon
  <2>2. /\ r \in EstablishmentState /\ r.ep = es[k].ep /\ r.dir = es[k].dir
        /\ es'[k].state = "FAILURE" /\ es' = [es EXCEPT ![k] = r]
    <3>1. "FAILURE" \in State  BY DEF State
    <3>2. es' = [es EXCEPT ![k] = r]
      BY <1>15, <2>1
    <3> QED  BY <1>1, <1>2, <2>1, <3>1, <3>2, StateLeaves
  <2>3. ObjectOK(k)' /\ ~Completing(k)'
    BY <2>2, FailedOK
  <2>4. CASE tasks' = Tail(tasks) \o <<Change(k)>>
    BY <1>10, <1>15, <2>2, <2>3, <2>4, Zenon
  <2>5. CASE tasks' = Tail(tasks) \o <<>>
    <3>1. Moved(tasks, tasks', 1, 0, Change(k))
      BY <1>8, <2>5
    <3> QED  BY <1>1, <1>2, <1>4, <1>7, <1>15, <2>2, <2>3, <3>1, HandlerStep, Zenon
  <2> QED  BY <1>15, <2>4, <2>5
<1>16. CASE ProcessCreated(k) /\ es[k].signed
  <2>1. PICK r : r = [es[k] EXCEPT !.keyed = TRUE, !.state = "CONFIRMED_SENT"]
    OBVIOUS
  <2>2. /\ es' = [es EXCEPT ![k] = r] /\ tasks' = Tail(tasks) \o <<Change(k)>>
        /\ UNCHANGED stateTable /\ peers' = AddPeer(k) /\ es[k].state = "CREATED_RECEIVED"
    BY <1>16, <2>1, Zenon DEF ProcessCreated, Finish, Change
  <2>3. /\ r \in EstablishmentState /\ r.ep = es[k].ep /\ r.dir = es[k].dir
        /\ r.state = "CONFIRMED_SENT" /\ r.established = es[k].established /\ es'[k] = r
    <3>1. "CONFIRMED_SENT" \in State  BY Zenon DEF State
    <3> QED  BY <1>1, <1>2, <2>1, <2>2, <3>1, KeyLeaves, Zenon
  <2>4. es[k].dir = "OUTBOUND" /\ AtMostTwo(Change(k), tasks) /\ es[k].established = 0
    BY <1>3, <1>5, <2>2, Zenon DEF ObjectOK, InboundOK, OutboundOK, Completed
  <2>5. Moved(tasks, tasks', 1, 1, Change(k))
    BY <1>3, <1>8, <2>2
  <2>6. AtMostTwo(Change(k), tasks')
    BY <1>4, <2>4, <2>5, CountPosted, Zenon
  <2>7. ObjectOK(k)' /\ ~Completing(k)'
    BY <2>3, <2>4, <2>6, Zenon DEF ObjectOK, OutboundOK, Completing, Completed, Change, EsTask
  <2>8. Completing(k)
    BY <1>16, <2>2 DEF Completing
  <2> QED  BY <1>10, <2>2, <2>3, <2>7, <2>8, Zenon
<1>17. CASE ConfirmedSent(k) \/ (ProcessConfirmed(k) /\ es[k].signed)
  <2>1. PICK r : r = [es[k] EXCEPT !.established = @ + 1]
    BY Zenon
  <2>2. /\ es' = [es EXCEPT ![k] = r] /\ DelState(es[k].ep)
        /\ tasks' = Tail(tasks) \o <<RouterTask("established", es[k].rh)>>
        /\ \/ es[k].state = "CONFIRMED_SENT" /\ peers' = peers
           \/ es[k].state = "CONFIRMED_RECEIVED" /\ peers' = AddPeer(k) /\ es[k].signed
    BY <1>17, <2>1 DEF ConfirmedSent, ProcessConfirmed, Finish
  <2>3. /\ r \in EstablishmentState /\ r.ep = es[k].ep /\ r.dir = es[k].dir
        /\ r.state = es[k].state /\ r.established = es[k].established + 1 /\ es'[k] = r
    BY <1>1, <1>2, <2>1, <2>2, SignalLeaves, Zenon
  <2>4. es[k].state = "CONFIRMED_RECEIVED" => es[k].established = 0
    <3> SUFFICES ASSUME es[k].state = "CONFIRMED_RECEIVED" PROVE es[k].established = 0
      BY Zenon
    <3>1. es[k].dir = "INBOUND"
      BY <1>3, <1>5, Zenon DEF ObjectOK, OutboundOK
    <3>2. es[k].established = 0 \/ Absent(Change(k), tasks)
      BY <1>5, <3>1, Zenon DEF ObjectOK, InboundOK
    <3>3. 1 \in 1..Len(tasks)
      BY <1>1
    <3> QED  BY <1>4, <3>2, <3>3, Zenon DEF Absent
  <2>5. ~Completing(k)' /\ (es[k].state = "CONFIRMED_RECEIVED" /\ es[k].signed => Completing(k))
    BY <1>3, <2>2, <2>3, <2>4 DEF Completing
  <2> QED  BY <1>11, <2>2, <2>3, <2>5, Zenon
<1>18. CASE (ProcessCreated(k) \/ ProcessConfirmed(k)) /\ ~es[k].signed
  BY <1>15, <1>18 DEF ProcessCreated, ProcessConfirmed, Finish, Change
<1> QED
  BY <1>2, <1>12, <1>13, <1>14, <1>16, <1>17, <1>18 DEF StateChanged

\* A step that leaves objects and table alone and runs and posts no stateChanged:
\* the peers at an endpoint only become fewer.
LEMMA QuietQueue ==
  ASSUME QueueInv, UNCHANGED <<es, stateTable, connecting>>,
         NEW d, NEW n, NEW t, Moved(tasks, tasks', d, n, t),
         n = 1 => t.op # "stateChanged",
         d = 1 => tasks[1].op # "stateChanged",
         n = 1 /\ t.op = "packet" =>
           \A k \in EsId : t.pkt.key = k => es[k].keyed \/ es[k].dir = "OUTBOUND",
         \A p \in peers' : PeerExists(p.ep)
  PROVE  QueueOK'
<1>1. (\A j \in EsId : ObjectOK(j)') /\ ChangesPlain'
  BY NoObject, PlainKept, Zenon DEF QueueInv, QueueOK
<1>2. \A j \in EsId : Completing(j)' =>
        Completing(j) /\ es'[j].ep = es[j].ep /\ (d = 1 => tasks[1] # Change(j))
  BY DEF Completing, Change, EsTask
<1>3. CompletingAlone' /\ CompletingFirst'
  BY <1>2, NoneCompletes
<1> QED  BY <1>1, <1>3, Zenon DEF QueueInv, QueueOK

\* A new object enters the table: nothing queued knows of it.
LEMMA BornQueue ==
  ASSUME QueueInv, NEW k \in EsId, Fresh(k), NEW ep \in Endpoint,
         NEW r \in EstablishmentState, es' = [es EXCEPT ![k] = r],
         stateTable' = [stateTable EXCEPT ![ep] = k], r.ep = ep,
         r.established = 0, ~r.keyed, ~r.signed, peers' = peers,
         NEW d, NEW n, Moved(tasks, tasks', d, n, Change(k)),
         d = 1 => tasks[1].op # "stateChanged",
         \/ r.dir = "OUTBOUND" /\ r.state = "UNKNOWN" /\ n = 0
         \/ r.dir = "INBOUND" /\ r.state = "UNKNOWN" /\ n = 0
         \/ r.dir = "INBOUND" /\ r.state = "REQUEST_RECEIVED",
         \/ connecting' = connecting
         \/ connecting' = k /\ r.dir = "OUTBOUND"
  PROVE  QueueOK'
<1>1. /\ es \in [EsId -> EstablishmentState] /\ connecting \in EsId \cup {NoEs}
      /\ stateTable \in [Endpoint -> EsId \cup {NoEs}]
      /\ \A j \in EsId : es[j].ep \in Endpoint
  BY Zenon DEF QueueInv, IInv, TypeOK, EstablishmentState
<1>2. es'[k] = r /\ \A j \in EsId : j # k => es'[j] = es[j]
  BY <1>1, Zenon
<1>3. /\ connecting # k
      /\ \A i \in 1..Len(tasks) :
           tasks[i].es # k /\ ~KeyedPacket(i, k) /\ ~SignedPacket(i, k)
  <2>1. ~Referenced(k)
    BY Zenon DEF Fresh, FreeEs
  <2> QED  BY <2>1 DEF Referenced, Handlers, KeyedPacket, SignedPacket
<1>4. Change(k).op = "stateChanged" /\ Change(k).es = k
  BY Zenon DEF Change, EsTask
<1>5. \A i \in 1..Len(tasks') : ~KeyedPacket(i, k)' /\ ~SignedPacket(i, k)'
  BY <1>3, <1>4, MovedFrom DEF KeyedPacket, SignedPacket
<1>6. /\ n = 0 => Absent(Change(k), tasks')
      /\ AtMostOne(Change(k), tasks')
  <2>1. Absent(Change(k), tasks)
    BY <1>3, <1>4 DEF Absent
  <2>2. n \in {0, 1}
    BY Zenon DEF Moved
  <2>3. CASE n = 0
    <3>1. Absent(Change(k), tasks')
      BY <2>1, <2>3, NonePosted, Zenon
    <3> QED  BY <3>1, MovedFrom, FewerStill, Zenon
  <2>4. CASE n = 1
    <3>1. Moved(tasks, tasks', d, 1, Change(k))
      BY <2>4, Zenon
    <3>2. AtMostOne(Change(k), tasks')
      BY <2>1, <3>1, FirstPosted, Zenon
    <3> QED  BY <2>4, <3>2
  <2> QED  BY <2>2, <2>3, <2>4, Zenon
<1>7. ObjectOK(k)'
  BY <1>2, <1>5, <1>6, Zenon DEF ObjectOK, InboundOK, OutboundOK, Change, EsTask
<1>8. (\A j \in EsId : ObjectOK(j)') /\ ChangesPlain'
  BY <1>4, <1>7, OneObject, PlainKept, Zenon DEF QueueInv, QueueOK
<1>9. connecting' # NoEs => es'[connecting'].dir = "OUTBOUND"
  BY <1>1, <1>2, <1>3, Zenon DEF QueueInv, QueueOK
<1>10. ASSUME NEW j \in EsId, Completing(j)'
       PROVE  Completing(j) /\ es'[j].ep = es[j].ep /\ (d = 1 => tasks[1] # Change(j))
  <2>1. j # k
    BY <1>2, <1>10, Zenon DEF Completing
  <2>2. Change(j).op = "stateChanged"
    BY Zenon DEF Change, EsTask
  <2> QED  BY <1>2, <1>10, <2>1, <2>2, Zenon DEF Completing
<1>11. ASSUME NEW j \in EsId, stateTable'[es'[j].ep] = j
       PROVE  \/ stateTable[es[j].ep] = j /\ es'[j].ep = es[j].ep
              \/ \A i \in 1..Len(tasks') : ~SignedPacket(i, j)'
  BY <1>1, <1>2, <1>5, <1>11, Zenon
<1>12. CompletingAlone' /\ CompletingFirst'
  BY <1>10, <1>11, NoneCompletes, Zenon DEF PeerExists
<1> QED  BY <1>8, <1>9, <1>12, Zenon DEF QueueOK

\* A packet for an establishment under way.
LEMMA EsPacketQueue ==
  ASSUME ConstantsAssumption, QueueInv, tasks # <<>>, Head(tasks).op = "packet",
         NEW p \in Packet, p = Head(tasks).pkt, NEW k \in EsId, k = stateTable[p.ep],
         HandleEsPacket(p, k), ~PeerExists(p.ep), connecting' = connecting
  PROVE  QueueOK'
<1>1. /\ tasks \in Seq(Task) /\ es \in [EsId -> EstablishmentState]
      /\ es[k] \in EstablishmentState /\ ObjectOK(k)
      /\ UNCHANGED <<stateTable, peers>> /\ stateTable \in [Endpoint -> EsId \cup {NoEs}]
  BY Zenon DEF QueueInv, QueueOK, IInv, TypeOK, HandleEsPacket
<1>2. /\ es[k].ep = p.ep /\ p.ep \in Endpoint /\ p.rh \in Router
      /\ es[k].dir \in {"INBOUND", "OUTBOUND"}
  <2>1. p.ep \in Endpoint /\ p.rh \in Router
    BY DEF Packet
  <2>2. k # NoEs
    BY EsIsSome, Zenon
  <2>3. es[k].ep = p.ep
    BY <2>1, <2>2, Zenon DEF QueueInv, IInv, TableConsistent
  <2>4. es[k].dir \in {"INBOUND", "OUTBOUND"}
    BY <1>1, EsFields, Zenon
  <2> QED  BY <2>1, <2>3, <2>4, Zenon
<1>3. tasks[1] = Head(tasks) /\ 1 \in 1..Len(tasks)
  BY <1>1
<1>4. Change(k) \in Task /\ Change(k).op = "stateChanged" /\ Change(k).es = k
  BY TaskTypes, Zenon DEF TaskOK, Change, EsTask
<1>5. ASSUME NEW r \in EstablishmentState, es' = [es EXCEPT ![k] = r],
             r.ep = es[k].ep, r.dir = es[k].dir, ObjectOK(k)',
             r.signed /\ r.state # "FAILURE" => p.signed = k,
             tasks' = Tail(tasks) \o <<Change(k)>>
      PROVE  QueueOK'
  <2>1. Moved(tasks, tasks', 1, 1, Change(k))
    BY <1>1, <1>4, <1>5, QueueMoved, Zenon
  <2>2. CASE Completing(k)'
    <3>1. es'[k] = r
      BY <1>1, <1>5, Zenon
    <3>2. SignedPacket(1, k)
      BY <1>3, <1>5, <2>2, <3>1, Zenon DEF SignedPacket, Completing
    <3>3. CompletingAlone' /\ CompletingFirst'
      BY <1>1, <1>2, <1>4, <1>5, <2>1, <3>2, OneCompletes, Zenon
    <3>4. (\A j \in EsId : ObjectOK(j)') /\ ChangesPlain'
      BY <1>3, <1>4, <1>5, <2>1, OneObject, PlainKept, Zenon DEF QueueInv, QueueOK
    <3>5. connecting' # NoEs => es'[connecting'].dir = "OUTBOUND"
      <4>1. connecting \in EsId \cup {NoEs} /\ \A j \in EsId : j # k => es'[j] = es[j]
        BY <1>1, <1>5, Zenon DEF QueueInv, IInv, TypeOK
      <4> QED  BY <1>5, <3>1, <4>1, Zenon DEF QueueInv, QueueOK
    <3> QED  BY <3>3, <3>4, <3>5 DEF QueueOK
  <2>3. CASE ~Completing(k)'
    BY <1>1, <1>3, <1>4, <1>5, <2>1, <2>3, HandlerStep, Zenon
  <2> QED  BY <2>2, <2>3
<1>6. CASE HandleSessionCreated(p, k)
  <2>1. PICK r : r = [es[k] EXCEPT !.signed = (p.signed = k), !.state = "CREATED_RECEIVED"]
    OBVIOUS
  <2>2. /\ es' = [es EXCEPT ![k] = r] /\ es[k].state = "REQUEST_SENT"
        /\ tasks' = Tail(tasks) \o <<Change(k)>>
    BY <1>6, <2>1, Zenon DEF HandleSessionCreated, VerifySignature, Finish, Change
  <2>3. /\ r \in EstablishmentState /\ r.ep = es[k].ep /\ r.dir = es[k].dir
        /\ r.state = "CREATED_RECEIVED" /\ r.established = es[k].established
    BY <1>1, <2>1, Zenon DEF EstablishmentState, State
  <2>4. r.signed = (p.signed = k)
    BY <1>1, <2>1, Zenon DEF EstablishmentState
  <2>5. es[k].dir = "OUTBOUND" /\ AtMostOne(Change(k), tasks) /\ es[k].established = 0
    BY <1>1, <1>2, <2>2, Zenon DEF ObjectOK, InboundOK, OutboundOK, Completed
  <2>6. Moved(tasks, tasks', 1, 1, Change(k)) /\ es'[k] = r
    BY <1>1, <1>4, <2>2, QueueMoved, Zenon
  <2>7. AtMostTwo(Change(k), tasks') /\ Change(k) \in Handlers(tasks')
    BY <2>5, <2>6, CountPosted, MovedQueued, Zenon
  <2>8. ObjectOK(k)'
    BY <2>3, <2>5, <2>6, <2>7, Zenon DEF ObjectOK, OutboundOK, Queued, Change, EsTask, Completed
  <2> QED  BY <1>5, <2>2, <2>3, <2>4, <2>8, Zenon
<1>7. CASE HandleSessionConfirmed(p, k) /\ Verify(p, MacKey(k))
  <2>1. PICK r : r = [es[k] EXCEPT !.rh = p.rh, !.signed = (p.signed = k),
                                   !.state = "CONFIRMED_RECEIVED"]
    OBVIOUS
  <2>2. /\ es' = [es EXCEPT ![k] = r] /\ es[k].state = "CREATED_SENT"
        /\ tasks' = Tail(tasks) \o <<Change(k)>>
    BY <1>7, <2>1, Zenon DEF HandleSessionConfirmed, VerifySignature, Finish, Change
  <2>3. /\ r \in EstablishmentState /\ r.ep = es[k].ep /\ r.dir = es[k].dir
        /\ r.state = "CONFIRMED_RECEIVED" /\ r.established = es[k].established
    BY <1>1, <1>2, <2>1, Zenon DEF EstablishmentState, State
  <2>4. r.signed = (p.signed = k)
    BY <1>1, <2>1, Zenon DEF EstablishmentState
  <2>5. /\ es[k].dir = "INBOUND" /\ es[k].established = 0
        /\ \A i, j \in 1..Len(tasks) : tasks[i] = Change(k) /\ KeyedPacket(j, k) => i < j
    BY <1>1, <1>2, <2>2, Zenon DEF ObjectOK, InboundOK, OutboundOK, Completed
  <2>6. KeyedPacket(1, k)
    <3>1. es[k].keyed
      BY <2>2, Zenon DEF QueueInv, IInv, KeyedWhenCreated
    <3> QED  BY <1>3, <1>7, <3>1, Zenon DEF KeyedPacket, Verify, MacKey
  <2>7. Absent(Change(k), tasks)
    BY <1>1, <1>3, <2>5, <2>6 DEF Absent
  <2>8. Moved(tasks, tasks', 1, 1, Change(k)) /\ es'[k] = r
    BY <1>1, <1>4, <2>2, QueueMoved, Zenon
  <2>9. AtMostOne(Change(k), tasks') /\ Change(k) \in Handlers(tasks')
    BY <2>7, <2>8, CountPosted, MovedQueued, Zenon
  <2>10. ObjectOK(k)'
    BY <2>3, <2>5, <2>8, <2>9, Zenon DEF ObjectOK, InboundOK, Queued, Change, EsTask, Completed
  <2> QED  BY <1>5, <2>2, <2>3, <2>4, <2>10, Zenon
<1>8. CASE HandleSessionDestroyed(p, k)
  <2>1. PICK r : r = [es[k] EXCEPT !.state = "FAILURE"]
    BY Zenon
  <2>2. es' = [es EXCEPT ![k] = r] /\ tasks' = Tail(tasks) \o <<Change(k)>>
    BY <1>8, <2>1, Zenon DEF HandleSessionDestroyed, Finish, Change
  <2>3. /\ r \in EstablishmentState /\ r.ep = es[k].ep /\ r.dir = es[k].dir
        /\ r.state = "FAILURE"
    BY <1>1, <2>1, StateLeaves, Zenon DEF State
  <2>4. ObjectOK(k)'
    BY <1>1, <2>2, <2>3, FailedOK, Zenon
  <2> QED  BY <1>5, <2>2, <2>3, <2>4, Zenon
<1>9. CASE tasks' = Tail(tasks) \o <<>> /\ UNCHANGED es
  <2>1. Moved(tasks, tasks', 1, 0, Change(k))
    BY <1>1, <1>4, <1>9, QueueMoved, Zenon
  <2> QED  BY <1>1, <1>3, <1>9, <2>1, QuietQueue DEF PeerExists
<1> QED  BY <1>6, <1>7, <1>8, <1>9, Zenon DEF HandleEsPacket, Finish

\* A new object, as it is made ...
LEMMA Newborn ==
  ASSUME NEW ep \in Endpoint, NEW dir \in {"INBOUND", "OUTBOUND"},
         NEW rh \in Router \cup {NoRouter}, NEW r, r = New(ep, dir, rh)
  PROVE  /\ r \in EstablishmentState /\ r.ep = ep /\ r.dir = dir
         /\ r.state = "UNKNOWN" /\ r.established = 0 /\ ~r.keyed /\ ~r.signed
<1>1. /\ r \in EstablishmentState /\ r.ep = ep /\ r.dir = dir
      /\ r.state = "UNKNOWN" /\ r.established = 0
  BY DEF New, EstablishmentState, State
<1>2. ~r.keyed /\ ~r.signed
  BY Zenon DEF New
<1> QED  BY <1>1, <1>2

\* ... and after a good request.
LEMMA NewbornRequested ==
  ASSUME NEW ep \in Endpoint,
         NEW r, r = [New(ep, "INBOUND", NoRouter) EXCEPT !.state = "REQUEST_RECEIVED"]
  PROVE  /\ r \in EstablishmentState /\ r.ep = ep /\ r.dir = "INBOUND"
         /\ r.state = "REQUEST_RECEIVED" /\ r.established = 0 /\ ~r.keyed /\ ~r.signed
<1>1. /\ r \in EstablishmentState /\ r.ep = ep /\ r.dir = "INBOUND"
      /\ r.state = "REQUEST_RECEIVED" /\ r.established = 0
  BY Zenon DEF New, EstablishmentState, State
<1>2. ~r.keyed /\ ~r.signed
  BY Zenon DEF New
<1> QED  BY <1>1, <1>2

\* packetReceived.
LEMMA PacketQueue ==
  ASSUME ConstantsAssumption, QueueInv, PacketReceived
  PROVE  QueueOK'
<1>1. /\ tasks # <<>> /\ Head(tasks).op = "packet" /\ tasks \in Seq(Task)
      /\ connecting' = connecting /\ peers \subseteq PeerState
  BY DEF PacketReceived, Running, QueueInv, IInv, TypeOK
<1>2. tasks[1] = Head(tasks) /\ Head(tasks) \in Handlers(tasks) /\ Head(tasks) \in Task
  BY <1>1 DEF Handlers
<1>3. PICK p \in Packet : p = Head(tasks).pkt
  BY <1>1, <1>2, Zenon DEF QueueInv, IInv, TasksConsistent, TaskOK
<1>4. ASSUME UNCHANGED <<es, stateTable>>, \A o \in peers' : PeerExists(o.ep),
             NEW t \in Task, t.op \notin {"stateChanged", "packet"},
             tasks' = Tail(tasks) \o <<>> \/ tasks' = Tail(tasks) \o <<t>>
      PROVE  QueueOK'
  <2>1. Moved(tasks, tasks', 1, 0, t) \/ Moved(tasks, tasks', 1, 1, t)
    BY <1>1, <1>4, QueueMoved, Zenon
  <2> QED  BY <1>1, <1>2, <1>4, <2>1, QuietQueue
<1>5. ASSUME NEW rh \in Router \cup {NoRouter}
      PROVE  /\ RouterTask("disconnected", rh) \in Task
             /\ RouterTask("disconnected", rh).op \notin {"stateChanged", "packet"}
  BY TaskTypes, Zenon DEF TaskOK, RouterTask
<1>6. ASSUME UNCHANGED <<es, stateTable, peers>>, tasks' = Tail(tasks) \o <<>>
      PROVE  QueueOK'
  BY <1>4, <1>5, <1>6 DEF PeerExists
<1>7. ASSUME NEW ps \in peers, HandlePeerPacket(p, ps) PROVE QueueOK'
  <2>1. PICK u : u = [ps EXCEPT !.armed = TRUE]
    BY Zenon
  <2>2. ps.rh \in Router \cup {NoRouter} /\ u.ep = ps.ep
    BY <1>1, <2>1 DEF PeerState
  <2>3. peers' \subseteq peers \cup {u} /\ UNCHANGED <<es, stateTable>>
    BY <1>7, <2>1 DEF HandlePeerPacket
  <2>4. \A o \in peers' : PeerExists(o.ep)
    BY <2>2, <2>3 DEF PeerExists
  <2>5. \/ tasks' = Tail(tasks) \o <<>>
        \/ tasks' = Tail(tasks) \o <<RouterTask("disconnected", ps.rh)>>
    BY <1>7, Zenon DEF HandlePeerPacket, Finish
  <2> QED  BY <1>4, <1>5, <2>2, <2>3, <2>4, <2>5
<1>8. CASE /\ StateExists(p.ep) /\ HandleEsPacket(p, stateTable[p.ep])
           /\ ~PeerExists(p.ep)
  <2>1. PICK k \in EsId : k = stateTable[p.ep]
    BY <1>8 DEF StateExists, Packet, QueueInv, IInv, TypeOK
  <2> QED  BY <1>1, <1>3, <1>8, <2>1, EsPacketQueue
<1>9. CASE HandleNewPacket(p)
  <2>1. CASE UNCHANGED <<es, stateTable>> /\ tasks' = Tail(tasks) \o <<>>
    BY <1>6, <1>9, <2>1 DEF HandleNewPacket
  <2>2. CASE Verify(p, Own) /\ p.type = "SESSION_REQUEST"
    <3>1. PICK k \in EsId :
            /\ Fresh(k) /\ stateTable' = [stateTable EXCEPT ![p.ep] = k]
            /\ \/ /\ es' = [es EXCEPT ![k] = New(p.ep, "INBOUND", NoRouter)]
                  /\ tasks' = Tail(tasks) \o <<>>
               \/ /\ es' = [es EXCEPT ![k] = [New(p.ep, "INBOUND", NoRouter)
                                             EXCEPT !.state = "REQUEST_RECEIVED"]]
                  /\ tasks' = Tail(tasks) \o <<Change(k)>>
      BY <1>9, <2>2, Zenon DEF HandleNewPacket, Finish, Change
    <3>2. ASSUME NEW r \in EstablishmentState, es' = [es EXCEPT ![k] = r], r.ep = p.ep,
                 r.dir = "INBOUND", r.established = 0, ~r.keyed, ~r.signed,
                 \/ r.state = "UNKNOWN" /\ tasks' = Tail(tasks) \o <<>>
                 \/ r.state = "REQUEST_RECEIVED" /\ tasks' = Tail(tasks) \o <<Change(k)>>
          PROVE  QueueOK'
      <4>1. Change(k) \in Task /\ p.ep \in Endpoint
        BY TaskTypes, Zenon DEF TaskOK, Change, Packet
      <4>2. /\ Moved(tasks, Tail(tasks) \o <<>>, 1, 0, Change(k))
            /\ Moved(tasks, Tail(tasks) \o <<Change(k)>>, 1, 1, Change(k))
        BY <1>1, <4>1, QueueMoved
      <4>3. peers' = peers
        BY <1>9 DEF HandleNewPacket
      <4>4. CASE tasks' = Tail(tasks) \o <<>> /\ r.state = "UNKNOWN"
        BY <1>1, <1>2, <3>1, <3>2, <4>1, <4>2, <4>3, <4>4, BornQueue, Zenon
      <4>5. CASE tasks' = Tail(tasks) \o <<Change(k)>> /\ r.state = "REQUEST_RECEIVED"
        BY <1>1, <1>2, <3>1, <3>2, <4>1, <4>2, <4>3, <4>5, BornQueue, Zenon
      <4> QED  BY <3>2, <4>4, <4>5
    <3>3. p.ep \in Endpoint
      BY DEF Packet
    <3>4. CASE /\ es' = [es EXCEPT ![k] = New(p.ep, "INBOUND", NoRouter)]
               /\ tasks' = Tail(tasks) \o <<>>
      <4>1. PICK r : r = New(p.ep, "INBOUND", NoRouter)
        BY Zenon
      <4>2. /\ r \in EstablishmentState /\ r.ep = p.ep /\ r.dir = "INBOUND"
            /\ r.state = "UNKNOWN" /\ r.established = 0 /\ ~r.keyed /\ ~r.signed
        BY <3>3, <4>1, Newborn
      <4> QED  BY <3>2, <3>4, <4>1, <4>2, Zenon
    <3>5. CASE /\ es' = [es EXCEPT ![k] = [New(p.ep, "INBOUND", NoRouter)
                                          EXCEPT !.state = "REQUEST_RECEIVED"]]
               /\ tasks' = Tail(tasks) \o <<Change(k)>>
      <4>1. PICK r : r = [New(p.ep, "INBOUND", NoRouter) EXCEPT !.state = "REQUEST_RECEIVED"]
        BY Zenon
      <4>2. /\ r \in EstablishmentState /\ r.ep = p.ep /\ r.dir = "INBOUND"
            /\ r.state = "REQUEST_RECEIVED" /\ r.established = 0 /\ ~r.keyed /\ ~r.signed
        BY <3>3, <4>1, NewbornRequested, Zenon
      <4> QED  BY <3>2, <3>5, <4>1, <4>2, Zenon
    <3> QED  BY <3>1, <3>4, <3>5
  <2> QED  BY <1>9, <2>1, <2>2 DEF HandleNewPacket, Finish
<1>10. CASE DropPacket
  BY <1>6, <1>10 DEF DropPacket, Finish
<1> QED  BY <1>3, <1>7, <1>8, <1>9, <1>10, Zenon DEF PacketReceived

\* The router thread, the network and the timers.
LEMMA OutsideQueue ==
  ASSUME ConstantsAssumption, QueueInv,
         \/ \E ri \in RouterInfo : ConnectBegin(ri)
         \/ ConnectEnd
         \/ GracefulShutdown
         \/ \E p \in Traffic : PacketArrives(p)
         \/ \E ep \in Endpoint : StateTimerExpires(ep)
         \/ \E p \in peers : PeerTimerExpires(p)
  PROVE  QueueOK'
<1>1. /\ es \in [EsId -> EstablishmentState] /\ tasks \in Seq(Task)
      /\ peers \subseteq PeerState /\ connecting \in EsId \cup {NoEs}
      /\ stateTimers \in [Endpoint -> EsId \cup {NoEs}]
  BY DEF QueueInv, IInv, TypeOK
<1>2. ASSUME NEW ri \in RouterInfo, ConnectBegin(ri) PROVE QueueOK'
  <2>1. ri[1] \in Router /\ ri[2] \in Endpoint
    BY DEF ConstantsAssumption
  <2>2. PICK k \in EsId :
          /\ Fresh(k) /\ es' = [es EXCEPT ![k] = New(ri[2], "OUTBOUND", ri[1])]
          /\ stateTable' = [stateTable EXCEPT ![ri[2]] = k] /\ connecting' = k
    BY <1>2, Zenon DEF ConnectBegin
  <2>3. PICK r : r = New(ri[2], "OUTBOUND", ri[1])
    BY Zenon
  <2>4. /\ r \in EstablishmentState /\ r.ep = ri[2] /\ r.dir = "OUTBOUND"
        /\ r.state = "UNKNOWN" /\ r.established = 0 /\ ~r.keyed /\ ~r.signed
    BY <2>1, <2>3, Newborn
  <2>5. tasks' = tasks /\ peers' = peers
    BY <1>2 DEF ConnectBegin
  <2>6. Moved(tasks, tasks', 0, 0, Change(k))
    <3>1. Change(k) \in Task
      BY TaskTypes DEF TaskOK, Change
    <3> QED  BY <1>1, <2>5, <3>1, QueueMoved, Zenon
  <2>7. PICK d : d = 0 /\ d # 1
    OBVIOUS
  <2> QED  BY <2>1, <2>2, <2>3, <2>4, <2>5, <2>6, <2>7, BornQueue, Zenon
<1>3. CASE ConnectEnd
  <2>1. PICK k \in EsId : k = connecting
    BY <1>1, <1>3 DEF ConnectEnd
  <2>2. /\ es[k].state = "UNKNOWN" /\ es[k].dir = "OUTBOUND" /\ es[k] \in EstablishmentState
        /\ ObjectOK(k)
    BY <1>1, <1>3, <2>1 DEF ConnectEnd, QueueInv, QueueOK, IInv, ConnectExclusive
  <2>3. PICK r : r = [es[k] EXCEPT !.state = "REQUEST_SENT"]
    BY Zenon
  <2>4. /\ r \in EstablishmentState /\ r.state = "REQUEST_SENT" /\ r.ep = es[k].ep
        /\ r.dir = es[k].dir /\ r.established = es[k].established
    BY <2>2, <2>3, StateLeaves, Zenon DEF State
  <2>5. /\ es' = [es EXCEPT ![k] = r] /\ tasks' = Append(tasks, Change(k))
        /\ connecting' = NoEs /\ UNCHANGED <<stateTable, peers>>
    BY <1>3, <2>1, <2>3 DEF ConnectEnd, Change
  <2>6. /\ Change(k) \in Task /\ Change(k).op = "stateChanged" /\ Change(k).es = k
        /\ es'[k] = r /\ \A j \in EsId : j # k => es'[j] = es[j]
    BY <1>1, <2>5, TaskTypes, Zenon DEF TaskOK, Change, EsTask
  <2>7. Moved(tasks, tasks', 0, 1, Change(k))
    BY <1>1, <2>5, <2>6, QueueMoved, Zenon
  <2>8. AtMostOne(Change(k), tasks') /\ es[k].established = 0
    BY <2>2, <2>7, CountPosted, Zenon DEF ObjectOK, OutboundOK, Completed
  <2>9. ObjectOK(k)'
    BY <2>2, <2>4, <2>6, <2>8, Zenon DEF ObjectOK, OutboundOK, Change, EsTask
  <2>10. (\A j \in EsId : ObjectOK(j)') /\ ChangesPlain'
    <3>1. \A j \in EsId : ObjectOK(j)'
      <4>1. PICK d : d = 0 /\ d # 1
        OBVIOUS
      <4> QED  BY <2>4, <2>5, <2>6, <2>7, <2>9, <4>1, OneObject, Zenon
    <3>2. ChangesPlain'
      BY <2>6, <2>7, PlainKept, Zenon DEF QueueInv, QueueOK
    <3> QED  BY <3>1, <3>2
  <2>11. \A j \in EsId : Completing(j)' => Completing(j) /\ es'[j].ep = es[j].ep
    BY <2>4, <2>6, Zenon DEF Completing
  <2>12. \A j \in EsId : es'[j].ep = es[j].ep
    BY <2>4, <2>6
  <2>13. CompletingAlone' /\ CompletingFirst'
    <3>1. PICK d : d = 0 /\ d # 1
      OBVIOUS
    <3> QED  BY <2>5, <2>7, <2>11, <2>12, <3>1, NoneCompletes, Zenon DEF PeerExists
  <2> QED  BY <2>5, <2>10, <2>13 DEF QueueOK
<1>4. CASE GracefulShutdown
  <2>1. UNCHANGED <<es, stateTable, connecting, tasks, peers>>
    BY <1>4, Zenon DEF GracefulShutdown
  <2>2. PICK t \in Task : t = RouterTask("failure", NoRouter)
    BY TaskTypes DEF TaskOK
  <2>3. Moved(tasks, tasks', 0, 0, t)
    BY <1>1, <2>1, QueueMoved, Zenon
  <2>4. PICK d : d = 0 /\ d # 1
    OBVIOUS
  <2> QED  BY <2>1, <2>3, <2>4, QuietQueue, Zenon DEF PeerExists
<1>5. ASSUME NEW p \in Traffic, PacketArrives(p) PROVE QueueOK'
  <2>1. /\ PacketTask(p) \in Task /\ PacketTask(p).op = "packet" /\ PacketTask(p).pkt = p
    BY TaskTypes, Zenon DEF TaskOK, ConstantsAssumption, PacketTask
  <2>2. /\ UNCHANGED <<es, stateTable, connecting, peers>>
        /\ tasks' = Append(tasks, PacketTask(p))
        /\ \A k \in EsId : p.key = k => es[k].keyed \/ es[k].dir = "OUTBOUND"
    BY <1>5 DEF PacketArrives, RemoteKnows
  <2>3. Moved(tasks, tasks', 0, 1, PacketTask(p))
    BY <1>1, <2>1, <2>2, QueueMoved, Zenon
  <2>4. PICK d : d = 0 /\ d # 1
    OBVIOUS
  <2> QED  BY <2>1, <2>2, <2>3, <2>4, QuietQueue, Zenon DEF PeerExists
<1>6. ASSUME NEW ep \in Endpoint, StateTimerExpires(ep) PROVE QueueOK'
  <2>1. PICK t \in Task : /\ t = EsTask("timeout", stateTimers[ep])
                          /\ t.op \notin {"stateChanged", "packet"}
    BY <1>1, <1>6, TaskTypes, Zenon DEF TaskOK, StateTimerExpires, EsTask
  <2>2. /\ UNCHANGED <<es, stateTable, connecting, peers>> /\ tasks' = Append(tasks, t)
    BY <1>6, <2>1 DEF StateTimerExpires
  <2>3. Moved(tasks, tasks', 0, 1, t)
    BY <1>1, <2>2, QueueMoved, Zenon
  <2>4. PICK d : d = 0 /\ d # 1
    OBVIOUS
  <2> QED  BY <2>1, <2>2, <2>3, <2>4, QuietQueue, Zenon DEF PeerExists
<1>7. ASSUME NEW p \in peers, PeerTimerExpires(p) PROVE QueueOK'
  <2>1. PICK u : u = [p EXCEPT !.armed = FALSE]
    BY Zenon
  <2>2. u.ep = p.ep /\ p.rh \in Router \cup {NoRouter}
    BY <1>1, <2>1 DEF PeerState
  <2>3. PICK t \in Task : /\ t = RouterTask("peerTimeout", p.rh)
                          /\ t.op \notin {"stateChanged", "packet"}
    BY <2>2, TaskTypes, Zenon DEF TaskOK, RouterTask
  <2>4. /\ UNCHANGED <<es, stateTable, connecting>> /\ tasks' = Append(tasks, t)
        /\ peers' = (peers \ {p}) \cup {u}
    BY <1>7, <2>1, <2>3 DEF PeerTimerExpires
  <2>5. Moved(tasks, tasks', 0, 1, t)
    BY <1>1, <2>4, QueueMoved, Zenon
  <2>6. \A o \in peers' : PeerExists(o.ep)
    BY <2>2, <2>4 DEF PeerExists
  <2>7. PICK d : d = 0 /\ d # 1
    OBVIOUS
  <2> QED  BY <2>3, <2>4, <2>5, <2>6, <2>7, QuietQueue, Zenon
<1> QED  BY <1>2, <1>3, <1>4, <1>5, <1>6, <1>7

\* peerTimeout, and a signal that reaches its slots.
LEMMA SignalQueue ==
  ASSUME ConstantsAssumption, QueueInv, PeerTimeout \/ EmitSignal
  PROVE  QueueOK'
<1>1. /\ tasks # <<>> /\ Head(tasks).op # "stateChanged" /\ tasks \in Seq(Task)
      /\ UNCHANGED <<es, stateTable, connecting>> /\ tasks' = Tail(tasks) \o <<>>
      /\ peers' \subseteq peers
  BY Zenon DEF PeerTimeout, EmitSignal, Running, Finish, QueueInv, IInv, TypeOK
<1>2. PICK t \in Task : t = RouterTask("failure", NoRouter)
  BY TaskTypes DEF TaskOK
<1>3. Moved(tasks, tasks', 1, 0, t)
  BY <1>1, QueueMoved, Zenon
<1>4. tasks[1] = Head(tasks)
  BY <1>1
<1> QED  BY <1>1, <1>3, <1>4, QuietQueue DEF PeerExists

\* Every step keeps the invariant.
LEMMA NextQueue == ConstantsAssumption /\ QueueInv /\ [Next]_vars => QueueInv'
<1> SUFFICES ASSUME ConstantsAssumption, QueueInv, [Next]_vars
             PROVE  QueueInv'
  OBVIOUS
<1>1. IInv'
  BY NextInv DEF QueueInv
<1>2. CASE ServiceThread
  <2>1. QueueOK'
    BY <1>2, StateChangedQueue, TimeoutQueue, PacketQueue, SignalQueue DEF ServiceThread
  <2> QED  BY <1>1, <2>1 DEF QueueInv
<1>3. CASE Next /\ ~ServiceThread
  <2>1. QueueOK'
    BY <1>3, OutsideQueue DEF Next
  <2> QED  BY <1>1, <2>1 DEF QueueInv
<1>4. CASE UNCHANGED vars
  <2>1. tasks \in Seq(Task) /\ UNCHANGED <<es, stateTable, connecting, tasks, peers>>
    BY <1>4, Zenon DEF vars, QueueInv, IInv, TypeOK
  <2>2. PICK t \in Task : t = RouterTask("failure", NoRouter)
    BY TaskTypes DEF TaskOK
  <2>3. Moved(tasks, tasks', 0, 0, t)
    BY <2>1, QueueMoved, Zenon
  <2>4. QueueOK'
    BY <2>1, <2>3, QuietQueue DEF PeerExists
  <2> QED  BY <1>1, <2>4 DEF QueueInv
<1> QED  BY <1>2, <1>3, <1>4

\* The queue is empty at the start and every object is new.
LEMMA InitQueue == ConstantsAssumption /\ Init => QueueInv
<1> SUFFICES ASSUME ConstantsAssumption, Init PROVE QueueInv
  OBVIOUS
<1>1. IInv
  BY InitInv
<1>2. PICK ep : ep = CHOOSE e \in Endpoint : TRUE
  OBVIOUS
<1>3. \A k \in EsId : es[k] = New(ep, "INBOUND", NoRouter)
  BY <1>2, Zenon DEF Init
<1>4. ASSUME NEW k \in EsId
      PROVE  /\ es[k].state = "UNKNOWN" /\ es[k].dir = "INBOUND" /\ es[k].established = 0
             /\ ~es[k].keyed /\ ~es[k].signed
  <2>1. ep \in Endpoint
    BY <1>2 DEF ConstantsAssumption
  <2> QED  BY <1>3, <2>1, Newborn
<1>5. tasks = <<>> /\ Len(tasks) = 0 /\ connecting = NoEs
  BY Zenon DEF Init
<1>6. \A k \in EsId : ObjectOK(k) /\ ~Completing(k)
  BY <1>4, <1>5 DEF ObjectOK, InboundOK, AtMostOne, Completing
<1> QED  BY <1>1, <1>5, <1>6 DEF QueueInv, QueueOK, ChangesPlain, CompletingAlone, CompletingFirst

\* The invariant of the queue.
THEOREM QueueInvariance == Spec => []QueueInv
<1>1. ConstantsAssumption
  BY ConstantsAssumption
<1> QED  BY <1>1, InitQueue, NextQueue, PTL DEF Spec

-----------------------------------------------------------------------------
\* What a step does to an object it announces or lists.
Announces(k) ==
  /\ es'[k].established > es[k].established =>
       /\ es'[k].state = es[k].state /\ es'[k].dir = es[k].dir
       /\ es[k].state \in {"CONFIRMED_SENT", "CONFIRMED_RECEIVED"}
       /\ es[k].state = "CONFIRMED_RECEIVED" => es[k].signed /\ peers' = AddPeer(k)
  /\ es[k].state = "CREATED_RECEIVED" /\ es'[k].state = "CONFIRMED_SENT" =>
       es[k].signed /\ peers' = AddPeer(k)

\* A step that counts no announcement and does not send SESSION_CONFIRMED.
LEMMA SilentStep ==
  ASSUME QueueInv, NEW k \in EsId, NEW r, es' = [es EXCEPT ![k] = r],
         r.established = es[k].established \/ r.established = 0,
         r.state # "CONFIRMED_SENT" \/ r.state = es[k].state
  PROVE  \A j \in EsId : Announces(j)
<1> SUFFICES ASSUME NEW j \in EsId PROVE Announces(j)
  BY Zenon
<1>1. /\ es[j].established \in Nat
      /\ es'[k] = r /\ (j # k => es'[j] = es[j])
  BY DEF QueueInv, IInv, TypeOK, EstablishmentState
<1>2. ~(es'[j].established > es[j].established)
  BY <1>1
<1>3. ~(es[j].state = "CREATED_RECEIVED" /\ es'[j].state = "CONFIRMED_SENT")
  BY <1>1, Zenon
<1> QED  BY <1>2, <1>3 DEF Announces

\* A step that leaves the objects alone.
LEMMA IdleStep ==
  ASSUME QueueInv, UNCHANGED es
  PROVE  \A j \in EsId : Announces(j)
<1> SUFFICES ASSUME NEW j \in EsId PROVE Announces(j)
  OBVIOUS
<1>1. es[j].established \in Nat /\ es'[j] = es[j]
  BY DEF QueueInv, IInv, TypeOK, EstablishmentState
<1> QED  BY <1>1 DEF Announces

\* stateChanged is the only handler that announces and lists.
LEMMA StateChangedAnnounces ==
  ASSUME QueueInv, StateChanged
  PROVE  \A j \in EsId : Announces(j)
<1>1. PICK k \in EsId : Head(tasks).es = k /\ es[k] \in EstablishmentState
  BY RunningEs DEF StateChanged, Running, QueueInv
<1>2. es \in [EsId -> EstablishmentState]
  BY DEF QueueInv, IInv, TypeOK
<1>3. CASE UNCHANGED es
  BY <1>3, IdleStep
<1>4. CASE es' = [es EXCEPT ![k].state = "FAILURE"]
  <2>1. PICK r : r = [es[k] EXCEPT !.state = "FAILURE"]
    BY Zenon
  <2>2. r.state = "FAILURE" /\ r.established = es[k].established
    BY <1>1, <2>1, StateLeaves DEF State
  <2>3. es' = [es EXCEPT ![k] = r]
    BY <1>4, <2>1
  <2> QED  BY <2>2, <2>3, SilentStep, Zenon
<1>5. CASE es' = [es EXCEPT ![k].keyed = TRUE, ![k].state = "CREATED_SENT"]
  <2>1. PICK r : r = [es[k] EXCEPT !.keyed = TRUE, !.state = "CREATED_SENT"]
    OBVIOUS
  <2>2. r.state = "CREATED_SENT" /\ r.established = es[k].established
    <3>1. "CREATED_SENT" \in State  BY DEF State
    <3> QED  BY <1>1, <2>1, <3>1, KeyLeaves, Zenon
  <2>3. es' = [es EXCEPT ![k] = r]
    BY <1>5, <2>1, Zenon
  <2> QED  BY <2>2, <2>3, SilentStep, Zenon
<1>6. CASE es' = [es EXCEPT ![k].failed = @ + 1]
  <2>1. PICK r : r = [es[k] EXCEPT !.failed = @ + 1]
    BY Zenon
  <2>2. r.state = es[k].state /\ r.established = es[k].established
    BY <1>1, <2>1, SignalLeaves
  <2>3. es' = [es EXCEPT ![k] = r]
    BY <1>6, <2>1
  <2> QED  BY <2>2, <2>3, SilentStep, Zenon
<1>7. ASSUME NEW r, es' = [es EXCEPT ![k] = r], Announces(k)
      PROVE  \A j \in EsId : Announces(j)
  <2> SUFFICES ASSUME NEW j \in EsId, j # k PROVE Announces(j)
    BY <1>7
  <2>1. es'[j] = es[j] /\ es[j].established \in Nat
    BY <1>2, <1>7 DEF EstablishmentState
  <2> QED  BY <2>1 DEF Announces
<1>8. CASE ProcessCreated(k) /\ es[k].signed
  <2>1. PICK r : r = [es[k] EXCEPT !.keyed = TRUE, !.state = "CONFIRMED_SENT"]
    OBVIOUS
  <2>2. r.established = es[k].established /\ es[k].established \in Nat
    <3>1. "CONFIRMED_SENT" \in State  BY DEF State
    <3> QED  BY <1>1, <2>1, <3>1, KeyLeaves, Zenon DEF EstablishmentState
  <2>3. es' = [es EXCEPT ![k] = r] /\ peers' = AddPeer(k)
    BY <1>8, <2>1, Zenon DEF ProcessCreated
  <2>4. es'[k].established = es[k].established
    BY <1>2, <2>2, <2>3
  <2>5. ~(es'[k].established > es[k].established)
    BY <2>2, <2>4
  <2>6. Announces(k)
    BY <1>8, <2>3, <2>5 DEF Announces
  <2> QED  BY <1>7, <2>3, <2>6, Zenon
<1>9. CASE ConfirmedSent(k) \/ (ProcessConfirmed(k) /\ es[k].signed)
  <2>1. PICK r : r = [es[k] EXCEPT !.established = @ + 1]
    BY Zenon
  <2>2. r.state = es[k].state /\ r.dir = es[k].dir
    BY <1>1, <2>1, SignalLeaves
  <2>3. /\ es' = [es EXCEPT ![k] = r]
        /\ \/ es[k].state = "CONFIRMED_SENT"
           \/ es[k].state = "CONFIRMED_RECEIVED" /\ es[k].signed /\ peers' = AddPeer(k)
    BY <1>9, <2>1 DEF ConfirmedSent, ProcessConfirmed
  <2>4. es'[k].state = es[k].state /\ es'[k].dir = es[k].dir
    BY <1>2, <2>2, <2>3
  <2>5. Announces(k)
    BY <2>3, <2>4 DEF Announces
  <2> QED  BY <1>7, <2>3, <2>5, Zenon
<1> QED
  BY <1>1, <1>3, <1>4, <1>5, <1>6, <1>8, <1>9, Zenon DEF StateChanged, LogState, ProcessRequest,
     ProcessCreated, ProcessConfirmed, EstablishmentFailed

\* The other handlers and the other threads.
LEMMA OthersAnnounce ==
  ASSUME ConstantsAssumption, QueueInv, Next, ~StateChanged
  PROVE  \A j \in EsId : Announces(j)
<1>1. /\ es \in [EsId -> EstablishmentState] /\ connecting \in EsId \cup {NoEs}
      /\ tasks \in Seq(Task) /\ stateTable \in [Endpoint -> EsId \cup {NoEs}]
  BY DEF QueueInv, IInv, TypeOK
<1>2. ASSUME NEW k \in EsId, NEW v \in State, v # "CONFIRMED_SENT",
             es' = [es EXCEPT ![k].state = v]
      PROVE  \A j \in EsId : Announces(j)
  <2>1. PICK r : r = [es[k] EXCEPT !.state = v]
    BY Zenon
  <2>2. r.state = v /\ r.established = es[k].established
    BY <1>1, <2>1, StateLeaves
  <2>3. es' = [es EXCEPT ![k] = r]
    BY <1>2, <2>1
  <2> QED  BY <1>2, <2>2, <2>3, SilentStep, Zenon
<1>3. ASSUME NEW ri \in RouterInfo, ConnectBegin(ri) PROVE \A j \in EsId : Announces(j)
  <2>1. ri[1] \in Router /\ ri[2] \in Endpoint
    BY DEF ConstantsAssumption
  <2>2. PICK k \in EsId : es' = [es EXCEPT ![k] = New(ri[2], "OUTBOUND", ri[1])]
    BY <1>3, Zenon DEF ConnectBegin
  <2>3. PICK r : r = New(ri[2], "OUTBOUND", ri[1])
    OBVIOUS
  <2>4. r.state = "UNKNOWN" /\ r.established = 0
    BY <2>1, <2>3, Newborn
  <2> QED  BY <2>2, <2>3, <2>4, SilentStep, Zenon
<1>4. CASE ConnectEnd
  BY <1>1, <1>2, <1>4, Zenon DEF ConnectEnd, State
<1>5. CASE TimeoutCallback
  <2>1. Head(tasks).es \in EsId
    BY <1>5, RunningEs DEF TimeoutCallback, Running, QueueInv
  <2> QED  BY <1>2, <1>5, <2>1, Zenon DEF TimeoutCallback, State
<1>6. CASE PacketReceived
  <2>1. tasks # <<>> /\ Head(tasks).op = "packet"
    BY <1>6 DEF PacketReceived, Running
  <2>2. PICK p \in Packet : p = Head(tasks).pkt
    <3>1. Head(tasks) \in Handlers(tasks)
      BY <1>1, <2>1 DEF Handlers
    <3> QED  BY <2>1, <3>1 DEF QueueInv, IInv, TasksConsistent, TaskOK
  <2>3. p.ep \in Endpoint /\ p.rh \in Router
    BY DEF Packet
  <2>4. CASE UNCHANGED es
    BY <2>4, IdleStep, Zenon
  <2>5. ASSUME NEW k \in EsId, HandleEsPacket(p, k) PROVE \A j \in EsId : Announces(j)
    <3>1. CASE HandleSessionCreated(p, k)
      <4>1. PICK r : r = [es[k] EXCEPT !.signed = (p.signed = k), !.state = "CREATED_RECEIVED"]
        OBVIOUS
      <4>2. r.state = "CREATED_RECEIVED" /\ r.established = es[k].established
        BY <1>1, <4>1 DEF EstablishmentState
      <4>3. es' = [es EXCEPT ![k] = r]
        BY <3>1, <4>1, Zenon DEF HandleSessionCreated, VerifySignature
      <4> QED  BY <4>2, <4>3, SilentStep, Zenon
    <3>2. CASE HandleSessionConfirmed(p, k)
      <4>1. PICK r : r = [es[k] EXCEPT !.rh = p.rh, !.signed = (p.signed = k),
                                       !.state = "CONFIRMED_RECEIVED"]
        OBVIOUS
      <4>2. r.state = "CONFIRMED_RECEIVED" /\ r.established = es[k].established
        BY <1>1, <4>1 DEF EstablishmentState
      <4>3. es' = [es EXCEPT ![k] = r]
        BY <3>2, <4>1, Zenon DEF HandleSessionConfirmed, VerifySignature
      <4> QED  BY <4>2, <4>3, SilentStep, Zenon
    <3>3. CASE HandleSessionDestroyed(p, k)
      BY <1>2, <3>3, Zenon DEF HandleSessionDestroyed, State
    <3> QED  BY <2>4, <2>5, <3>1, <3>2, <3>3 DEF HandleEsPacket
  <2>6. CASE HandleNewPacket(p)
    <3>1. CASE \E k \in EsId : es' = [es EXCEPT ![k] = New(p.ep, "INBOUND", NoRouter)]
      <4>1. PICK r : r = New(p.ep, "INBOUND", NoRouter)
        BY Zenon
      <4>2. r.state = "UNKNOWN" /\ r.established = 0
        BY <2>3, <4>1, Newborn
      <4> QED  BY <3>1, <4>1, <4>2, SilentStep, Zenon
    <3>2. CASE \E k \in EsId : es' = [es EXCEPT ![k] = [New(p.ep, "INBOUND", NoRouter)
                                                      EXCEPT !.state = "REQUEST_RECEIVED"]]
      <4>1. PICK r : r = [New(p.ep, "INBOUND", NoRouter) EXCEPT !.state = "REQUEST_RECEIVED"]
        BY Zenon
      <4>2. r.state = "REQUEST_RECEIVED" /\ r.established = 0
        BY <2>3, <4>1, NewbornRequested, Zenon
      <4> QED  BY <3>2, <4>1, <4>2, SilentStep, Zenon
    <3> QED  BY <2>4, <2>6, <3>1, <3>2, Zenon DEF HandleNewPacket
  <2>7. ASSUME StateExists(p.ep), HandleEsPacket(p, stateTable[p.ep])
        PROVE  \A j \in EsId : Announces(j)
    <3>1. stateTable[p.ep] \in EsId
      BY <1>1, <2>3, <2>7 DEF StateExists
    <3> QED  BY <2>5, <2>7, <3>1, Zenon
  <2> QED  BY <1>6, <2>2, <2>4, <2>6, <2>7, Zenon DEF PacketReceived, HandlePeerPacket, DropPacket
<1>7. CASE UNCHANGED es
  BY <1>7, IdleStep
<1> QED
  BY <1>3, <1>4, <1>5, <1>6, <1>7 DEF Next, ServiceThread, GracefulShutdown, PacketArrives,
     StateTimerExpires, PeerTimerExpires, PeerTimeout, EmitSignal

\* Every step.
LEMMA NextAnnounces ==
  ConstantsAssumption /\ QueueInv /\ [Next]_vars => \A j \in EsId : Announces(j)
<1> SUFFICES ASSUME ConstantsAssumption, QueueInv, [Next]_vars
             PROVE  \A j \in EsId : Announces(j)
  OBVIOUS
<1>1. CASE StateChanged
  BY <1>1, StateChangedAnnounces
<1>2. CASE Next /\ ~StateChanged
  BY <1>2, OthersAnnounce
<1>3. CASE UNCHANGED vars
  BY <1>3, IdleStep DEF vars
<1> QED  BY <1>1, <1>2, <1>3

\* However packets, timers and connect() interleave, an inbound establishment is
\* announced to the router once and an outbound one twice at most.
THEOREM AnnouncedAtMost == Spec => AnnouncedOnce
<1>1. ConstantsAssumption
  BY ConstantsAssumption
<1>2. ASSUME ConstantsAssumption, QueueInv, QueueInv', [Next]_vars, NEW k \in EsId,
             es'[k].established > es[k].established
      PROVE  es'[k].established <= IF es[k].dir = "INBOUND" THEN 1 ELSE 2
  <2>1. /\ es'[k].state \in {"CONFIRMED_SENT", "CONFIRMED_RECEIVED"}
        /\ es'[k].dir = es[k].dir
    BY <1>2, NextAnnounces, Zenon DEF Announces
  <2>2. ObjectOK(k)' /\ es'[k].dir \in {"INBOUND", "OUTBOUND"}
    BY <1>2 DEF QueueInv, QueueOK, IInv, TypeOK, EstablishmentState
  <2>3. CASE es'[k].dir = "INBOUND"
    <3>1. es'[k].established \in {0, 1}
      BY <2>1, <2>2, <2>3, Zenon DEF ObjectOK, InboundOK
    <3> QED  BY <2>1, <2>3, <3>1
  <2>4. CASE es'[k].dir = "OUTBOUND"
    <3>1. es'[k].established \in {0, 1, 2}
      BY <2>1, <2>2, <2>4, Zenon DEF ObjectOK, OutboundOK
    <3> QED  BY <2>1, <2>4, <3>1
  <2> QED  BY <2>2, <2>3, <2>4, Zenon
<1>3. ConstantsAssumption /\ QueueInv /\ QueueInv' /\ [Next]_vars =>
        [\A k \in EsId :
           es'[k].established > es[k].established =>
             es'[k].established <= IF es[k].dir = "INBOUND" THEN 1 ELSE 2]_vars
  BY <1>2
<1> QED  BY <1>1, <1>3, QueueInvariance, PTL DEF Spec, AnnouncedOnce

\* addPeer lists every authenticated peer: its refusal of a second router at an
\* endpoint is never reached.
THEOREM PeerNeverRefused == Spec => NeverRefused
<1>1. ConstantsAssumption
  BY ConstantsAssumption
<1>2. ASSUME ConstantsAssumption, QueueInv, QueueInv', [Next]_vars, NEW k \in EsId,
             \/ es[k].state = "CREATED_RECEIVED" /\ es'[k].state = "CONFIRMED_SENT"
             \/ es[k].state = "CONFIRMED_RECEIVED" /\ es'[k].established > es[k].established
      PROVE  \E p \in peers' : p.es = k
  <2>1. es[k].signed /\ peers' = AddPeer(k)
    BY <1>2, NextAnnounces, Zenon DEF Announces
  <2>2. Completing(k)
    <3>1. CASE es[k].state = "CREATED_RECEIVED"
      BY <2>1, <3>1 DEF Completing
    <3>2. CASE es[k].state = "CONFIRMED_RECEIVED" /\ es'[k].established > es[k].established
      <4>1. /\ ObjectOK(k) /\ ObjectOK(k)' /\ es[k].dir \in {"INBOUND", "OUTBOUND"}
        BY <1>2, Zenon DEF QueueInv, QueueOK, IInv, TypeOK, EstablishmentState
      <4>2. es'[k].state = "CONFIRMED_RECEIVED" /\ es'[k].dir = es[k].dir
        BY <1>2, <3>2, NextAnnounces DEF Announces
      <4>3. es[k].established \in {0, 1} /\ es'[k].established \in {0, 1}
        BY <3>2, <4>1, <4>2, Zenon DEF ObjectOK, InboundOK, OutboundOK
      <4>4. es[k].established = 0
        BY <3>2, <4>3
      <4> QED  BY <2>1, <3>2, <4>4, Zenon DEF Completing
    <3> QED  BY <1>2, <3>1, <3>2
  <2>3. ~PeerExists(es[k].ep)
    BY <1>2, <2>2, Zenon DEF QueueInv, QueueOK, CompletingAlone
  <2>4. [ep |-> es[k].ep, rh |-> es[k].rh, es |-> k, armed |-> TRUE] \in peers'
    BY <2>1, <2>3, Zenon DEF AddPeer, PeerExists
  <2> QED  BY <2>4, Zenon
<1>3. ConstantsAssumption /\ QueueInv /\ QueueInv' /\ [Next]_vars =>
        [\A k \in EsId :
           (\/ es[k].state = "CREATED_RECEIVED" /\ es'[k].state = "CONFIRMED_SENT"
            \/ es[k].state = "CONFIRMED_RECEIVED" /\ es'[k].established > es[k].established)
           => \E p \in peers' : p.es = k]_vars
  BY <1>2
<1> QED  BY <1>1, <1>3, QueueInvariance, PTL DEF Spec, NeverRefused
=============================================================================
