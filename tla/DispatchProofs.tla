--------------------------- MODULE DispatchProofs ---------------------------
(***************************************************************************)
(* Theorems about Dispatch, for any set of routers and any queue bound:    *)
(* every search has its timer, the lookups are those KeyLookup allows, a   *)
(* message that waits is not forgotten, and a search goes forward only     *)
(* through its candidates.                                                 *)
(***************************************************************************)
EXTENDS Dispatch, FiniteSetTheorems, TLAPS

\* The inductive invariant: what is queued is well formed, a store signal is
\* queued only for a router that is in the database, and every search is timed.
Timed ==
    /\ DOMAIN searches \subseteq Routers
    /\ timers \subseteq Routers
    /\ db \subseteq Routers
    /\ queue \in Seq(Events)
    /\ \A e \in Elems(queue) : e.ev = "store" => e.key \in db
    /\ SearchIsTimed

\* What Append adds to the handlers that are queued.
LEMMA ElemsAppend ==
    ASSUME NEW S, NEW s \in Seq(S), NEW e \in S
    PROVE  Append(s, e) \in Seq(S) /\ Elems(Append(s, e)) = Elems(s) \cup {e}
<1>1. Append(s, e) \in Seq(S) /\ Len(Append(s, e)) = Len(s) + 1
        /\ Append(s, e)[Len(s) + 1] = e
        /\ \A i \in 1 .. Len(s) : Append(s, e)[i] = s[i]
  OBVIOUS
<1>2. DOMAIN s = 1 .. Len(s) /\ DOMAIN Append(s, e) = 1 .. (Len(s) + 1) /\ Len(s) \in Nat
  BY <1>1
<1>3. 1 .. (Len(s) + 1) = (1 .. Len(s)) \cup {Len(s) + 1}
  BY <1>2
<1> QED BY <1>1, <1>2, <1>3 DEF Elems

\* Taking the first handler from the queue leaves the others.
LEMMA ElemsTail ==
    ASSUME NEW S, NEW s \in Seq(S), s # <<>>
    PROVE  /\ Head(s) \in S /\ Tail(s) \in Seq(S)
           /\ Elems(s) = {Head(s)} \cup Elems(Tail(s))
<1>1. /\ Head(s) \in S /\ Tail(s) \in Seq(S) /\ Head(s) = s[1]
      /\ Len(Tail(s)) = Len(s) - 1 /\ Len(s) \in Nat /\ Len(s) >= 1
      /\ \A i \in 1 .. Len(Tail(s)) : Tail(s)[i] = s[i + 1]
  OBVIOUS
<1>2. DOMAIN s = 1 .. Len(s) /\ DOMAIN Tail(s) = 1 .. (Len(s) - 1)
  BY <1>1
<1>3. \A i \in DOMAIN s : i = 1 \/ i - 1 \in DOMAIN Tail(s)
  BY <1>1, <1>2
<1>4. \A i \in DOMAIN s : i = 1 \/ (i - 1 \in DOMAIN Tail(s) /\ Tail(s)[i - 1] = s[i])
  BY <1>1, <1>2, <1>3
<1>5. \A i \in DOMAIN Tail(s) : i + 1 \in DOMAIN s /\ Tail(s)[i] = s[i + 1]
  BY <1>1, <1>2
<1>6. 1 \in DOMAIN s
  BY <1>1, <1>2
<1> QED BY <1>1, <1>4, <1>5, <1>6 DEF Elems

\* What sendMessage may change: it posts at most the failure of the key, and
\* it may start one search, with its timer, for a router that is unknown.
LEMMA SendMessageChanges ==
    ASSUME NEW to \in Routers, NEW s, NEW p, NEW q \in Seq(Events), NEW locked,
           DOMAIN s = DOMAIN searches,
           SendMessage(to, s, p, q, locked)
    PROVE  /\ queue' = q \/ queue' = Append(q, Signal("failure", to))
           /\ \/ DOMAIN searches' = DOMAIN searches /\ timers' = timers
              \/ /\ to \notin db \cup DOMAIN nlc \cup DOMAIN searches
                 /\ DOMAIN searches' = DOMAIN searches \cup {to}
                 /\ timers' = timers \cup {to}
<1>1. CASE Connected(to)
  BY <1>1 DEF SendMessage
<1>2. CASE ~Connected(to) /\ to \in db
  BY <1>2 DEF SendMessage
<1>3. CASE ~Connected(to) /\ to \notin db
  <2>1. Lookup(to, s, p, q, locked)
    BY <1>3 DEF SendMessage
  <2>2. CASE StartingPoints[to] = <<>>
    BY <2>1, <2>2 DEF Lookup
  <2>3. CASE StartingPoints[to] # <<>>
    <3>1. CreateSearch(to, s, q, locked)
      BY <2>1, <2>3 DEF Lookup
    <3> QED BY <3>1, <1>3 DEF CreateSearch, With
  <2> QED BY <2>2, <2>3
<1> QED BY <1>1, <1>2, <1>3

\* The invariant survives a handler that posts nothing or one more event,
\* and starts or ends at most one search together with its timer, if the
\* handler of a timeout leaves no search for its key.
LEMMA HandlerKeepsTimed ==
    ASSUME Timed, queue # <<>>,
           NEW x \in Events,
           x.ev # "timeout" /\ (x.ev = "store" => x.key \in db'),
           queue' = Tail(queue) \/ queue' = Append(Tail(queue), x),
           db \subseteq db' /\ db' \subseteq Routers,
           NEW k \in Routers,
           \/ DOMAIN searches' = DOMAIN searches /\ timers' = timers
           \/ DOMAIN searches' = DOMAIN searches \cup {k} /\ timers' = timers \cup {k}
           \/ DOMAIN searches' = DOMAIN searches \ {k} /\ timers' = timers \ {k},
           Head(queue).ev = "timeout" => Head(queue).key \notin DOMAIN searches'
    PROVE  Timed'
<1> DEFINE e == Head(queue)
           q == Tail(queue)
<1>1. e \in Events /\ q \in Seq(Events) /\ Elems(queue) = {e} \cup Elems(q)
  BY ElemsTail DEF Timed
<1>2. queue' \in Seq(Events) /\ Elems(q) \subseteq Elems(queue')
        /\ Elems(queue') \subseteq Elems(q) \cup {x}
  <2>1. Append(q, x) \in Seq(Events) /\ Elems(Append(q, x)) = Elems(q) \cup {x}
    <3> HIDE DEF q
    <3> QED BY <1>1, ElemsAppend
  <2>2. Elems(queue') = Elems(q) \/ Elems(queue') = Elems(q) \cup {x}
    BY <2>1, Zenon
  <2> QED BY <1>1, <2>1, <2>2
<1>3. \A y \in Elems(queue') : y.ev = "store" => y.key \in db'
  BY <1>1, <1>2 DEF Timed
<1>4. DOMAIN searches' \subseteq Routers /\ timers' \subseteq Routers
  BY DEF Timed
<1>5. ASSUME NEW g \in DOMAIN searches'
      PROVE  g \in timers' \/ Event("timeout", g, g, <<>>) \in Elems(queue')
  <2>1. CASE g \in timers'
    BY <2>1
  <2>2. CASE g \notin timers'
    <3>1. g \in DOMAIN searches /\ g \notin timers
      BY <2>2, <1>5
    <3>2. Event("timeout", g, g, <<>>) \in Elems(queue)
      BY <3>1 DEF Timed, SearchIsTimed, Queued
    <3>3. e # Event("timeout", g, g, <<>>)
      BY <1>5 DEF Event
    <3> QED BY <3>2, <3>3, <1>1, <1>2
  <2> QED BY <2>1, <2>2
<1>6. SearchIsTimed'
  BY <1>5 DEF SearchIsTimed, Queued
<1> QED BY <1>2, <1>3, <1>4, <1>6 DEF Timed

\* cancel() ends the search together with its timer, or there was none.
LEMMA CancelChanges ==
    ASSUME NEW k \in Routers, NEW q, Cancel(k, q)
    PROVE  /\ k \notin DOMAIN searches'
           /\ queue' = q \/ queue' = Append(q, Signal("failure", k))
           /\ \/ /\ DOMAIN searches' = DOMAIN searches /\ timers' = timers
                 /\ nlc' = nlc
              \/ /\ k \in DOMAIN searches
                 /\ DOMAIN searches' = DOMAIN searches \ {k} /\ timers' = timers \ {k}
                 /\ DOMAIN nlc' = DOMAIN nlc \cup {k}
BY Zenon DEF Cancel, Without, InsertNegative, With

\* The invariant survives every handler.
LEMMA HandleKeepsTimed == Timed /\ Handle => Timed'
<1> SUFFICES ASSUME Timed, Handle PROVE Timed'
  OBVIOUS
<1> DEFINE e == Head(queue)
           q == Tail(queue)
<1>1. queue # <<>>
  BY DEF Handle
<1>2. e \in Events /\ q \in Seq(Events) /\ e \in Elems(queue)
  BY <1>1, ElemsTail DEF Timed
<1>3. e.rh \in Routers /\ e.key \in Routers /\ e.hashes \in Seq(Routers)
  BY <1>2 DEF Events
<1>4. \A ev \in EventNames, r \in Routers : Signal(ev, r) \in Events /\ Signal(ev, r).ev = ev
  BY DEF Signal, Event, Events
<1>5. db \subseteq Routers
  BY DEF Timed
<1>6. ASSUME NEW to \in Routers, NEW s, NEW p, NEW locked,
             DOMAIN s = DOMAIN searches, SendMessage(to, s, p, q, locked),
             db' = db, e.ev # "timeout"
      PROVE  Timed'
  <2>1. /\ queue' = q \/ queue' = Append(q, Signal("failure", to))
        /\ \/ DOMAIN searches' = DOMAIN searches /\ timers' = timers
           \/ DOMAIN searches' = DOMAIN searches \cup {to} /\ timers' = timers \cup {to}
    BY <1>2, <1>6, SendMessageChanges, Zenon
  <2>2. Signal("failure", to) \in Events /\ Signal("failure", to).ev = "failure"
    BY <1>4 DEF EventNames
  <2> HIDE DEF q
  <2> QED BY <1>1, <1>5, <1>6, <2>1, <2>2, HandlerKeepsTimed, Zenon DEF q
<1>7. ASSUME NEW k \in Routers, Cancel(k, q), db' = db, e.ev = "timeout" => e.key = k
      PROVE  Timed'
  <2>1. /\ k \notin DOMAIN searches'
        /\ queue' = q \/ queue' = Append(q, Signal("failure", k))
        /\ \/ DOMAIN searches' = DOMAIN searches /\ timers' = timers
           \/ DOMAIN searches' = DOMAIN searches \ {k} /\ timers' = timers \ {k}
    BY <1>7, CancelChanges, Zenon
  <2>2. Signal("failure", k) \in Events /\ Signal("failure", k).ev = "failure"
    BY <1>4 DEF EventNames
  <2> QED BY <1>1, <1>5, <1>7, <2>1, <2>2, HandlerKeepsTimed, Zenon
<1>8. ASSUME queue' = q, DOMAIN searches' = DOMAIN searches, timers' = timers, db' = db,
             e.ev # "timeout"
      PROVE  Timed'
  <2>1. Signal("failure", e.rh) \in Events /\ Signal("failure", e.rh).ev = "failure"
    BY <1>3, <1>4 DEF EventNames
  <2> QED BY <1>1, <1>3, <1>5, <1>8, <2>1, HandlerKeepsTimed
<1>10. CASE e.ev = "connected" /\ HandleConnected(e.rh, q)
  <2>1. CASE queue' = q /\ searches' = searches /\ timers' = timers /\ db' = db
    BY <1>8, <1>10, <2>1
  <2>2. CASE /\ db' = db
             /\ \E g \in Asking(e.rh) :
                   SendMessage(e.rh, [searches EXCEPT ![g].state = "LOOKUP_SENT"],
                               pending \ {e.rh}, q, TRUE)
    <3>1. PICK g \in Asking(e.rh) :
              SendMessage(e.rh, [searches EXCEPT ![g].state = "LOOKUP_SENT"],
                          pending \ {e.rh}, q, TRUE)
      BY <2>2, Zenon
    <3>2. DOMAIN [searches EXCEPT ![g].state = "LOOKUP_SENT"] = DOMAIN searches
      OBVIOUS
    <3> QED BY <1>3, <1>6, <1>10, <2>2, <3>1, <3>2, Zenon
  <2> QED BY <1>10, <2>1, <2>2, Zenon DEF HandleConnected
<1>11. CASE e.ev = "failed" /\ HandleFailed(e.rh, q)
  <2>1. CASE Asking(e.rh) = {}
    BY <1>8, <1>11, <2>1 DEF HandleFailed
  <2>2. CASE Asking(e.rh) # {}
    <3>1. PICK g \in Asking(e.rh) :
              IF Usable(searches[g]) = {}
              THEN Cancel(g, q) /\ UNCHANGED sess
              ELSE \E j \in Usable(searches[g]) :
                     /\ \A i \in Usable(searches[g]) : j <= i
                     /\ searches' = [searches EXCEPT ![g] = Advance(@, j)]
                     /\ Connect(searches[g].cands[j])
                     /\ queue' = q /\ UNCHANGED <<timers, nlc>>
      BY <1>11, <2>2, Zenon DEF HandleFailed
    <3>2. db' = db /\ g \in Routers
      BY <1>11 DEF HandleFailed, Asking, Timed
    <3>3. CASE Usable(searches[g]) = {}
      BY <3>1, <3>2, <3>3, <1>7, <1>11
    <3>4. CASE Usable(searches[g]) # {}
      <4>1. queue' = q /\ timers' = timers /\ DOMAIN searches' = DOMAIN searches
        BY <3>1, <3>4
      <4> QED BY <4>1, <3>2, <1>8, <1>11
    <3> QED BY <3>3, <3>4
  <2> QED BY <2>1, <2>2
<1>12. CASE e.ev = "reply" /\ HandleReply(e.rh, e.key, e.hashes, q)
  <2> DEFINE s == AddAlternates(searches[e.key], e.hashes)
             n == Advance(s, s.pos + 1)
             all == [searches EXCEPT ![e.key] = n]
  <2>1. CASE e.key \notin DOMAIN searches \/ searches[e.key].state # "LOOKUP_SENT"
    BY <1>8, <1>12, <2>1, Zenon DEF HandleReply
  <2>2. CASE /\ ~(e.key \notin DOMAIN searches \/ searches[e.key].state # "LOOKUP_SENT")
             /\ CountAlternates(s) = 0
    <3>1. Cancel(e.key, q) /\ db' = db
      BY <1>12, <2>2 DEF HandleReply
    <3> QED BY <3>1, <1>3, <1>7, <1>12, Zenon
  <2>3. CASE /\ ~(e.key \notin DOMAIN searches \/ searches[e.key].state # "LOOKUP_SENT")
             /\ CountAlternates(s) # 0
    <3> HIDE DEF all
    <3>0. DOMAIN all = DOMAIN searches
      BY DEF all
    <3>1. db' = db /\ \/ searches' = all /\ queue' = q /\ timers' = timers
                      \/ SendMessage(e.rh, all, pending, q, TRUE)
      BY <1>12, <2>3, Zenon DEF HandleReply, all
    <3> QED BY <3>0, <3>1, <1>3, <1>6, <1>8, <1>12, Zenon
  <2> QED BY <2>1, <2>2, <2>3
<1>13. CASE e.ev = "store" /\ HandleStore(e.rh, e.key, q)
  <2>1. CASE e.key \in DOMAIN searches
    <3>1. /\ queue' = Append(q, Signal("success", e.key))
          /\ DOMAIN searches' = DOMAIN searches \ {e.key} /\ timers' = timers \ {e.key}
          /\ db' = db
      BY <1>13, <2>1 DEF HandleStore, Without
    <3>2. Signal("success", e.key) \in Events /\ Signal("success", e.key).ev = "success"
      BY <1>3, <1>4 DEF EventNames
    <3> QED BY <3>1, <3>2, <1>1, <1>3, <1>5, <1>13, HandlerKeepsTimed
  <2>2. CASE e.key \notin DOMAIN searches
    BY <1>8, <1>13, <2>2 DEF HandleStore
  <2> QED BY <2>1, <2>2
<1>14. CASE e.ev = "timeout" /\ HandleTimeout(e.key, q)
  BY <1>3, <1>7, <1>14 DEF HandleTimeout
<1>15. CASE e.ev = "success" /\ HandleSuccess(e.key, q)
  BY <1>8, <1>15 DEF HandleSuccess
<1>16. CASE e.ev = "failure" /\ HandleFailure(e.key, q)
  BY <1>8, <1>16 DEF HandleFailure
<1>17. CASE e.ev = "DeliveryStatus" /\ HandleDeliveryStatus(e.rh, q)
  BY <1>3, <1>6, <1>17, Zenon DEF HandleDeliveryStatus
<1>18. CASE e.ev = "DB_STORE" /\ HandleDatabaseStore(e.rh, e.key, q)
  <2> DEFINE x == Event("store", e.rh, e.key, <<>>)
  <2>1. x \in Events /\ x.ev = "store" /\ x.key = e.key
    BY <1>3 DEF Event, Events, EventNames
  <2>2. queue' = Append(q, x) /\ db' = db \cup {e.key} /\ searches' = searches /\ timers' = timers
    BY <1>18 DEF HandleDatabaseStore
  <2> QED BY <2>1, <2>2, <1>1, <1>3, <1>5, <1>18, HandlerKeepsTimed
<1>19. CASE e.ev = "DB_SEARCH_REPLY" /\ HandleDatabaseSearchReply(e.rh, e.key, e.hashes, q)
  <2> DEFINE x == Event("reply", e.rh, e.key, e.hashes)
  <2>1. x \in Events /\ x.ev = "reply"
    BY <1>3 DEF Event, Events, EventNames
  <2>2. queue' = Append(q, x) /\ db' = db /\ searches' = searches /\ timers' = timers
    BY <1>19 DEF HandleDatabaseSearchReply
  <2> QED BY <2>1, <2>2, <1>1, <1>3, <1>5, <1>19, HandlerKeepsTimed
<1> QED BY <1>10, <1>11, <1>12, <1>13, <1>14, <1>15, <1>16, <1>17, <1>18, <1>19 DEF Handle

\* The invariant holds at the start.
LEMMA InitTimed == Init => Timed
<1> SUFFICES ASSUME Init PROVE Timed
  OBVIOUS
<1>1. DOMAIN searches = {} /\ queue = <<>> /\ timers = {} /\ db = Known
  BY DEF Init
<1>2. Elems(queue) = {}
  BY <1>1 DEF Elems
<1> QED BY <1>1, <1>2, RoutersAssumption DEF Timed, SearchIsTimed

\* The invariant survives a step that posts one event, or nothing, and
\* starts at most one search.
LEMMA PostKeepsTimed ==
    ASSUME Timed, NEW x \in Events, x.ev # "store",
           queue' = queue \/ queue' = Append(queue, x), db' = db,
           NEW k \in Routers,
           \/ DOMAIN searches' = DOMAIN searches /\ timers' = timers
           \/ DOMAIN searches' = DOMAIN searches \cup {k} /\ timers' = timers \cup {k}
           \/ /\ DOMAIN searches' = DOMAIN searches /\ timers' = timers \ {k}
              /\ queue' = Append(queue, x) /\ x = Event("timeout", k, k, <<>>)
    PROVE  Timed'
<1>1. queue' \in Seq(Events) /\ Elems(queue) \subseteq Elems(queue')
        /\ Elems(queue') \subseteq Elems(queue) \cup {x}
        /\ (queue' = Append(queue, x) => x \in Elems(queue'))
  <2>1. queue \in Seq(Events)
    BY DEF Timed
  <2>2. Append(queue, x) \in Seq(Events) /\ Elems(Append(queue, x)) = Elems(queue) \cup {x}
    BY <2>1, ElemsAppend
  <2>3. CASE queue' = queue
    <3>1. Elems(queue') = Elems(queue)
      BY <2>3
    <3>2. CASE queue' = Append(queue, x)
      BY <2>1, <2>2, <2>3, <3>1, <3>2
    <3>3. CASE queue' # Append(queue, x)
      BY <2>1, <2>3, <3>1, <3>3
    <3> QED BY <3>2, <3>3
  <2>4. CASE queue' = Append(queue, x)
    <3>1. Elems(queue') = Elems(queue) \cup {x}
      BY <2>2, <2>4
    <3> QED BY <2>2, <2>4, <3>1
  <2> QED BY <2>3, <2>4
<1>2. \A y \in Elems(queue') : y.ev = "store" => y.key \in db'
  BY <1>1 DEF Timed
<1>3. DOMAIN searches' \subseteq Routers /\ timers' \subseteq Routers
  BY DEF Timed
<1>4. SearchIsTimed'
  BY <1>1 DEF Timed, SearchIsTimed, Queued
<1> QED BY <1>1, <1>2, <1>3, <1>4 DEF Timed

\* A received message posts the handler of its type.
LEMMA MessagesAreEvents ==
    ASSUME NEW r \in Routers, NEW m \in Messages(r)
    PROVE  m \in Events /\ m.ev # "store"
<1>1. CASE m = Event("DeliveryStatus", r, r, <<>>)
  BY <1>1 DEF Event, Events, EventNames
<1>2. CASE \E k \in Routers : m = Event("DB_STORE", r, k, <<>>)
  BY <1>2 DEF Event, Events, EventNames
<1>3. CASE \E k \in Routers, hs \in Replies : m = Event("DB_SEARCH_REPLY", r, k, hs)
  BY <1>3, RoutersAssumption DEF Event, Events, EventNames
<1> QED BY <1>1, <1>2, <1>3 DEF Messages

\* The invariant survives every step.
LEMMA NextTimed == Timed /\ [Next]_vars => Timed'
<1> SUFFICES ASSUME Timed, [Next]_vars PROVE Timed'
  OBVIOUS
<1>1. \A ev \in EventNames, r \in Routers :
         Signal(ev, r) \in Events /\ Signal(ev, r).ev = ev
  BY DEF Signal, Event, Events
<1>2. CASE Handle
  BY <1>2, HandleKeepsTimed
<1>3. CASE UNCHANGED <<searches, timers, db, queue>>
  BY <1>3 DEF Timed, SearchIsTimed, Queued
<1>4. ASSUME NEW r \in Routers, Send(r) PROVE Timed'
  <2>1. queue \in Seq(Events) /\ SendMessage(r, searches, pending, queue, FALSE) /\ db' = db
    BY <1>4, Zenon DEF Send, Timed
  <2>2. /\ queue' = queue \/ queue' = Append(queue, Signal("failure", r))
        /\ \/ DOMAIN searches' = DOMAIN searches /\ timers' = timers
           \/ DOMAIN searches' = DOMAIN searches \cup {r} /\ timers' = timers \cup {r}
    BY <2>1, SendMessageChanges, Zenon
  <2>3. Signal("failure", r) \in Events /\ Signal("failure", r).ev = "failure"
    BY <1>1 DEF EventNames
  <2> QED BY <2>1, <2>2, <2>3, PostKeepsTimed, Zenon
<1>5. ASSUME NEW r \in Routers, MessageReceived(r) PROVE Timed'
  <2>1. PICK m \in Messages(r) : Post(m)
    BY <1>5 DEF MessageReceived
  <2>2. m \in Events /\ m.ev # "store"
    BY <1>5, <2>1, MessagesAreEvents
  <2> QED BY <2>1, <2>2, PostKeepsTimed DEF Post
<1>6. ASSUME NEW r \in Routers, ConnectionEstablished(r) \/ ConnectionFailure(r) PROVE Timed'
  <2>1. PICK x \in {Signal("connected", r), Signal("failed", r)} : Post(x)
    BY <1>6 DEF ConnectionEstablished, ConnectionFailure
  <2>2. x \in Events /\ x.ev # "store"
    BY <1>1 DEF EventNames
  <2> QED BY <2>1, <2>2, PostKeepsTimed DEF Post
<1>7. ASSUME NEW r \in Routers, Expire(r) PROVE Timed'
  <2> DEFINE x == Event("timeout", r, r, <<>>)
  <2>1. x \in Events /\ x.ev # "store"
    BY DEF Event, Events, EventNames
  <2>2. /\ queue' = Append(queue, x) /\ timers' = timers \ {r}
        /\ searches' = searches /\ db' = db
    BY <1>7 DEF Expire
  <2> HIDE DEF x
  <2> QED BY <2>1, <2>2, PostKeepsTimed, Zenon DEF x
<1>8. CASE CleanupNegative \/ PeerManagerCallback \/ UNCHANGED vars
           \/ \E r \in Routers : SessionUp(r) \/ SessionDown(r)
  BY <1>3, <1>8 DEF CleanupNegative, PeerManagerCallback, SessionUp, SessionDown, vars
<1> QED BY <1>2, <1>4, <1>5, <1>6, <1>7, <1>8 DEF Next

\* For every set of routers, every bucket and every queue bound, a search in
\* m_searches has its timer, running or with its handler queued.
THEOREM EverySearchTimed == Spec => []SearchIsTimed
<1>1. Timed => SearchIsTimed
  BY DEF Timed
<1> QED BY <1>1, InitTimed, NextTimed, PTL DEF Spec

\* A step of the dispatcher is a step of KeyLookup, or none of its business.
LEMMA HandleRefines ==
    Timed /\ Handle => Promise!LookupNext \/ UNCHANGED Promise!lookupVars
<1> SUFFICES ASSUME Timed, Handle
             PROVE  Promise!LookupNext \/ UNCHANGED Promise!lookupVars
  OBVIOUS
<1> DEFINE e == Head(queue)
           q == Tail(queue)
<1>1. e \in Events /\ q \in Seq(Events) /\ e \in Elems(queue)
  BY ElemsTail DEF Timed, Handle
<1>2. e.rh \in Routers /\ e.key \in Routers /\ (e.ev = "store" => e.key \in db)
  BY <1>1 DEF Events, Timed
<1>3. ASSUME NEW to \in Routers, NEW s, NEW p, NEW locked,
             DOMAIN s = DOMAIN searches, SendMessage(to, s, p, q, locked),
             UNCHANGED <<db, nlc>>
      PROVE  Promise!LookupNext \/ UNCHANGED Promise!lookupVars
  <2>1. \/ DOMAIN searches' = DOMAIN searches
        \/ /\ to \notin db \cup DOMAIN nlc \cup DOMAIN searches
           /\ DOMAIN searches' = DOMAIN searches \cup {to}
    BY <1>1, <1>3, SendMessageChanges, Zenon
  <2>2. CASE DOMAIN searches' = DOMAIN searches
    BY <1>3, <2>2 DEF Promise!lookupVars
  <2>3. CASE /\ to \notin db \cup DOMAIN nlc \cup DOMAIN searches
             /\ DOMAIN searches' = DOMAIN searches \cup {to}
    <3>1. Promise!Start(to)
      BY <1>3, <2>3 DEF Promise!Start
    <3> QED BY <3>1 DEF Promise!LookupNext
  <2> QED BY <2>1, <2>2, <2>3
<1>4. ASSUME NEW k \in Routers, Cancel(k, q), db' = db
      PROVE  Promise!LookupNext \/ UNCHANGED Promise!lookupVars
  <2>1. CASE DOMAIN searches' = DOMAIN searches /\ nlc' = nlc
    BY <1>4, <2>1 DEF Promise!lookupVars
  <2>2. CASE /\ k \in DOMAIN searches /\ DOMAIN searches' = DOMAIN searches \ {k}
             /\ DOMAIN nlc' = DOMAIN nlc \cup {k}
    <3>1. Promise!Fail(k)
      BY <1>4, <2>2 DEF Promise!Fail
    <3> QED BY <3>1 DEF Promise!LookupNext
  <2> QED BY <1>4, <2>1, <2>2, CancelChanges, Zenon
<1>5. ASSUME DOMAIN searches' = DOMAIN searches, db' = db, nlc' = nlc
      PROVE  Promise!LookupNext \/ UNCHANGED Promise!lookupVars
  BY <1>5 DEF Promise!lookupVars
<1>10. CASE HandleConnected(e.rh, q)
  <2>1. CASE searches' = searches
    BY <1>5, <1>10, <2>1 DEF HandleConnected
  <2>2. CASE \E g \in Asking(e.rh) :
                SendMessage(e.rh, [searches EXCEPT ![g].state = "LOOKUP_SENT"],
                            pending \ {e.rh}, q, TRUE)
    <3>1. PICK g \in Asking(e.rh) :
              SendMessage(e.rh, [searches EXCEPT ![g].state = "LOOKUP_SENT"],
                          pending \ {e.rh}, q, TRUE)
      BY <2>2, Zenon
    <3>2. DOMAIN [searches EXCEPT ![g].state = "LOOKUP_SENT"] = DOMAIN searches
      OBVIOUS
    <3>3. UNCHANGED <<db, nlc>>
      BY <1>10 DEF HandleConnected
    <3> QED BY <1>2, <1>3, <3>1, <3>2, <3>3, Zenon
  <2> QED BY <1>10, <2>1, <2>2, Zenon DEF HandleConnected
<1>11. CASE HandleFailed(e.rh, q)
  <2>1. CASE Asking(e.rh) = {}
    BY <1>5, <1>11, <2>1 DEF HandleFailed
  <2>2. CASE Asking(e.rh) # {}
    <3>1. PICK g \in Asking(e.rh) :
              IF Usable(searches[g]) = {}
              THEN Cancel(g, q) /\ UNCHANGED sess
              ELSE \E j \in Usable(searches[g]) :
                     /\ \A i \in Usable(searches[g]) : j <= i
                     /\ searches' = [searches EXCEPT ![g] = Advance(@, j)]
                     /\ Connect(searches[g].cands[j])
                     /\ queue' = q /\ UNCHANGED <<timers, nlc>>
      BY <1>11, <2>2, Zenon DEF HandleFailed
    <3>2. db' = db /\ g \in Routers
      BY <1>11 DEF HandleFailed, Asking, Timed
    <3>3. CASE Usable(searches[g]) = {}
      BY <3>1, <3>2, <3>3, <1>4
    <3>4. CASE Usable(searches[g]) # {}
      <4>1. nlc' = nlc /\ DOMAIN searches' = DOMAIN searches
        BY <3>1, <3>4
      <4> QED BY <4>1, <3>2, <1>5
    <3> QED BY <3>3, <3>4
  <2> QED BY <2>1, <2>2
<1>12. CASE HandleReply(e.rh, e.key, e.hashes, q)
  <2> DEFINE s == AddAlternates(searches[e.key], e.hashes)
             n == Advance(s, s.pos + 1)
             all == [searches EXCEPT ![e.key] = n]
  <2>1. CASE e.key \notin DOMAIN searches \/ searches[e.key].state # "LOOKUP_SENT"
    BY <1>5, <1>12, <2>1, Zenon DEF HandleReply
  <2>2. CASE /\ ~(e.key \notin DOMAIN searches \/ searches[e.key].state # "LOOKUP_SENT")
             /\ CountAlternates(s) = 0
    <3>1. Cancel(e.key, q) /\ db' = db
      BY <1>12, <2>2 DEF HandleReply
    <3> QED BY <3>1, <1>2, <1>4, Zenon
  <2>3. CASE /\ ~(e.key \notin DOMAIN searches \/ searches[e.key].state # "LOOKUP_SENT")
             /\ CountAlternates(s) # 0
    <3> HIDE DEF all
    <3>0. DOMAIN all = DOMAIN searches
      BY DEF all
    <3>1. /\ UNCHANGED <<db, nlc>>
          /\ \/ searches' = all
             \/ SendMessage(e.rh, all, pending, q, TRUE)
      BY <1>12, <2>3, Zenon DEF HandleReply, all
    <3>2. CASE searches' = all
      BY <3>0, <3>1, <3>2, <1>5
    <3>3. CASE SendMessage(e.rh, all, pending, q, TRUE)
      BY <3>0, <3>1, <3>3, <1>2, <1>3, Zenon
    <3> QED BY <3>1, <3>2, <3>3, Zenon
  <2> QED BY <2>1, <2>2, <2>3
<1>13. CASE e.ev = "store" /\ HandleStore(e.rh, e.key, q)
  <2>1. CASE e.key \in DOMAIN searches
    <3>1. Promise!Found(e.key)
      BY <1>2, <1>13, <2>1 DEF HandleStore, Without, Promise!Found
    <3> QED BY <1>2, <3>1 DEF Promise!LookupNext
  <2>2. CASE e.key \notin DOMAIN searches
    BY <1>5, <1>13, <2>2 DEF HandleStore
  <2> QED BY <2>1, <2>2
<1>14. CASE HandleTimeout(e.key, q)
  BY <1>2, <1>4, <1>14 DEF HandleTimeout
<1>15. CASE HandleSuccess(e.key, q) \/ HandleFailure(e.key, q)
            \/ HandleDatabaseSearchReply(e.rh, e.key, e.hashes, q)
  BY <1>5, <1>15 DEF HandleSuccess, HandleFailure, HandleDatabaseSearchReply
<1>16. CASE HandleDeliveryStatus(e.rh, q)
  BY <1>2, <1>3, <1>16, Zenon DEF HandleDeliveryStatus
<1>17. CASE HandleDatabaseStore(e.rh, e.key, q)
  <2>1. Promise!Learn(e.key)
    BY <1>17 DEF HandleDatabaseStore, Promise!Learn
  <2> QED BY <1>2, <2>1 DEF Promise!LookupNext
<1> QED BY <1>10, <1>11, <1>12, <1>13, <1>14, <1>15, <1>16, <1>17 DEF Handle

\* The code implements the safety part of KeyLookup: no lookup is started for
\* a router that is known, looked up or cached as not found, and one that
\* ends is found with its RouterInfo in the database or cached as failed.
THEOREM LookupsKeepPromise == Spec => Promise!LookupSafety
<1>1. Init => Promise!LookupInit
  BY RoutersAssumption DEF Init, Promise!LookupInit
<1>2. Timed /\ [Next]_vars => [Promise!LookupNext]_Promise!lookupVars
  <2> SUFFICES ASSUME Timed, [Next]_vars
               PROVE  Promise!LookupNext \/ UNCHANGED Promise!lookupVars
    OBVIOUS
  <2>1. CASE Handle
    BY <2>1, HandleRefines
  <2>2. CASE UNCHANGED <<searches, db, nlc>>
    BY <2>2 DEF Promise!lookupVars
  <2>3. ASSUME NEW r \in Routers, Send(r)
        PROVE  Promise!LookupNext \/ UNCHANGED Promise!lookupVars
    <3>1. SendMessage(r, searches, pending, queue, FALSE) /\ UNCHANGED <<db, nlc>>
            /\ queue \in Seq(Events)
      BY <2>3, Zenon DEF Send, Timed
    <3>2. \/ DOMAIN searches' = DOMAIN searches
          \/ /\ r \notin db \cup DOMAIN nlc \cup DOMAIN searches
             /\ DOMAIN searches' = DOMAIN searches \cup {r}
      BY <3>1, SendMessageChanges, Zenon
    <3> QED BY <3>1, <3>2, Zenon DEF Promise!lookupVars, Promise!LookupNext, Promise!Start
  <2>4. CASE CleanupNegative
    <3>1. DOMAIN nlc' \subseteq DOMAIN nlc /\ UNCHANGED <<searches, db>>
      BY <2>4 DEF CleanupNegative
    <3>2. Promise!Forget
      BY <3>1 DEF Promise!Forget
    <3> QED BY <3>2 DEF Promise!LookupNext
  <2>5. CASE PeerManagerCallback \/ UNCHANGED vars
             \/ \E r \in Routers : \/ SessionUp(r) \/ SessionDown(r) \/ MessageReceived(r)
                                    \/ ConnectionEstablished(r) \/ ConnectionFailure(r)
                                    \/ Expire(r)
    BY <2>2, <2>5, Zenon DEF PeerManagerCallback, SessionUp, SessionDown, MessageReceived,
                      ConnectionEstablished, ConnectionFailure, Expire, Post, vars
  <2> QED BY <2>1, <2>3, <2>4, <2>5 DEF Next
<1> QED BY <1>1, <1>2, InitTimed, NextTimed, PTL DEF Spec, Promise!LookupSafety

-----------------------------------------------------------------------------
(* No message is forgotten.                                                  *)

\* The inductive invariant: every search is timed, the sessions are a table of
\* the routers, and something is to come for every message that waits.
Waits ==
    /\ Timed
    /\ pending \subseteq Routers
    /\ sess = [r \in Routers |-> sess[r]]
    /\ NothingForgotten

\* What a step has to do for the messages that wait after it: one that is new is
\* for a router without a session, and one that waited keeps what is to come.
LEMMA WaitsStep ==
    ASSUME NothingForgotten,
           \A r \in pending' :
             \/ r \in pending
             \/ /\ ~Connected(r)
                /\ stuck' \/ r \in db' \/ r \in DOMAIN searches' \/ Queued(Signal("failure", r))',
           \A r \in pending' : sess'[r] = "announced" =>
             sess[r] = "announced" \/ Queued(Signal("connected", r))',
           \A r \in pending' : r \in pending =>
             /\ Queued(Signal("failure", r)) => Queued(Signal("failure", r))'
             /\ Connected(r) /\ Queued(Signal("connected", r)) => Queued(Signal("connected", r))',
           \A r \in DOMAIN searches :
             r \in DOMAIN searches' \/ r \in db' \/ Queued(Signal("failure", r))',
           db \subseteq db', stuck => stuck'
    PROVE  NothingForgotten'
<1>1. UnknownIsLookedUp'
  <2> SUFFICES ASSUME ~stuck', NEW r \in pending' \ db'
               PROVE  r \in DOMAIN searches' \/ Queued(Signal("failure", r))'
    BY Zenon DEF UnknownIsLookedUp
  <2>1. ~stuck /\ r \notin db /\ r \notin db'
    BY Zenon
  <2>2. CASE r \in pending
    <3>1. r \in DOMAIN searches \/ Queued(Signal("failure", r))
      BY <2>1, <2>2, Zenon DEF NothingForgotten, UnknownIsLookedUp
    <3> QED BY <2>1, <2>2, <3>1, Zenon
  <2>3. CASE r \notin pending
    BY <2>1, <2>3, Zenon
  <2> QED BY <2>2, <2>3
<1>2. NoneLeftBehind'
  <2> SUFFICES ASSUME NEW r \in pending', sess'[r] = "announced"
               PROVE  Queued(Signal("connected", r))'
    BY Zenon DEF NoneLeftBehind
  <2>1. CASE sess[r] = "announced"
    <3>1. Connected(r)
      BY <2>1, Zenon DEF Connected
    <3>2. r \in pending
      BY <3>1, Zenon
    <3>3. Queued(Signal("connected", r))
      BY <2>1, <3>2, Zenon DEF NothingForgotten, NoneLeftBehind
    <3> QED BY <3>1, <3>2, <3>3, Zenon
  <2> QED BY <2>1, Zenon
<1> QED BY <1>1, <1>2, Zenon DEF NothingForgotten

\* connect() announces no session.
LEMMA ConnectAnnounces ==
    ASSUME sess = [r \in Routers |-> sess[r]], NEW x, Connect(x) \/ sess' = sess
    PROVE  /\ sess' = [r \in Routers |-> sess'[r]]
           /\ \A r \in Routers : sess'[r] = "announced" => sess[r] = "announced"
BY DEF Connect

\* What sendMessage leaves: a message waits only for a router without a session,
\* that is in the database, looked up or cached as not found, unless createSearch
\* waits for the mutex of its caller.
LEMMA SendMessageWaits ==
    ASSUME sess = [r \in Routers |-> sess[r]], ~stuck,
           NEW to \in Routers, NEW s, NEW p, NEW q, NEW locked,
           DOMAIN s = DOMAIN searches, SendMessage(to, s, p, q, locked)
    PROVE  /\ sess' = [r \in Routers |-> sess'[r]]
           /\ \A r \in Routers : sess'[r] = "announced" => sess[r] = "announced"
           /\ pending' \subseteq p \cup {to}
           /\ Connected(to) => pending' = p
           /\ to \in pending' =>
                \/ to \in p \/ stuck' \/ to \in db \/ to \in DOMAIN searches'
                \/ queue' = Append(q, Signal("failure", to))
           /\ DOMAIN searches \subseteq DOMAIN searches'
<1>1. CASE Connected(to)
  BY <1>1 DEF SendMessage
<1>2. CASE ~Connected(to) /\ to \in db
  <2>1. Connect(to) /\ pending' = p \cup {to} /\ searches' = s
    BY <1>2 DEF SendMessage
  <2> QED BY <1>2, <2>1, ConnectAnnounces
<1>3. CASE ~Connected(to) /\ to \notin db
  <2>1. Lookup(to, s, p, q, locked)
    BY <1>3 DEF SendMessage
  <2>2. CASE StartingPoints[to] = <<>>
    <3>1. pending' = p \ {to} /\ searches' = s /\ sess' = sess
      BY <2>1, <2>2 DEF Lookup
    <3> QED BY <1>3, <3>1
  <2>3. CASE StartingPoints[to] # <<>>
    <3>1. CreateSearch(to, s, q, locked) /\ pending' \subseteq p \cup {to}
      BY <2>1, <2>3 DEF Lookup
    <3>2. Connect(StartingPoints[to][1]) \/ sess' = sess
      BY <3>1 DEF CreateSearch
    <3>3. /\ DOMAIN searches \subseteq DOMAIN searches'
          /\ \/ stuck' \/ to \in DOMAIN searches'
             \/ queue' = Append(q, Signal("failure", to))
      <4>1. CASE to \in DOMAIN nlc
        BY <3>1, <4>1 DEF CreateSearch
      <4>2. CASE to \notin DOMAIN nlc /\ (locked \/ to \in DOMAIN s)
        BY <3>1, <4>2 DEF CreateSearch
      <4>3. CASE to \notin DOMAIN nlc /\ ~(locked \/ to \in DOMAIN s)
        <5>1. searches' = With(s, to, NewSearch(StartingPoints[to]))
          BY <3>1, <4>3 DEF CreateSearch
        <5>2. DOMAIN searches' = DOMAIN s \cup {to}
          BY <5>1 DEF With
        <5> QED BY <5>2
      <4> QED BY <4>1, <4>2, <4>3
    <3> QED BY <1>3, <3>1, <3>2, <3>3, ConnectAnnounces, Zenon
  <2> QED BY <2>2, <2>3
<1> QED BY <1>1, <1>2, <1>3

\* What a handler posts is queued behind what was.
LEMMA PostedBehind ==
    ASSUME NEW q \in Seq(Events)
    PROVE  \A y \in Events : Elems(Append(q, y)) = Elems(q) \cup {y}
  BY ElemsAppend

\* The invariant survives a handler that posts one event at most, takes no
\* session for announced, and ends a search with its failure posted or its
\* router known, if the handlers of the two signals leave nothing behind.
LEMMA HandlerWaits ==
    ASSUME Waits, queue # <<>>, ~stuck, db \subseteq db',
           NEW x \in Events, NEW q, q = Tail(queue), queue' = q \/ queue' = Append(q, x),
           \A r \in Routers : sess'[r] = "announced" => sess[r] = "announced",
           \A r \in pending' :
             \/ r \in pending
             \/ /\ r \in Routers /\ ~Connected(r)
                /\ \/ stuck' \/ r \in db' \/ r \in DOMAIN searches'
                   \/ queue' = Append(q, Signal("failure", r)),
           \A r \in DOMAIN searches :
             \/ r \in DOMAIN searches' \/ r \in db'
             \/ queue' = Append(q, Signal("failure", r)),
           Head(queue).ev = "failure" => Head(queue).key \notin pending',
           Head(queue).ev = "connected" =>
             Head(queue).rh \notin pending' \/ ~Connected(Head(queue).rh)
    PROVE  NothingForgotten'
<1>1. /\ Tail(queue) \in Seq(Events) /\ Elems(queue) = {Head(queue)} \cup Elems(Tail(queue))
      /\ DOMAIN searches \subseteq Routers /\ pending \subseteq Routers
  BY ElemsTail DEF Waits, Timed
<1>2. \A ev, r : Signal(ev, r).ev = ev /\ Signal(ev, r).key = r /\ Signal(ev, r).rh = r
  BY DEF Signal, Event
<1>3. q \in Seq(Events) /\ Elems(queue) = {Head(queue)} \cup Elems(q)
  BY <1>1, Zenon
<1>3a. \A y \in Events : Elems(Append(q, y)) = Elems(q) \cup {y}
  BY <1>3, PostedBehind, Zenon
<1>3b. \A y \in Elems(queue) : y # Head(queue) => y \in Elems(queue')
  <2>1. \A y \in Elems(q) : y \in Elems(queue')
    BY <1>3a, Zenon
  <2> QED BY <1>3, <2>1, Zenon
<1>4. ASSUME NEW r \in Routers, queue' = Append(q, Signal("failure", r))
      PROVE  Queued(Signal("failure", r))'
  <2>1. Signal("failure", r) \in Events
    BY DEF Signal, Event, Events, EventNames
  <2>2. Signal("failure", r) \in Elems(queue')
    BY <1>3a, <1>4, <2>1, Zenon
  <2> QED BY <2>2, Zenon DEF Queued
<1>5. ASSUME NEW r \in pending', r \in pending
      PROVE  /\ Queued(Signal("failure", r)) => Queued(Signal("failure", r))'
             /\ Connected(r) /\ Queued(Signal("connected", r)) => Queued(Signal("connected", r))'
  <2>1. ASSUME Queued(Signal("failure", r)) PROVE Queued(Signal("failure", r))'
    <3>1. PICK y : y = Signal("failure", r)
      BY Zenon
    <3>2. y \in Elems(queue) /\ y.ev = "failure" /\ y.key = r
      BY <1>2, <2>1, <3>1, Zenon DEF Queued
    <3>3. y \in Elems(queue')
      BY <1>3b, <3>2, Zenon
    <3> QED BY <3>1, <3>3, Zenon DEF Queued
  <2>2. ASSUME Connected(r), Queued(Signal("connected", r))
        PROVE  Queued(Signal("connected", r))'
    <3>1. PICK y : y = Signal("connected", r)
      BY Zenon
    <3>2. y \in Elems(queue) /\ y.ev = "connected" /\ y.rh = r
      BY <1>2, <2>2, <3>1, Zenon DEF Queued
    <3>3. y \in Elems(queue')
      BY <1>3b, <2>2, <3>2, Zenon
    <3> QED BY <3>1, <3>3, Zenon DEF Queued
  <2> QED BY <2>1, <2>2, Zenon
<1>6. \A r \in pending' : r \in Routers
  BY <1>1, Zenon
<1>7. \A r \in pending' :
        \/ r \in pending
        \/ /\ ~Connected(r)
           /\ stuck' \/ r \in db' \/ r \in DOMAIN searches' \/ Queued(Signal("failure", r))'
  BY <1>4, <1>6, Zenon
<1>8. \A r \in DOMAIN searches :
        r \in DOMAIN searches' \/ r \in db' \/ Queued(Signal("failure", r))'
  BY <1>1, <1>4, Zenon
<1>9. \A r \in pending' : sess'[r] = "announced" => sess[r] = "announced"
  BY <1>6, Zenon
<1>10. NothingForgotten
  BY Zenon DEF Waits
<1> QED BY <1>5, <1>7, <1>8, <1>9, <1>10, WaitsStep, Zenon

\* The invariant survives every handler.
LEMMA HandleKeepsWaits == Waits /\ Handle => Waits'
<1> SUFFICES ASSUME Waits, Handle PROVE Waits'
  OBVIOUS
<1>1. PICK e : e = Head(queue)
  OBVIOUS
<1>2. PICK q : q = Tail(queue)
  BY Zenon
<1>3. /\ queue # <<>> /\ ~stuck /\ Timed /\ Timed'
      /\ pending \subseteq Routers /\ sess = [r \in Routers |-> sess[r]]
  BY HandleKeepsTimed DEF Handle, Waits
<1>4. e \in Events /\ e.rh \in Routers /\ e.key \in Routers
  <2>1. e \in Events
    BY <1>1, <1>3, ElemsTail DEF Timed
  <2> QED BY <2>1 DEF Events
<1>5. \A ev \in EventNames, r \in Routers : Signal(ev, r) \in Events
  BY DEF Signal, Event, Events
<1>6. DOMAIN searches \subseteq Routers /\ (e.ev = "store" => e.key \in db)
  BY <1>1, <1>3, ElemsTail DEF Timed
<1>7. ASSUME NEW x \in Events, queue' = q \/ queue' = Append(q, x), db \subseteq db',
             UNCHANGED sess \/ \E r : Connect(r), pending' \subseteq pending,
             \A r \in DOMAIN searches :
               \/ r \in DOMAIN searches' \/ r \in db'
               \/ queue' = Append(q, Signal("failure", r)),
             e.ev = "failure" => e.key \notin pending',
             e.ev = "connected" => e.rh \notin pending'
      PROVE  Waits'
  <2>1. /\ sess' = [r \in Routers |-> sess'[r]]
        /\ \A r \in Routers : sess'[r] = "announced" => sess[r] = "announced"
    BY <1>3, <1>7, ConnectAnnounces
  <2>2. NothingForgotten'
    BY <1>1, <1>2, <1>3, <1>7, <2>1, HandlerWaits, Zenon
  <2> QED BY <1>3, <1>7, <2>1, <2>2 DEF Waits
<1>8. ASSUME NEW to \in Routers, NEW s, NEW p, p \subseteq pending, NEW locked,
             DOMAIN s = DOMAIN searches, SendMessage(to, s, p, q, locked), db' = db,
             e.ev # "failure", e.ev = "connected" => to = e.rh /\ to \notin p
      PROVE  Waits'
  <2>1. /\ sess' = [r \in Routers |-> sess'[r]]
        /\ \A r \in Routers : sess'[r] = "announced" => sess[r] = "announced"
        /\ pending' \subseteq p \cup {to} /\ (Connected(to) => pending' = p)
        /\ to \in pending' =>
             \/ to \in p \/ stuck' \/ to \in db \/ to \in DOMAIN searches'
             \/ queue' = Append(q, Signal("failure", to))
        /\ DOMAIN searches \subseteq DOMAIN searches'
    BY <1>3, <1>8, SendMessageWaits, Zenon
  <2>2. queue' = q \/ queue' = Append(q, Signal("failure", to))
    <3>1. q \in Seq(Events)
      BY <1>2, <1>3, ElemsTail DEF Timed
    <3> QED BY <1>8, <3>1, SendMessageChanges, Zenon
  <2>3. Signal("failure", to) \in Events
    BY <1>5 DEF EventNames
  <2>4. \A r \in pending' :
          \/ r \in pending
          \/ /\ r \in Routers /\ ~Connected(r)
             /\ \/ stuck' \/ r \in db' \/ r \in DOMAIN searches'
                \/ queue' = Append(q, Signal("failure", r))
    <3> SUFFICES ASSUME NEW r \in pending', r \notin pending
                 PROVE  /\ r \in Routers /\ ~Connected(r)
                        /\ \/ stuck' \/ r \in db' \/ r \in DOMAIN searches'
                           \/ queue' = Append(q, Signal("failure", r))
      BY Zenon
    <3>1. r = to /\ to \notin p
      BY <1>8, <2>1
    <3> QED BY <1>8, <2>1, <3>1
  <2>5. e.ev = "connected" => e.rh \notin pending' \/ ~Connected(e.rh)
    BY <1>8, <2>1, Zenon
  <2>6. NothingForgotten'
    BY <1>1, <1>2, <1>3, <1>8, <2>1, <2>2, <2>3, <2>4, <2>5, HandlerWaits, Zenon
  <2> QED BY <1>3, <1>8, <2>1, <2>6 DEF Waits
<1>9. ASSUME NEW k \in Routers, Cancel(k, q), db' = db, pending' = pending, sess' = sess,
             e.ev \notin {"failure", "connected"}
      PROVE  Waits'
  <2>1. /\ queue' = q \/ queue' = Append(q, Signal("failure", k))
        /\ \A r \in DOMAIN searches :
             r \in DOMAIN searches' \/ queue' = Append(q, Signal("failure", r))
    BY <1>9 DEF Cancel, Without
  <2>2. Signal("failure", k) \in Events
    BY <1>5 DEF EventNames
  <2> QED BY <1>7, <1>9, <2>1, <2>2, Zenon
<1>10. CASE e.ev = "connected" /\ HandleConnected(e.rh, q)
  <2>1. CASE /\ pending' = pending \ {e.rh} /\ queue' = q
             /\ UNCHANGED <<searches, sess, db>>
    <3>1. Signal("failure", e.rh) \in Events
      BY <1>4, <1>5 DEF EventNames
    <3> QED BY <1>7, <1>10, <2>1, <3>1
  <2>2. CASE /\ db' = db
             /\ \E g \in Asking(e.rh) :
                   SendMessage(e.rh, [searches EXCEPT ![g].state = "LOOKUP_SENT"],
                               pending \ {e.rh}, q, TRUE)
    <3>1. PICK g \in Asking(e.rh) :
              SendMessage(e.rh, [searches EXCEPT ![g].state = "LOOKUP_SENT"],
                          pending \ {e.rh}, q, TRUE)
      BY <2>2, Zenon
    <3>2. DOMAIN [searches EXCEPT ![g].state = "LOOKUP_SENT"] = DOMAIN searches
      OBVIOUS
    <3>3. PICK p : p = pending \ {e.rh}
      BY Zenon
    <3>4. p \subseteq pending /\ e.rh \notin p
      BY <3>3
    <3> QED BY <1>4, <1>8, <1>10, <2>2, <3>1, <3>2, <3>3, <3>4, Zenon
  <2> QED BY <1>10, <2>1, <2>2, Zenon DEF HandleConnected
<1>11. CASE e.ev = "failed" /\ HandleFailed(e.rh, q)
  <2>1. CASE Asking(e.rh) = {}
    BY <1>4, <1>7, <1>11, <2>1 DEF HandleFailed
  <2>2. CASE Asking(e.rh) # {}
    <3>1. PICK g \in Asking(e.rh) :
              IF Usable(searches[g]) = {}
              THEN Cancel(g, q) /\ UNCHANGED sess
              ELSE \E j \in Usable(searches[g]) :
                     /\ \A i \in Usable(searches[g]) : j <= i
                     /\ searches' = [searches EXCEPT ![g] = Advance(@, j)]
                     /\ Connect(searches[g].cands[j])
                     /\ queue' = q /\ UNCHANGED <<timers, nlc>>
      BY <1>11, <2>2 DEF HandleFailed
    <3>2. db' = db /\ pending' = pending /\ g \in Routers
      BY <1>6, <1>11 DEF HandleFailed, Asking
    <3>3. CASE Usable(searches[g]) = {}
      BY <1>9, <1>11, <3>1, <3>2, <3>3
    <3>4. CASE Usable(searches[g]) # {}
      <4>1. queue' = q /\ DOMAIN searches' = DOMAIN searches /\ \E r : Connect(r)
        BY <3>1, <3>4
      <4> QED BY <1>4, <1>7, <1>11, <3>2, <4>1
    <3> QED BY <3>3, <3>4
  <2> QED BY <2>1, <2>2
<1>12. CASE e.ev = "reply" /\ HandleReply(e.rh, e.key, e.hashes, q)
  <2>1. PICK s : s = AddAlternates(searches[e.key], e.hashes)
    OBVIOUS
  <2>2. PICK all : all = [searches EXCEPT ![e.key] = Advance(s, s.pos + 1)]
    BY Zenon
  <2>3. \/ queue' = q /\ UNCHANGED <<searches, pending, db, sess>>
        \/ Cancel(e.key, q) /\ UNCHANGED <<pending, db, sess>>
        \/ searches' = all /\ queue' = q /\ UNCHANGED <<pending, db>> /\ \E r : Connect(r)
        \/ SendMessage(e.rh, all, pending, q, TRUE) /\ db' = db
    BY <1>12, <2>1, <2>2, Zenon DEF HandleReply
  <2>4. DOMAIN all = DOMAIN searches
    BY <2>2
  <2>5. CASE queue' = q /\ UNCHANGED <<searches, pending, db, sess>>
    BY <1>4, <1>7, <1>12, <2>5
  <2>6. CASE Cancel(e.key, q) /\ UNCHANGED <<pending, db, sess>>
    BY <1>4, <1>9, <1>12, <2>6
  <2>7. CASE searches' = all /\ queue' = q /\ UNCHANGED <<pending, db>> /\ \E r : Connect(r)
    BY <1>4, <1>7, <1>12, <2>4, <2>7
  <2>8. CASE SendMessage(e.rh, all, pending, q, TRUE) /\ db' = db
    BY <1>4, <1>8, <1>12, <2>4, <2>8, Zenon
  <2> QED BY <2>3, <2>5, <2>6, <2>7, <2>8, Zenon
<1>13. CASE e.ev = "store" /\ HandleStore(e.rh, e.key, q)
  <2>1. CASE e.key \in DOMAIN searches
    <3>1. /\ queue' = Append(q, Signal("success", e.key)) /\ UNCHANGED <<db, pending, sess>>
          /\ DOMAIN searches' = DOMAIN searches \ {e.key}
      BY <1>13, <2>1 DEF HandleStore, Without
    <3>2. Signal("success", e.key) \in Events
      BY <1>4, <1>5 DEF EventNames
    <3>3. \A r \in DOMAIN searches : r \in DOMAIN searches' \/ r \in db'
      BY <1>6, <1>13, <3>1
    <3> QED BY <1>7, <1>13, <3>1, <3>2, <3>3
  <2>2. CASE e.key \notin DOMAIN searches
    <3>1. /\ queue' = q /\ UNCHANGED <<db, pending, searches>>
          /\ UNCHANGED sess \/ \E r : Connect(r)
      BY <1>13, <2>2 DEF HandleStore
    <3> QED BY <1>4, <1>7, <1>13, <3>1
  <2> QED BY <2>1, <2>2
<1>14. CASE e.ev = "timeout" /\ HandleTimeout(e.key, q)
  BY <1>4, <1>9, <1>14 DEF HandleTimeout
<1>15. CASE e.ev = "success" /\ HandleSuccess(e.key, q)
  <2>1. /\ queue' = q /\ UNCHANGED <<db, pending, searches>>
        /\ UNCHANGED sess \/ \E r : Connect(r)
    BY <1>15 DEF HandleSuccess
  <2> QED BY <1>4, <1>7, <1>15, <2>1
<1>16. CASE e.ev = "failure" /\ HandleFailure(e.key, q)
  <2>1. queue' = q /\ pending' = pending \ {e.key} /\ UNCHANGED <<db, searches, sess>>
    BY <1>16 DEF HandleFailure
  <2> QED BY <1>4, <1>7, <1>16, <2>1
<1>17. CASE e.ev = "DeliveryStatus" /\ HandleDeliveryStatus(e.rh, q)
  BY <1>4, <1>8, <1>17, Zenon DEF HandleDeliveryStatus
<1>18. CASE e.ev = "DB_STORE" /\ HandleDatabaseStore(e.rh, e.key, q)
  <2>1. Event("store", e.rh, e.key, <<>>) \in Events
    BY <1>4 DEF Event, Events, EventNames
  <2>2. /\ queue' = Append(q, Event("store", e.rh, e.key, <<>>)) /\ db \subseteq db'
        /\ UNCHANGED <<pending, searches, sess>>
    BY <1>18 DEF HandleDatabaseStore
  <2> QED BY <1>7, <1>18, <2>1, <2>2
<1>19. CASE e.ev = "DB_SEARCH_REPLY" /\ HandleDatabaseSearchReply(e.rh, e.key, e.hashes, q)
  <2>1. Event("reply", e.rh, e.key, e.hashes) \in Events
    BY <1>4 DEF Event, Events, EventNames
  <2>2. /\ queue' = Append(q, Event("reply", e.rh, e.key, e.hashes))
        /\ UNCHANGED <<db, pending, searches, sess>>
    BY <1>19 DEF HandleDatabaseSearchReply
  <2> QED BY <1>7, <1>19, <2>1, <2>2
<1> QED
  BY <1>1, <1>2, <1>10, <1>11, <1>12, <1>13, <1>14, <1>15, <1>16, <1>17, <1>18, <1>19, Zenon
     DEF Handle

\* The invariant survives a step that only adds to the queue, and announces a
\* session with the event of its connection.
LEMMA PostKeepsWaits ==
    ASSUME Waits, NEW x \in Events, queue' = queue \/ queue' = Append(queue, x),
           UNCHANGED <<searches, pending, db, stuck>>,
           sess' = [r \in Routers |-> sess'[r]],
           \A r \in Routers : sess'[r] = "announced" =>
             \/ sess[r] = "announced"
             \/ queue' = Append(queue, x) /\ x = Signal("connected", r)
    PROVE  NothingForgotten' /\ pending' \subseteq Routers
<1>1. queue \in Seq(Events) /\ NothingForgotten /\ pending \subseteq Routers
  BY DEF Waits, Timed
<1>2. Elems(Append(queue, x)) = Elems(queue) \cup {x}
  BY <1>1, ElemsAppend
<1>3. /\ \A y : Queued(y) => Queued(y)'
      /\ queue' = Append(queue, x) => Queued(x)'
  BY <1>2, Zenon DEF Queued
<1>4. \A r \in pending' : sess'[r] = "announced" =>
        sess[r] = "announced" \/ Queued(Signal("connected", r))'
  BY <1>1, <1>3
<1> QED BY <1>1, <1>3, <1>4, WaitsStep, Zenon

\* The invariant survives every step.
LEMMA NextWaits == Waits /\ [Next]_vars => Waits'
<1> SUFFICES ASSUME Waits, [Next]_vars PROVE Waits'
  OBVIOUS
<1>1. /\ Timed /\ Timed' /\ queue \in Seq(Events) /\ pending \subseteq Routers
      /\ sess = [r \in Routers |-> sess[r]]
  BY NextTimed DEF Waits, Timed
<1>2. \A ev \in EventNames, r \in Routers : Signal(ev, r) \in Events
  BY DEF Signal, Event, Events
<1>3. CASE Handle
  BY <1>3, HandleKeepsWaits
<1>4. ASSUME NEW to \in Routers, Send(to) PROVE Waits'
  <2>1. /\ SendMessage(to, searches, pending, queue, FALSE) /\ db' = db /\ ~stuck
    BY <1>4, Zenon DEF Send
  <2>2. queue' = queue \/ queue' = Append(queue, Signal("failure", to))
    BY <1>1, <2>1, SendMessageChanges, Zenon
  <2>3. /\ sess' = [r \in Routers |-> sess'[r]]
        /\ \A r \in Routers : sess'[r] = "announced" => sess[r] = "announced"
        /\ pending' \subseteq pending \cup {to} /\ (Connected(to) => pending' = pending)
        /\ to \in pending' =>
             \/ to \in pending \/ stuck' \/ to \in db \/ to \in DOMAIN searches'
             \/ queue' = Append(queue, Signal("failure", to))
        /\ DOMAIN searches \subseteq DOMAIN searches'
    BY <1>1, <2>1, SendMessageWaits, Zenon
  <2>4. Elems(Append(queue, Signal("failure", to))) = Elems(queue) \cup {Signal("failure", to)}
    <3>1. Signal("failure", to) \in Events
      BY <1>2 DEF EventNames
    <3> QED BY <1>1, <3>1, ElemsAppend
  <2>5. /\ \A y : Queued(y) => Queued(y)'
        /\ queue' = Append(queue, Signal("failure", to)) => Queued(Signal("failure", to))'
    BY <2>2, <2>4, Zenon DEF Queued
  <2>6. \A r \in pending' :
          \/ r \in pending
          \/ /\ ~Connected(r)
             /\ stuck' \/ r \in db' \/ r \in DOMAIN searches' \/ Queued(Signal("failure", r))'
    <3> SUFFICES ASSUME NEW r \in pending', r \notin pending
                 PROVE  /\ ~Connected(r)
                        /\ \/ stuck' \/ r \in db' \/ r \in DOMAIN searches'
                           \/ Queued(Signal("failure", r))'
      BY Zenon
    <3>1. r = to
      BY <2>3
    <3> QED BY <2>1, <2>3, <2>5, <3>1
  <2>7. pending' \subseteq Routers
    BY <1>1, <2>3
  <2>8. NothingForgotten /\ (\A r \in pending' : r \in Routers)
    BY <2>7 DEF Waits
  <2>9. NothingForgotten'
    BY <2>1, <2>3, <2>5, <2>6, <2>8, WaitsStep, Zenon
  <2> QED BY <1>1, <2>3, <2>7, <2>9 DEF Waits
<1>5. ASSUME NEW x \in Events, queue' = queue \/ queue' = Append(queue, x),
             UNCHANGED <<searches, pending, db, stuck>>,
             sess' = [k \in Routers |-> sess'[k]],
             \A k \in Routers : sess'[k] = "announced" =>
               \/ sess[k] = "announced"
               \/ queue' = Append(queue, x) /\ x = Signal("connected", k)
      PROVE  Waits'
  <2>1. NothingForgotten' /\ pending' \subseteq Routers
    BY <1>5, PostKeepsWaits
  <2> QED BY <1>1, <1>5, <2>1 DEF Waits
<1>6. ASSUME NEW r \in Routers, MessageReceived(r) PROVE Waits'
  <2>1. PICK m \in Messages(r) : Post(m)
    BY <1>6 DEF MessageReceived
  <2>2. queue' = Append(queue, m) /\ UNCHANGED <<searches, pending, db, stuck, sess>>
    BY <1>6, <2>1 DEF Post, MessageReceived
  <2>3. m \in Events
    BY <2>1, MessagesAreEvents
  <2> QED BY <1>1, <1>5, <2>2, <2>3
<1>7. ASSUME NEW r \in Routers, ConnectionEstablished(r) PROVE Waits'
  <2>1. /\ sess' = [sess EXCEPT ![r] = "announced"]
        /\ queue' = Append(queue, Signal("connected", r))
        /\ UNCHANGED <<searches, pending, db, stuck>>
    BY <1>7 DEF ConnectionEstablished, Post
  <2>2. Signal("connected", r) \in Events
    BY <1>2 DEF EventNames
  <2>3. /\ sess' = [k \in Routers |-> sess'[k]]
        /\ \A k \in Routers : sess'[k] = "announced" => sess[k] = "announced" \/ k = r
    BY <1>1, <2>1
  <2> QED BY <1>5, <2>1, <2>2, <2>3, Zenon
<1>8. ASSUME NEW r \in Routers, ConnectionFailure(r) PROVE Waits'
  <2>1. PICK v : /\ v # "announced" /\ sess' = [sess EXCEPT ![r] = v]
                 /\ queue' = Append(queue, Signal("failed", r))
                 /\ UNCHANGED <<searches, pending, db, stuck>>
    BY <1>8, Zenon DEF ConnectionFailure, Post
  <2>2. Signal("failed", r) \in Events
    BY <1>2 DEF EventNames
  <2>3. /\ sess' = [k \in Routers |-> sess'[k]]
        /\ \A k \in Routers : sess'[k] = "announced" => sess[k] = "announced"
    BY <1>1, <2>1
  <2> QED BY <1>5, <2>1, <2>2, <2>3, Zenon
<1>9. ASSUME NEW r \in Routers, Expire(r) PROVE Waits'
  <2>1. Event("timeout", r, r, <<>>) \in Events
    BY DEF Event, Events, EventNames
  <2>2. /\ queue' = Append(queue, Event("timeout", r, r, <<>>))
        /\ UNCHANGED <<searches, pending, db, stuck, sess>>
    BY <1>9 DEF Expire
  <2> QED BY <1>1, <1>5, <2>1, <2>2
<1>10. ASSUME NEW r \in Routers, SessionUp(r) \/ SessionDown(r) PROVE Waits'
  <2>1. queue' = queue /\ UNCHANGED <<searches, pending, db, stuck>>
    BY <1>10 DEF SessionUp, SessionDown
  <2>2. PICK v : v # "announced" /\ sess' = [sess EXCEPT ![r] = v]
    BY <1>10, Zenon DEF SessionUp, SessionDown
  <2>3. Signal("failed", r) \in Events
    BY <1>2 DEF EventNames
  <2>4. /\ sess' = [k \in Routers |-> sess'[k]]
        /\ \A k \in Routers : sess'[k] = "announced" => sess[k] = "announced"
    BY <1>1, <2>2
  <2> QED BY <1>5, <2>1, <2>3, <2>4, Zenon
<1>11. CASE UNCHANGED <<searches, pending, db, stuck, queue>> /\ (UNCHANGED sess \/ \E r : Connect(r))
  <2>1. /\ sess' = [r \in Routers |-> sess'[r]]
        /\ \A r \in Routers : sess'[r] = "announced" => sess[r] = "announced"
    BY <1>1, <1>11, ConnectAnnounces
  <2>2. NothingForgotten'
    <3>1. NothingForgotten /\ \A y : Queued(y) <=> Queued(y)'
      BY <1>11, Zenon DEF Waits, Queued
    <3>2. \A r \in pending' : sess'[r] = "announced" => sess[r] = "announced"
      BY <1>1, <1>11, <2>1
    <3> QED BY <1>11, <3>1, <3>2, WaitsStep, Zenon
  <2> QED BY <1>1, <1>11, <2>1, <2>2 DEF Waits
<1>12. CASE CleanupNegative \/ PeerManagerCallback \/ UNCHANGED vars
  BY <1>11, <1>12 DEF CleanupNegative, PeerManagerCallback, vars
<1> QED BY <1>3, <1>4, <1>6, <1>7, <1>8, <1>9, <1>10, <1>12 DEF Next

\* For every set of routers, bucket and bound: however lookups, sessions and
\* signals interleave, a message in m_pending always has a search or a signal
\* to come that sends it or tosses it.
THEOREM NoMessageForgotten == Spec => []NothingForgotten
<1>1. Init => Waits
  <2> SUFFICES ASSUME Init PROVE Waits
    OBVIOUS
  <2>1. pending = {} /\ sess = [r \in Routers |-> "none"]
    BY DEF Init
  <2> QED BY <2>1, InitTimed DEF Waits, NothingForgotten, UnknownIsLookedUp, NoneLeftBehind
<1>2. Waits => NothingForgotten
  BY DEF Waits
<1> QED BY <1>1, <1>2, NextWaits, PTL DEF Spec
-----------------------------------------------------------------------------
(* The candidates of a search.                                               *)

\* A search as SearchState keeps it: m_current points into the list.
Listed(s) ==
    /\ s = [state |-> s.state, cands |-> s.cands, pos |-> s.pos]
    /\ s.cands \in Seq(Elems(s.cands)) /\ s.pos \in 1 .. Len(s.cands)

\* t is further than s: what was tried stays as it is, and t connects again only
\* to a later candidate.
Further(s, t) ==
    /\ t.pos >= s.pos
    /\ SubSeq(t.cands, 1, s.pos) = SubSeq(s.cands, 1, s.pos)
    /\ t.state = "CONNECTING" /\ s.state = "LOOKUP_SENT" => t.pos > s.pos

\* The inductive invariant behind CandidatesAdvance.
Lists == Timed /\ \A g \in DOMAIN searches : Listed(searches[g])

\* What a step leaves of the searches: each is well formed, and further if it was
\* there before.
GoOn(new) ==
    \A g \in DOMAIN new :
       Listed(new[g]) /\ (g \in DOMAIN searches => Further(searches[g], new[g]))

\* A list with more behind it starts as before.
LEMMA SamePrefix ==
    ASSUME NEW S, NEW c \in Seq(S), NEW d \in Seq(S), NEW p \in 1 .. Len(c),
           Len(d) >= Len(c), \A i \in 1 .. Len(c) : d[i] = c[i]
    PROVE  SubSeq(d, 1, p) = SubSeq(c, 1, p)
<1>1. \A e \in Seq(S) : SubSeq(e, 1, p) = [i \in 1 .. p |-> e[i]]
  <2> SUFFICES ASSUME NEW e \in Seq(S)
               PROVE  SubSeq(e, 1, p) = [i \in 1 .. p |-> e[i]]
    OBVIOUS
  <2>1. SubSeq(e, 1, p) = [i \in 1 .. (1 + p - 1) |-> e[i + 1 - 1]]
    BY DEF SubSeq
  <2>2. 1 .. (1 + p - 1) = 1 .. p /\ \A i \in 1 .. p : i + 1 - 1 = i
    OBVIOUS
  <2> QED BY <2>1, <2>2
<1>2. \A i \in 1 .. p : i \in 1 .. Len(c)
  OBVIOUS
<1>3. [i \in 1 .. p |-> d[i]] = [i \in 1 .. p |-> c[i]]
  BY <1>2
<1> QED BY <1>1, <1>3

\* A list is a list of what is in it, and of anything more.
LEMMA ListOf ==
    ASSUME NEW c, NEW S, c \in Seq(S)
    PROVE  /\ c \in Seq(Elems(c))
           /\ \A T : Elems(c) \subseteq T => c \in Seq(T)
<1>1. DOMAIN c = 1 .. Len(c) /\ Len(c) \in Nat /\ c = [i \in 1 .. Len(c) |-> c[i]]
  OBVIOUS
<1>2. ASSUME NEW T, Elems(c) \subseteq T PROVE c \in Seq(T)
  <2>1. \A i \in 1 .. Len(c) : c[i] \in T
    BY <1>1, <1>2 DEF Elems
  <2>2. PICK n \in Nat : n = Len(c)
    BY <1>1
  <2>3. [i \in 1 .. n |-> c[i]] \in Seq(T)
    BY <2>1, <2>2
  <2> QED BY <1>1, <2>2, <2>3, Zenon
<1> QED BY <1>2

\* n values make a list of n.
LEMMA ListByIndex ==
    ASSUME NEW n \in Nat, NEW f, f = [i \in 1 .. n |-> f[i]]
    PROVE  f \in Seq(Elems(f)) /\ Len(f) = n
<1>1. \A i \in 1 .. n : f[i] \in Elems(f)
  BY DEF Elems
<1>2. [i \in 1 .. n |-> f[i]] \in Seq(Elems(f)) /\ Len([i \in 1 .. n |-> f[i]]) = n
  BY <1>1
<1> QED BY <1>2, Zenon

\* A set of places in a list has a size.
LEMMA PlacesCounted ==
    ASSUME NEW s, NEW S, NEW hs \in Seq(S)
    PROVE  Cardinality(NewPlaces(s, hs)) \in Nat
<1>1. NewPlaces(s, hs) \subseteq 1 .. Len(hs)
  BY DEF NewPlaces
<1>2. IsFiniteSet(1 .. Len(hs))
  <2>1. 1 \in Int /\ Len(hs) \in Int
    OBVIOUS
  <2> QED BY <2>1, FS_Interval
<1>3. IsFiniteSet(NewPlaces(s, hs))
  BY <1>1, <1>2, FS_Subset
<1> QED BY <1>3, FS_CardinalityType

\* One list behind another.
LEMMA ListBehind ==
    ASSUME NEW S, NEW c \in Seq(S), NEW T, NEW d \in Seq(T)
    PROVE  /\ c \o d \in Seq(S \cup T)
           /\ Len(c \o d) >= Len(c)
           /\ \A i \in 1 .. Len(c) : (c \o d)[i] = c[i]
<1>1. c \in Seq(S \cup T) /\ d \in Seq(S \cup T)
  BY ListOf DEF Elems
<1>2. Len(c) \in Nat /\ Len(d) \in Nat
  OBVIOUS
<1> QED BY <1>1, <1>2

\* addAlternate puts candidates behind the list and changes nothing else.
LEMMA AlternatesBehind ==
    ASSUME NEW s, Listed(s), NEW S, NEW hs \in Seq(S), NEW t, t = AddAlternates(s, hs)
    PROVE  /\ Listed(t) /\ t.state = s.state /\ t.pos = s.pos
           /\ SubSeq(t.cands, 1, s.pos) = SubSeq(s.cands, 1, s.pos)
<1>1. PICK n : n = Cardinality(NewPlaces(s, hs))
  OBVIOUS
<1>2. n \in Nat
  BY <1>1, PlacesCounted
<1> DEFINE order == CHOOSE f \in [1 .. n -> NewPlaces(s, hs)] :
                      \A i, j \in 1 .. n : i < j => f[i] < f[j]
<1>3. t = [s EXCEPT !.cands = s.cands \o [i \in 1 .. n |-> hs[order[i]]]]
  BY <1>1 DEF AddAlternates
<1> HIDE DEF order
<1>4. PICK f : f = [i \in 1 .. n |-> hs[order[i]]]
  BY Zenon
<1>5. f \in Seq(Elems(f))
  <2>1. f = [i \in 1 .. n |-> f[i]]
    BY <1>4
  <2> QED BY <1>2, <2>1, ListByIndex
<1>6. PICK c : c = s.cands
  OBVIOUS
<1>7. c \in Seq(Elems(c)) /\ s.pos \in 1 .. Len(c)
        /\ s = [state |-> s.state, cands |-> c, pos |-> s.pos]
  BY <1>6 DEF Listed
<1>8. t = [state |-> s.state, cands |-> c \o f, pos |-> s.pos]
  <2>1. PICK l : l = c \o f
    BY Zenon
  <2>2. t = [s EXCEPT !.cands = l]
    BY <1>3, <1>4, <1>6, <2>1, Zenon
  <2>3. t = [state |-> s.state, cands |-> l, pos |-> s.pos]
    BY <1>7, <2>2
  <2> QED BY <2>1, <2>3, Zenon
<1>9. PICK d : d = c \o f
  BY Zenon
<1>10. /\ d \in Seq(Elems(c) \cup Elems(f)) /\ Len(d) >= Len(c)
       /\ \A i \in 1 .. Len(c) : d[i] = c[i]
  BY <1>5, <1>7, <1>9, ListBehind
<1>11. SubSeq(d, 1, s.pos) = SubSeq(c, 1, s.pos)
  <2>1. c \in Seq(Elems(c) \cup Elems(f))
    BY <1>7, ListOf
  <2> QED BY <1>7, <1>10, <2>1, SamePrefix
<1>12. d \in Seq(Elems(d)) /\ s.pos \in 1 .. Len(d)
  <2>1. d \in Seq(Elems(d))
    BY <1>10, ListOf
  <2>2. Len(c) \in Nat /\ Len(d) \in Nat
    BY <1>7, <1>10
  <2> QED BY <1>7, <1>10, <2>1, <2>2
<1>13. t.state = s.state /\ t.pos = s.pos /\ t.cands = d
  BY <1>8, <1>9
<1>14. Listed(t)
  BY <1>8, <1>9, <1>12, <1>13 DEF Listed
<1> QED BY <1>6, <1>11, <1>13, <1>14, Zenon

\* A search that is left alone, and one whose lookup is sent.
LEMMA SentOrSame ==
    ASSUME NEW s, Listed(s)
    PROVE  /\ Further(s, s)
           /\ Listed([s EXCEPT !.state = "LOOKUP_SENT"])
           /\ Further(s, [s EXCEPT !.state = "LOOKUP_SENT"])
<1>1. s.pos \in Int
  BY DEF Listed
<1>2. PICK t : t = [s EXCEPT !.state = "LOOKUP_SENT"]
  BY Zenon
<1>3. /\ t = [state |-> "LOOKUP_SENT", cands |-> s.cands, pos |-> s.pos]
      /\ t.state = "LOOKUP_SENT" /\ t.cands = s.cands /\ t.pos = s.pos
  BY <1>2 DEF Listed
<1>4. Listed(t)
  BY <1>3 DEF Listed
<1>5. Further(s, t)
  BY <1>1, <1>3 DEF Further
<1>6. Further(s, s)
  BY <1>1 DEF Further
<1> QED BY <1>2, <1>4, <1>5, <1>6

\* popAlternate goes to a later candidate.
LEMMA AdvanceFurther ==
    ASSUME NEW s, Listed(s), NEW j \in s.pos + 1 .. Len(s.cands),
           NEW t, t = Advance(s, j)
    PROVE  /\ Listed(t) /\ t.cands = s.cands /\ t.pos > s.pos
           /\ t.pos = j /\ Further(s, t)
<1>1. s.pos \in Int /\ s.pos >= 1 /\ j > s.pos /\ j \in 1 .. Len(s.cands)
  BY DEF Listed
<1>2. /\ t = [state |-> "CONNECTING", cands |-> s.cands, pos |-> j]
      /\ t.state = "CONNECTING" /\ t.cands = s.cands /\ t.pos = j
  BY Zenon DEF Listed, Advance
<1>3. Listed(t)
  BY <1>1, <1>2 DEF Listed
<1>4. Further(s, t)
  BY <1>1, <1>2 DEF Further
<1> QED BY <1>1, <1>2, <1>3, <1>4

\* searchReply: the candidates of the reply behind the list, and on to the next.
LEMMA ReplyFurther ==
    ASSUME NEW s, Listed(s), NEW S, NEW hs \in Seq(S),
           NEW a, a = AddAlternates(s, hs), CountAlternates(a) # 0,
           NEW t, t = Advance(a, a.pos + 1)
    PROVE  Listed(t) /\ Further(s, t)
<1>1. /\ Listed(a) /\ a.state = s.state /\ a.pos = s.pos
      /\ SubSeq(a.cands, 1, s.pos) = SubSeq(s.cands, 1, s.pos)
  BY AlternatesBehind, Zenon
<1>2. a.pos \in Int /\ a.pos + 1 \in a.pos + 1 .. Len(a.cands)
  <2>1. a.pos \in 1 .. Len(a.cands) /\ Len(a.cands) \in Nat
    BY <1>1 DEF Listed
  <2> QED BY <2>1 DEF CountAlternates
<1>3. Listed(t) /\ t.cands = a.cands /\ t.pos > a.pos
  BY <1>1, <1>2, AdvanceFurther
<1>4. t.pos \in Int
  BY <1>3 DEF Listed
<1> QED BY <1>1, <1>2, <1>3, <1>4 DEF Further

\* createSearch begins with the first of the points.
LEMMA NewSearchListed ==
    ASSUME NEW S, NEW points \in Seq(S), points # <<>>
    PROVE  Listed(NewSearch(points))
<1>1. PICK l : l = <<Head(points)>>
  BY Zenon
<1>2. PICK s : s = [state |-> "CONNECTING", cands |-> l, pos |-> 1]
  BY Zenon
<1>3. l \in Seq({Head(points)}) /\ 1 \in 1 .. Len(l)
  BY <1>1
<1>4. l \in Seq(Elems(l))
  BY <1>3, ListOf, Zenon
<1>5. Listed(s)
  BY <1>2, <1>3, <1>4 DEF Listed
<1>6. Tail(points) \in Seq(S)
  OBVIOUS
<1>7. NewSearch(points) = AddAlternates(s, Tail(points))
  BY <1>1, <1>2, Zenon DEF NewSearch
<1> QED BY <1>5, <1>6, <1>7, AlternatesBehind, Zenon

\* One search goes on and the others stay.
LEMMA OneGoesOn ==
    ASSUME Lists, NEW g \in DOMAIN searches, NEW t, Listed(t), Further(searches[g], t)
    PROVE  GoOn([searches EXCEPT ![g] = t])
<1> SUFFICES ASSUME NEW h \in DOMAIN searches
             PROVE  LET u == [searches EXCEPT ![g] = t][h]
                    IN  Listed(u) /\ Further(searches[h], u)
  BY DEF GoOn
<1>1. Listed(searches[h]) /\ Further(searches[h], searches[h])
  BY SentOrSame, Zenon DEF Lists
<1>2. CASE h = g
  BY <1>2
<1>3. CASE h # g
  BY <1>1, <1>3
<1> QED BY <1>2, <1>3

\* All stay, or one of them ends.
LEMMA FewerGoOn ==
    ASSUME Lists, NEW k PROVE GoOn(searches) /\ GoOn(Without(searches, k))
<1>1. \A h \in DOMAIN searches : Listed(searches[h]) /\ Further(searches[h], searches[h])
  BY SentOrSame, Zenon DEF Lists
<1>2. /\ DOMAIN Without(searches, k) \subseteq DOMAIN searches
      /\ \A h \in DOMAIN Without(searches, k) : Without(searches, k)[h] = searches[h]
  BY DEF Without
<1> QED BY <1>1, <1>2, Zenon DEF GoOn

\* sendMessage may begin a search for a router that has none.
LEMMA SendGoesOn ==
    ASSUME NEW to \in Routers, NEW s, NEW p, NEW q, NEW locked,
           DOMAIN s = DOMAIN searches, GoOn(s), SendMessage(to, s, p, q, locked)
    PROVE  GoOn(searches')
<1>1. CASE searches' = s
  BY <1>1, Zenon
<1>2. CASE searches' # s
  <2>1. Lookup(to, s, p, q, locked)
    BY <1>2, Zenon DEF SendMessage
  <2>2. StartingPoints[to] # <<>> /\ CreateSearch(to, s, q, locked)
    BY <1>2, <2>1, Zenon DEF Lookup
  <2>3. to \notin DOMAIN s /\ searches' = With(s, to, NewSearch(StartingPoints[to]))
    BY <1>2, <2>2, Zenon DEF CreateSearch
  <2>4. Listed(NewSearch(StartingPoints[to]))
    <3>1. StartingPoints[to] \in Seq(Known)
      BY RoutersAssumption
    <3> QED BY <2>2, <3>1, NewSearchListed
  <2>5. /\ DOMAIN searches' = DOMAIN s \cup {to}
        /\ searches'[to] = NewSearch(StartingPoints[to])
        /\ \A h \in DOMAIN s : searches'[h] = s[h]
    BY <2>3 DEF With
  <2> SUFFICES ASSUME NEW h \in DOMAIN searches'
               PROVE  /\ Listed(searches'[h])
                      /\ h \in DOMAIN searches => Further(searches[h], searches'[h])
    BY Zenon DEF GoOn
  <2>6. CASE h = to
    BY <2>3, <2>4, <2>5, <2>6, Zenon
  <2>7. CASE h # to
    <3>1. h \in DOMAIN s /\ searches'[h] = s[h]
      BY <2>5, <2>7
    <3> QED BY <3>1, Zenon DEF GoOn
  <2> QED BY <2>6, <2>7
<1> QED BY <1>1, <1>2

\* Every handler lets the searches go on.
LEMMA HandleGoesOn == Lists /\ Handle => GoOn(searches')
<1> SUFFICES ASSUME Lists, Handle PROVE GoOn(searches')
  OBVIOUS
<1>1. PICK e : e = Head(queue)
  OBVIOUS
<1>2. PICK q : q = Tail(queue)
  BY Zenon
<1>3. e.rh \in Routers /\ e.key \in Routers /\ e.hashes \in Seq(Routers)
  <2>1. queue # <<>> /\ queue \in Seq(Events)
    BY DEF Handle, Lists, Timed
  <2>2. e \in Events
    BY <1>1, <2>1, ElemsTail
  <2> QED BY <2>2 DEF Events
<1>4. \A g \in DOMAIN searches : Listed(searches[g])
  BY Zenon DEF Lists
<1>5. CASE searches' = searches \/ \E k : searches' = Without(searches, k)
  BY <1>5, FewerGoOn, Zenon
<1>6. ASSUME NEW k, Cancel(k, q) PROVE GoOn(searches')
  BY <1>5, <1>6, Zenon DEF Cancel
<1>10. CASE HandleConnected(e.rh, q)
  <2>1. CASE searches' = searches
    BY <1>5, <2>1
  <2>2. ASSUME NEW g \in Asking(e.rh),
               SendMessage(e.rh, [searches EXCEPT ![g].state = "LOOKUP_SENT"],
                           pending \ {e.rh}, q, TRUE)
        PROVE  GoOn(searches')
    <3>1. PICK t : t = [searches[g] EXCEPT !.state = "LOOKUP_SENT"]
      BY Zenon
    <3>2. PICK s : s = [searches EXCEPT ![g] = t]
      BY Zenon
    <3>3. g \in DOMAIN searches
      BY DEF Asking
    <3>4. [searches EXCEPT ![g].state = "LOOKUP_SENT"] = s
      BY <3>1, <3>2
    <3>5. GoOn(s)
      BY <1>4, <3>1, <3>2, <3>3, SentOrSame, OneGoesOn, Zenon
    <3>6. DOMAIN s = DOMAIN searches
      BY <3>2
    <3> QED BY <1>3, <2>2, <3>4, <3>5, <3>6, SendGoesOn, Zenon
  <2> QED BY <1>10, <2>1, <2>2, Zenon DEF HandleConnected
<1>11. CASE HandleFailed(e.rh, q)
  <2>1. \/ searches' = searches
        \/ \E g \in Asking(e.rh) : Cancel(g, q)
        \/ \E g \in Asking(e.rh) : \E j \in Usable(searches[g]) :
             searches' = [searches EXCEPT ![g] = Advance(@, j)]
    BY <1>11, Zenon DEF HandleFailed
  <2>2. ASSUME NEW g \in Asking(e.rh), NEW j \in Usable(searches[g]),
               searches' = [searches EXCEPT ![g] = Advance(@, j)]
        PROVE  GoOn(searches')
    <3>1. g \in DOMAIN searches /\ j \in searches[g].pos + 1 .. Len(searches[g].cands)
      BY <2>2 DEF Asking, Usable
    <3>2. PICK t : t = Advance(searches[g], j)
      OBVIOUS
    <3>3. Listed(t) /\ Further(searches[g], t)
      BY <1>4, <3>1, <3>2, AdvanceFurther, Zenon
    <3>4. searches' = [searches EXCEPT ![g] = t]
      BY <2>2, <3>2
    <3> QED BY <3>1, <3>3, <3>4, OneGoesOn, Zenon
  <2> QED BY <1>5, <1>6, <2>1, <2>2, Zenon
<1>12. CASE HandleReply(e.rh, e.key, e.hashes, q)
  <2>1. PICK a : a = AddAlternates(searches[e.key], e.hashes)
    OBVIOUS
  <2>2. PICK t : t = Advance(a, a.pos + 1)
    OBVIOUS
  <2>3. PICK all : all = [searches EXCEPT ![e.key] = t]
    BY Zenon
  <2>4. \/ searches' = searches
        \/ Cancel(e.key, q)
        \/ /\ e.key \in DOMAIN searches /\ CountAlternates(a) # 0
           /\ searches' = all \/ SendMessage(e.rh, all, pending, q, TRUE)
    BY <1>12, <2>1, <2>2, <2>3, Zenon DEF HandleReply
  <2>5. ASSUME e.key \in DOMAIN searches, CountAlternates(a) # 0
        PROVE  GoOn(all) /\ DOMAIN all = DOMAIN searches
    <3>1. Listed(t) /\ Further(searches[e.key], t)
      BY <1>3, <1>4, <2>1, <2>2, <2>5, ReplyFurther, Zenon
    <3>2. DOMAIN all = DOMAIN searches
      BY <2>3
    <3> QED BY <2>3, <2>5, <3>1, <3>2, OneGoesOn, Zenon
  <2>6. CASE SendMessage(e.rh, all, pending, q, TRUE)
             /\ e.key \in DOMAIN searches /\ CountAlternates(a) # 0
    BY <1>3, <2>5, <2>6, SendGoesOn, Zenon
  <2> QED BY <1>5, <1>6, <2>4, <2>5, <2>6, Zenon
<1>13. CASE HandleStore(e.rh, e.key, q)
  BY <1>5, <1>13, Zenon DEF HandleStore
<1>14. CASE HandleTimeout(e.key, q)
  BY <1>6, <1>14, Zenon DEF HandleTimeout
<1>15. CASE HandleDeliveryStatus(e.rh, q)
  <2>1. GoOn(searches)
    BY FewerGoOn, Zenon
  <2> QED BY <1>3, <1>15, <2>1, SendGoesOn, Zenon DEF HandleDeliveryStatus
<1>16. CASE \/ HandleSuccess(e.key, q) \/ HandleFailure(e.key, q)
            \/ HandleDatabaseStore(e.rh, e.key, q)
            \/ HandleDatabaseSearchReply(e.rh, e.key, e.hashes, q)
  BY <1>5, <1>16 DEF HandleSuccess, HandleFailure, HandleDatabaseStore,
                     HandleDatabaseSearchReply
<1> QED
  BY <1>1, <1>2, <1>10, <1>11, <1>12, <1>13, <1>14, <1>15, <1>16, Zenon DEF Handle

\* Every step does.
LEMMA NextGoesOn == Lists /\ [Next]_vars => GoOn(searches')
<1> SUFFICES ASSUME Lists, [Next]_vars PROVE GoOn(searches')
  OBVIOUS
<1>1. GoOn(searches)
  BY FewerGoOn, Zenon
<1>2. CASE searches' = searches
  BY <1>1, <1>2, Zenon
<1>3. ASSUME NEW r \in Routers, Send(r) PROVE GoOn(searches')
  BY <1>1, <1>3, SendGoesOn, Zenon DEF Send
<1>4. CASE \/ CleanupNegative \/ PeerManagerCallback \/ UNCHANGED vars
           \/ \E r \in Routers :
                \/ MessageReceived(r) \/ SessionUp(r) \/ SessionDown(r)
                \/ ConnectionEstablished(r) \/ ConnectionFailure(r) \/ Expire(r)
  BY <1>2, <1>4 DEF CleanupNegative, PeerManagerCallback, vars, MessageReceived,
                    SessionUp, SessionDown, ConnectionEstablished, ConnectionFailure,
                    Expire, Post
<1> QED BY <1>3, <1>4, HandleGoesOn, Zenon DEF Next

\* For every bucket, every reply and every order of signals: a search tries its
\* candidates in their order, and asks none of them twice.
THEOREM SearchesAdvance == Spec => CandidatesAdvance
<1>1. Init => Lists
  <2>1. Init => DOMAIN searches = {}
    BY DEF Init
  <2> QED BY <2>1, InitTimed DEF Lists
<1>2. Lists /\ [Next]_vars => Lists'
  BY NextTimed, NextGoesOn, Zenon DEF Lists, GoOn
<1>3. Lists /\ [Next]_vars =>
        [\A g \in DOMAIN searches \cap DOMAIN searches' :
           /\ searches'[g].pos >= searches[g].pos
           /\ SubSeq(searches'[g].cands, 1, searches[g].pos)
                 = SubSeq(searches[g].cands, 1, searches[g].pos)
           /\ searches'[g].state = "CONNECTING" /\ searches[g].state = "LOOKUP_SENT"
                 => searches'[g].pos > searches[g].pos]_vars
  <2> SUFFICES ASSUME Lists, [Next]_vars, NEW g \in DOMAIN searches \cap DOMAIN searches'
               PROVE  Further(searches[g], searches'[g])
    BY Zenon DEF Further
  <2> QED BY NextGoesOn, Zenon DEF GoOn
<1> QED BY <1>1, <1>2, <1>3, PTL DEF Spec, CandidatesAdvance
==============================================================================
