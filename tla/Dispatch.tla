------------------------------ MODULE Dispatch ------------------------------
(***************************************************************************)
(* The router's message dispatch: OutboundMessageDispatcher (messages wait *)
(* for a connection or for a lookup), InboundMessageDispatcher with the    *)
(* handlers of the database messages, Signals, DHT::SearchManager with its *)
(* SearchState, DHTFacade, NegativeLookupCache and PeerManager.            *)
(*                                                                         *)
(* All of it runs in the handlers of one io_service thread, in the order   *)
(* in which they were posted; a handler is one action.  The SSU transport  *)
(* (external to this module) establishes and loses sessions on its own     *)
(* thread, between any two handlers, and posts what it has to report.      *)
(***************************************************************************)
EXTENDS Integers, Sequences, FiniteSets

CONSTANTS
    Routers,        \* hashes of the other routers, and thus the keys of lookups
    Known,          \* those whose RouterInfo is in the database at the start
    Strangers,      \* routers that connect to this one without being in the database
    StartingPoints, \* [Routers -> Seq(Known)]: the K-bucket Kademlia::find gives for a key
    Replies,        \* the lists of hashes a search reply may carry
    LookupResults,  \* the values DHTFacade::lookup, which ends without return, may yield
    MinPeers,       \* min_peers of the configuration
    MaxQueue,       \* bound: the transport posts only to a shorter queue
    MaxAge          \* bound: ages of negative entries are counted up to this

ASSUME RoutersAssumption ==
    /\ Known \subseteq Routers /\ Strangers \subseteq Routers
    /\ StartingPoints \in [Routers -> Seq(Known)] /\ Replies \subseteq Seq(Routers)
    /\ LookupResults \subseteq BOOLEAN
    /\ MaxAge \in Nat \ {0} /\ MinPeers \in Nat

VARIABLES
    searches,   \* m_searches: the goals that are looked up, with their SearchState
    timers,     \* the keys whose one-minute timer runs (m_timers)
    nlc,        \* m_nlc: [key -> age in lifetimes]
    pending,    \* the routers m_pending holds messages for
    db,         \* the routers in the database
    sess,       \* the transport's session with each router
    queue,      \* handlers posted to the router's io_service
    stuck       \* the router thread waits for a mutex it holds itself

vars == <<searches, timers, nlc, pending, db, sess, queue, stuck>>

-----------------------------------------------------------------------------
(* SearchState: the candidates in the order they are tried, and m_current. *)

SearchState == [state : {"CONNECTING", "LOOKUP_SENT"},
                cands : Seq(Routers), pos : Nat]

Elems(s) == {s[i] : i \in DOMAIN s}

Current(s) == s.cands[s.pos]

CountAlternates(s) == Len(s.cands) - s.pos

\* The places of the hashes that addAlternate finds neither in the list nor
\* among the hashes before them.
NewPlaces(s, hs) ==
    {i \in DOMAIN hs : /\ hs[i] \notin Elems(s.cands)
                       /\ \A j \in 1 .. i - 1 : hs[j] # hs[i]}

\* addAlternate for each of the hashes: the new ones, in their order, behind
\* the list.
AddAlternates(s, hs) ==
    LET new   == NewPlaces(s, hs)
        n     == Cardinality(new)
        order == CHOOSE f \in [1 .. n -> new] :
                   \A i, j \in 1 .. n : i < j => f[i] < f[j]
    IN  [s EXCEPT !.cands = @ \o [i \in 1 .. n |-> hs[order[i]]]]

\* Wrong: PopAlternates is forgotten.
AdvanceNot(s, j) == [s EXCEPT !.state = "CONNECTING"]

\* PopAlternates, as often as it takes to get to candidate j, and then
\* ModifyState(exclude).
Advance(s, j) == [s EXCEPT !.pos = j, !.state = "CONNECTING"]

\* The state createSearch makes of the points, of which there is one at least.
NewSearch(points) ==
    AddAlternates([state |-> "CONNECTING", cands |-> <<Head(points)>>, pos |-> 1],
                  Tail(points))

Without(f, k) == [x \in DOMAIN f \ {k} |-> f[x]]

With(f, k, v) == [x \in DOMAIN f \cup {k} |-> IF x = k THEN v ELSE f[x]]

\* What the router's io_service is asked to run.
Event(ev, rh, key, hs) == [ev |-> ev, rh |-> rh, key |-> key, hashes |-> hs]

EventNames == {"connected", "failed", "reply", "store", "timeout", "success", "failure",
               "DeliveryStatus", "DB_STORE", "DB_SEARCH_REPLY"}

Events == [ev : EventNames, rh : Routers, key : Routers, hashes : Seq(Routers)]

Signal(ev, rh) == Event(ev, rh, rh, <<>>)

Queued(e) == e \in Elems(queue)
-----------------------------------------------------------------------------
(* The transport, as far as it is seen from here.  A session that is "up"  *)
(* is in the peer list and not yet announced; "failing": its failure has   *)
(* been reported, and may be once more by the second handler posted for it *)
(* (EstablishmentManager); "misreported": it is in the peer list, but its  *)
(* timer expired meanwhile, and it is reported as failed.                  *)

SessionStates == {"none", "trying", "failing", "up", "announced", "misreported"}

Connected(r) == sess[r] \in {"up", "announced", "misreported"}

\* SSU::connect: nothing happens when there is a session or an attempt
\* already, or when the RouterInfo has no usable address.
Connect(r) ==
    \/ sess' = sess
    \/ sess[r] \in {"none", "failing"} /\ sess' = [sess EXCEPT ![r] = "trying"]
-----------------------------------------------------------------------------
(* NegativeLookupCache.  Ages are counted in lifetimes.                    *)

\* Wrong: a failed key is not remembered.
InsertNothing(k) == nlc' = nlc

InsertNegative(k) ==
    nlc' = IF k \in DOMAIN nlc THEN nlc ELSE With(nlc, k, 0)

\* it->time - now >= m_lifetime
Outdated(age) == 0 - age >= 1

Older(age) == IF age < MaxAge THEN age + 1 ELSE age

\* The cleanup timer, once a lifetime.
CleanupNegative ==
    /\ ~stuck /\ DOMAIN nlc # {}
    /\ nlc' = [k \in {x \in DOMAIN nlc : ~Outdated(Older(nlc[x]))} |-> Older(nlc[k])]
    /\ UNCHANGED <<searches, timers, pending, db, sess, queue, stuck>>
-----------------------------------------------------------------------------
(* Sending.  s, p and q are the searches, the waiting messages and the     *)
(* queue as the calling handler leaves them; locked says that it holds     *)
(* m_searchesMutex, which createSearch locks again.                        *)

CreateSearch(k, s, q, locked) ==
    IF k \in DOMAIN nlc
    THEN /\ queue' = Append(q, Signal("failure", k))
         /\ searches' = s
         /\ UNCHANGED <<timers, sess, stuck>>
    ELSE /\ queue' = q
         /\ stuck' = locked
         /\ IF locked \/ k \in DOMAIN s
            THEN searches' = s /\ UNCHANGED <<timers, sess>>
            ELSE /\ searches' = With(s, k, NewSearch(StartingPoints[k]))
                 /\ timers' = timers \cup {k}
                 /\ Connect(StartingPoints[k][1])

\* DHTFacade::lookup, and what sendMessage does with its result.
Lookup(k, s, p, q, locked) ==
    IF StartingPoints[k] = <<>>
    THEN /\ pending' = p \ {k} /\ searches' = s /\ queue' = q
         /\ UNCHANGED <<timers, sess, stuck>>
    ELSE /\ CreateSearch(k, s, q, locked)
         /\ \E result \in LookupResults :
               pending' = IF result \/ stuck' THEN p \cup {k} ELSE p \ {k}

SendMessage(to, s, p, q, locked) ==
    IF Connected(to)
    THEN /\ searches' = s /\ pending' = p /\ queue' = q
         /\ UNCHANGED <<timers, sess, stuck>>
    ELSE IF to \in db
    THEN /\ pending' = p \cup {to} /\ Connect(to)
         /\ searches' = s /\ queue' = q
         /\ UNCHANGED <<timers, stuck>>
    ELSE Lookup(to, s, p, q, locked)

\* The tunnel manager and the handlers send to any router.
Send(to) ==
    /\ ~stuck /\ Len(queue) < MaxQueue
    /\ SendMessage(to, searches, pending, queue, FALSE)
    /\ UNCHANGED <<nlc, db>>
-----------------------------------------------------------------------------
(* SearchManager.                                                          *)

\* Wrong: a search is cancelled without the failure signal.
CancelSilently(k, q) ==
    /\ queue' = q
    /\ searches' = Without(searches, k) /\ timers' = timers \ {k}
    /\ InsertNegative(k)

\* cancel(): k is the goal of a search.  (connectionFailure and searchReply
\* pass the goal by a reference into the node that is erased; no allocation
\* comes between, so the key is still read from it.)
Cancel(k, q) ==
    IF k \in DOMAIN searches
    THEN /\ queue' = Append(q, Signal("failure", k))
         /\ searches' = Without(searches, k)
         /\ timers' = timers \ {k}
         /\ InsertNegative(k)
    ELSE queue' = q /\ UNCHANGED <<searches, timers, nlc>>

\* The goals whose current candidate is rh; the index gives one of them.
Asking(rh) == {g \in DOMAIN searches : Current(searches[g]) = rh}

\* The signal PeerConnected: PeerManager::connected does nothing,
\* OutboundMessageDispatcher::connected sends what waits (what goes to a peer
\* that has left since is lost), then SearchManager::connected.
HandleConnected(rh, q) ==
    /\ \/ /\ Asking(rh) = {} \/ \E g \in Asking(rh) : searches[g].state = "LOOKUP_SENT"
          /\ pending' = pending \ {rh} /\ queue' = q
          /\ UNCHANGED <<searches, timers, sess, stuck>>
       \/ \E g \in Asking(rh) :
            /\ searches[g].state = "CONNECTING"
            /\ SendMessage(rh, [searches EXCEPT ![g].state = "LOOKUP_SENT"],
                           pending \ {rh}, q, TRUE)
    /\ UNCHANGED <<nlc, db>>

\* The candidates after the current one that are in the database.
Usable(s) == {j \in s.pos + 1 .. Len(s.cands) : s.cands[j] \in db}

\* The signal ConnectionFailure: SearchManager::connectionFailure.
HandleFailed(rh, q) ==
    /\ IF Asking(rh) = {}
       THEN queue' = q /\ UNCHANGED <<searches, timers, nlc, sess>>
       ELSE \E g \in Asking(rh) :
              IF Usable(searches[g]) = {}
              THEN Cancel(g, q) /\ UNCHANGED sess
              ELSE \E j \in Usable(searches[g]) :
                     /\ \A i \in Usable(searches[g]) : j <= i
                     /\ searches' = [searches EXCEPT ![g] = Advance(@, j)]
                     /\ Connect(searches[g].cands[j])
                     /\ queue' = q /\ UNCHANGED <<timers, nlc>>
    /\ UNCHANGED <<pending, db, stuck>>

\* SearchManager::searchReply.
HandleReply(from, key, hs, q) ==
    IF key \notin DOMAIN searches \/ searches[key].state # "LOOKUP_SENT"
    THEN queue' = q /\ UNCHANGED <<searches, timers, nlc, pending, db, sess, stuck>>
    ELSE LET s == AddAlternates(searches[key], hs)
         IN  IF CountAlternates(s) = 0
             THEN Cancel(key, q) /\ UNCHANGED <<pending, db, sess, stuck>>
             ELSE LET n == Advance(s, s.pos + 1)
                      all == [searches EXCEPT ![key] = n]
                  IN  /\ IF Current(n) \in db
                         THEN /\ searches' = all /\ Connect(Current(n)) /\ queue' = q
                              /\ UNCHANGED <<timers, pending, stuck>>
                         ELSE SendMessage(from, all, pending, q, TRUE)
                      /\ UNCHANGED <<nlc, db>>

\* SearchManager::databaseStore; handlers pass router descriptions only.
HandleStore(from, key, q) ==
    /\ IF key \in DOMAIN searches
       THEN /\ queue' = Append(q, Signal("success", key))
            /\ searches' = Without(searches, key)
            /\ timers' = timers \ {key}
            /\ UNCHANGED sess
       ELSE /\ queue' = q /\ UNCHANGED <<searches, timers>>
            /\ IF from = key /\ Asking(from) # {} THEN Connect(key) ELSE UNCHANGED sess
    /\ UNCHANGED <<nlc, pending, db, stuck>>

\* Wrong: a timeout does not cancel.
HandleTimeoutNot(k, q) ==
    queue' = q /\ UNCHANGED <<searches, timers, nlc, pending, db, sess, stuck>>

\* SearchManager::timeout.
HandleTimeout(k, q) == Cancel(k, q) /\ UNCHANGED <<pending, db, sess, stuck>>

\* OutboundMessageDispatcher::dhtSuccess.
HandleSuccess(k, q) ==
    /\ queue' = q
    /\ IF k \in pending THEN Connect(k) ELSE UNCHANGED sess
    /\ UNCHANGED <<searches, timers, nlc, pending, db, stuck>>

\* Wrong: the messages stay when the lookup has failed.
HandleFailureKeeps(k, q) ==
    queue' = q /\ UNCHANGED <<searches, timers, nlc, pending, db, sess, stuck>>

\* OutboundMessageDispatcher::dhtFailure.
HandleFailure(k, q) ==
    /\ queue' = q /\ pending' = pending \ {k}
    /\ UNCHANGED <<searches, timers, nlc, db, sess, stuck>>
-----------------------------------------------------------------------------
(* Handlers of received messages.                                          *)

\* Handlers::DeliveryStatus answers with this router's own description.
HandleDeliveryStatus(from, q) ==
    SendMessage(from, searches, pending, q, FALSE) /\ UNCHANGED <<nlc, db>>

\* Handlers::DatabaseStore, for a RouterInfo with a good signature (any
\* other is dropped): into the database, then the signal.
HandleDatabaseStore(from, key, q) ==
    /\ db' = db \cup {key}
    /\ queue' = Append(q, Event("store", from, key, <<>>))
    /\ UNCHANGED <<searches, timers, nlc, pending, sess, stuck>>

\* Handlers::DatabaseSearchReply.
HandleDatabaseSearchReply(from, key, hs, q) ==
    /\ queue' = Append(q, Event("reply", from, key, hs))
    /\ UNCHANGED <<searches, timers, nlc, pending, db, sess, stuck>>

\* The router's io_service runs the handler that was posted first; the
\* signals go where Router::start connected them.
Handle ==
    /\ ~stuck /\ queue # <<>>
    /\ LET e == Head(queue)
           q == Tail(queue)
       IN  \/ e.ev = "connected"      /\ HandleConnected(e.rh, q)
           \/ e.ev = "failed"         /\ HandleFailed(e.rh, q)
           \/ e.ev = "reply"          /\ HandleReply(e.rh, e.key, e.hashes, q)
           \/ e.ev = "store"          /\ HandleStore(e.rh, e.key, q)
           \/ e.ev = "timeout"        /\ HandleTimeout(e.key, q)
           \/ e.ev = "success"        /\ HandleSuccess(e.key, q)
           \/ e.ev = "failure"        /\ HandleFailure(e.key, q)
           \/ e.ev = "DeliveryStatus" /\ HandleDeliveryStatus(e.rh, q)
           \/ e.ev = "DB_STORE"       /\ HandleDatabaseStore(e.rh, e.key, q)
           \/ e.ev = "DB_SEARCH_REPLY" /\ HandleDatabaseSearchReply(e.rh, e.key, e.hashes, q)
-----------------------------------------------------------------------------
(* What the transport's thread and the timers do.                          *)

Post(e) ==
    /\ Len(queue) < MaxQueue
    /\ queue' = Append(queue, e)
    /\ UNCHANGED <<searches, timers, nlc, pending, db, stuck>>

\* InboundMessageDispatcher::messageReceived, from a connected peer.
Messages(from) ==
    {Event("DeliveryStatus", from, from, <<>>)}
      \cup {Event("DB_STORE", from, k, <<>>) : k \in Routers}
      \cup {Event("DB_SEARCH_REPLY", from, k, hs) : k \in Routers, hs \in Replies}

MessageReceived(from) ==
    /\ Connected(from) /\ UNCHANGED sess
    /\ \E m \in Messages(from) : Post(m)

\* A session comes up: one this router asked for, or one of the peer's.
SessionUp(r) ==
    /\ \/ sess[r] = "trying"
       \/ sess[r] = "none" /\ r \in db \cup Strangers
    /\ sess' = [sess EXCEPT ![r] = "up"]
    /\ UNCHANGED <<searches, timers, nlc, pending, db, queue, stuck>>

\* InboundMessageDispatcher::connectionEstablished.  To a peer that has
\* connected by itself it sends two messages; the session is there, so they
\* go out at once.
ConnectionEstablished(r) ==
    /\ sess[r] = "up"
    /\ sess' = [sess EXCEPT ![r] = "announced"]
    /\ Post(Signal("connected", r))

\* InboundMessageDispatcher::connectionFailure.
ConnectionFailure(r) ==
    /\ \/ sess[r] = "trying" /\ sess' = [sess EXCEPT ![r] = "failing"]
       \/ sess[r] = "failing" /\ sess' = [sess EXCEPT ![r] = "none"]
       \/ sess[r] = "up" /\ sess' = [sess EXCEPT ![r] = "misreported"]
    /\ Post(Signal("failed", r))

\* The usual end of a failed attempt, and of a session.
SessionDown(r) ==
    /\ sess[r] \in {"failing", "announced", "misreported"}
    /\ sess' = [sess EXCEPT ![r] = "none"]
    /\ UNCHANGED <<searches, timers, nlc, pending, db, queue, stuck>>

\* The one-minute timer of a search.
Expire(k) ==
    /\ k \in timers
    /\ timers' = timers \ {k}
    /\ queue' = Append(queue, Event("timeout", k, k, <<>>))
    /\ UNCHANGED <<searches, nlc, pending, db, sess, stuck>>

\* PeerManager::callback: connects to random routers of the database while
\* there are fewer peers than min_peers.
PeerManagerCallback ==
    /\ ~stuck
    /\ Cardinality({r \in Routers : Connected(r)}) < MinPeers
    /\ \E r \in db : Connect(r)
    /\ UNCHANGED <<searches, timers, nlc, pending, db, queue, stuck>>
-----------------------------------------------------------------------------
Init ==
    /\ searches = <<>> /\ timers = {} /\ nlc = <<>>
    /\ pending = {} /\ db = Known
    /\ sess = [r \in Routers |-> "none"]
    /\ queue = <<>> /\ stuck = FALSE

Next ==
    \/ Handle \/ CleanupNegative \/ PeerManagerCallback
    \/ \E r \in Routers :
          \/ Send(r) \/ MessageReceived(r) \/ SessionUp(r) \/ SessionDown(r)
          \/ ConnectionEstablished(r) \/ ConnectionFailure(r) \/ Expire(r)

Spec == Init /\ [][Next]_vars

\* Router::start runs the io_service in a thread of its own, and timers expire.
Fairness == WF_vars(Handle) /\ \A k \in Routers : WF_vars(Expire(k))

FairSpec == Spec /\ Fairness
-----------------------------------------------------------------------------
(* Properties.                                                             *)

\* Types, and what SearchState keeps up for itself: m_current points into the
\* list of candidates, and addAlternate puts nobody into it twice.
TypeOK ==
    /\ DOMAIN searches \subseteq Routers
    /\ \A g \in DOMAIN searches :
          LET cands == searches[g].cands
          IN  /\ searches[g] \in SearchState /\ searches[g].pos \in DOMAIN cands
              /\ \A i, j \in DOMAIN cands : cands[i] = cands[j] => i = j
    /\ timers \subseteq Routers
    /\ DOMAIN nlc \subseteq Routers /\ \A k \in DOMAIN nlc : nlc[k] \in 0 .. MaxAge
    /\ pending \subseteq Routers /\ db \subseteq Routers
    /\ sess \in [Routers -> SessionStates]
    /\ queue \in Seq(Events) /\ stuck \in BOOLEAN

\* A search cannot be forgotten: as long as it is in m_searches its timer
\* runs or the handler of its timeout is queued, whatever ended or started
\* before it under the same key.
SearchIsTimed ==
    \A k \in DOMAIN searches : k \in timers \/ Queued(Event("timeout", k, k, <<>>))

\* Messages wait for a router that is not in the database only while it is
\* looked up or while the signal that tosses them is on its way: the paths
\* through sendMessage, createSearch, cancel and databaseStore leave none
\* behind.
UnknownIsLookedUp ==
    ~stuck => \A r \in pending \ db :
                  r \in DOMAIN searches \/ Queued(Signal("failure", r))

\* Once a session has been announced no message waits for it, except until
\* the PeerConnected signal that sends it has been handled: isConnected(),
\* the queueing and the flush never pass each other by.
NoneLeftBehind ==
    \A r \in pending : sess[r] = "announced" => Queued(Signal("connected", r))

\* No message waits in m_pending with nothing to come for it: between
\* sendMessage, the searches, the database and the sessions there is always a
\* search or a signal that sends it or tosses it.
NothingForgotten == UnknownIsLookedUp /\ NoneLeftBehind

\* A search goes back to connecting only for a later candidate, and what it
\* has been through stays as it was: replies, failures and duplicated signals
\* cannot keep it going round.
CandidatesAdvance ==
    [][\A g \in DOMAIN searches \cap DOMAIN searches' :
          /\ searches'[g].pos >= searches[g].pos
          /\ SubSeq(searches'[g].cands, 1, searches[g].pos)
                = SubSeq(searches[g].cands, 1, searches[g].pos)
          /\ searches'[g].state = "CONNECTING" /\ searches[g].state = "LOOKUP_SENT"
                => searches'[g].pos > searches[g].pos]_vars

\* The lookups the code runs are the lookups KeyLookup promises: none for a
\* router that is known, looked up or cached as not found; found only with
\* the RouterInfo in the database; every one ends (the timer of createSearch).
Promise == INSTANCE KeyLookup WITH
    known <- db, running <- DOMAIN searches, failed <- DOMAIN nlc

KeepsPromise == Promise!LookupSpec

\* Messages for an unknown router are sent to it, tossed, or at least the
\* router becomes known.
LookupSettles ==
    \A r \in Routers : (r \in pending \ db) ~> (r \notin pending \/ r \in db)

\* createSearch "Times out after 2 minutes" (SearchManager.h): no search
\* stays for ever.
SearchTimesOut == \A k \in Routers : (k \in DOMAIN searches) ~> (k \notin DOMAIN searches)
==============================================================================
