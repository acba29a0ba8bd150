------------------------------ MODULE RouterLocks ------------------------------
(***************************************************************************)
(* The handlers of the router as scripts for Locks: which mutexes each one  *)
(* takes, in which order, what it touches under them and what it calls.     *)
(* Three threads run them: "service" is SSU's, "router" is Router's and     *)
(* "main" is the program's own.  Every definition is a set of scripts, one  *)
(* for each way through the function.                                       *)
(***************************************************************************)
EXTENDS Locks

CONSTANTS
  Vanish,        \* the callers of sendMessage whose peer may be gone by then
  Ends           \* how far the end of main is followed

ASSUME RouterAssumption ==
  /\ Vanish \subseteq {"established", "connected", "reply"}
  /\ Ends \subseteq {"router", "transport"}

RouterThreads == {"main", "router", "service"}

\* The data and, by the same name, the mutex that is there to guard it.
RouterMutexes ==
  {"peers", "stateTable", "omf", "imf", "pending", "searches", "cache",
   "building", "tunnels", "participating", "fragments"}

RouterRank ==
  [m \in RouterMutexes |->
     CASE m = "participating" -> 0
       [] m = "fragments" -> 1
       [] m = "pending" -> 2
       [] m = "searches" -> 3
       [] m = "peers" -> 4
       [] OTHER -> 5]

-----------------------------------------------------------------------------
(* Scripts                                                                   *)

Op(o, x) == {<<[op |-> o, at |-> x]>>}
Read(x) == Op("read", x)
Write(x) == Op("write", x)

Nothing == {<<>>}
Then(A, B) == {a \o b : a \in A, b \in B}
Maybe(A) == Nothing \cup A

\* A loop whose passes each end with the mutexes they began with, and two blocks
\* with the same mutexes held before, between and after them.  Where a thread can
\* be, and with which mutexes, is the same if only one pass, or one of the blocks,
\* is run: the others find and leave the same mutexes.
Loop(A) == Maybe(A)
Apart(A, B) == A \cup B

\* A block under a lock_guard, which unlocks however the block is left.
Locked(m, A) == Then(Op("lock", m), Then(A, Op("unlock", m)))

-----------------------------------------------------------------------------
(* The transport, as its callers see it                                      *)

IsConnected == Locked("peers", Read("peers"))

\* Wrong numPeers: the size of the list is read without its mutex.
NumPeersUnlocked == Read("peers")

NumPeers == Locked("peers", Read("peers"))

\* Wrong order in send: the message is queued before the peer is looked up.
SendQueueFirst == Locked("omf", Then(Write("omf"), Locked("peers", Read("peers"))))

\* sendData queues the message; its timer and callback run later.
Send == Locked("peers", Then(Read("peers"), Maybe(Locked("omf", Write("omf")))))

\* stateExists() reads the state table without its mutex.
Connect ==
  Maybe(Locked("peers",
    Then(Read("stateTable"),
      Maybe(Then(Read("peers"), Maybe(Locked("stateTable", Write("stateTable"))))))))

Disconnect == Locked("peers", Then(Read("peers"), Maybe(Write("peers"))))

-----------------------------------------------------------------------------
(* The handlers of SSU                                                       *)

DelState == Locked("stateTable", Write("stateTable"))

ReceiveData ==
  Apart(Loop(Locked("omf", Write("omf"))), Loop(Locked("imf", Write("imf"))))

HandlePeerPacket ==
  Maybe(Then(Write("peers"), Nothing \cup ReceiveData \cup Write("peers")))

PacketReceived ==
  Locked("peers", Then(Read("peers"),
    HandlePeerPacket \cup
      Apart(Locked("stateTable", Read("stateTable")),
            Maybe(Locked("stateTable", Write("stateTable"))))))

\* processCreated adds the peer, processConfirmed adds it and deletes the state,
\* a confirmed or failed establishment is deleted; the others take no mutex.
StateChanged ==
  Nothing \cup DelState \cup Locked("peers", Then(Write("peers"), Maybe(DelState)))

FlushAckCallback ==
  Locked("imf", Then(Read("imf"), Loop(Locked("peers", Then(Read("peers"), Write("imf"))))))

SendDataCallback == Locked("omf", Write("omf"))
InboundTimerCallback == Locked("imf", Write("imf"))

-----------------------------------------------------------------------------
(* The dispatchers and the DHT                                               *)

\* m_nlc is asked first.  A search that exists already is left alone.
CreateSearch ==
  Apart(Locked("cache", Read("cache")),
       Maybe(Locked("searches", Then(Read("searches"),
         Maybe(Then(Write("searches"), Connect))))))

\* lookup() has no return statement after createSearch(): what the caller sees,
\* and whether it erases the message again, is anybody's guess.
Lookup == Apart(Maybe(CreateSearch), Maybe(Write("pending")))

\* What sendMessage does for a peer that is not connected.
Queue(known, unknown) ==
  Locked("pending", Then(Write("pending"), known \cup unknown))

SendMessage ==
  Maybe(Apart(IsConnected, Send \cup Queue(Connect, Lookup)))

\* sendMessage to a peer that has just been heard of; it may be gone by now.  The
\* peers that SearchManager::connected sends to have been found in the database.
SendMessageTo(caller) ==
  Apart(IsConnected,
       Send \cup (IF caller \notin Vanish THEN {}
                  ELSE Queue(Connect, IF caller = "connected" THEN {} ELSE Lookup)))

ConnectionEstablished ==
  Maybe(Apart(SendMessageTo("established"), SendMessageTo("established")))

FlushPending == Locked("pending", Then(Write("pending"), Loop(Send)))
DhtSuccess == Locked("pending", Then(Read("pending"), Maybe(Connect)))
DhtFailure == Locked("pending", Then(Read("pending"), Maybe(Write("pending"))))

Cancel == Apart(Write("searches"), Locked("cache", Write("cache")))

SearchConnected ==
  Locked("searches", Then(Read("searches"),
    Maybe(Then(Write("searches"), SendMessageTo("connected")))))

ConnectionFailure ==
  Locked("searches", Then(Read("searches"),
    Maybe(Then(Write("searches"), Cancel \cup Connect))))

SearchReply ==
  Locked("searches", Then(Read("searches"),
    Maybe(Then(Write("searches"), Cancel \cup Connect \cup SendMessageTo("reply")))))

DatabaseStore ==
  Locked("searches", Then(Read("searches"), Nothing \cup Write("searches") \cup Connect))

SearchTimeout == Locked("searches", Maybe(Cancel))
Cleanup == Locked("cache", Write("cache"))

PeerManagerCallback == Apart(NumPeers, Loop(Connect))

-----------------------------------------------------------------------------
(* Tunnels                                                                   *)

ReceiveRecords ==
  Apart(Locked("building", Then(Read("building"),
         Maybe(Then(Maybe(Locked("tunnels", Write("tunnels"))), Write("building"))))),
       Maybe(Locked("participating", Then(Read("participating"),
         Maybe(Then(Write("participating"), SendMessage))))))

ReceiveGatewayData ==
  Apart(Locked("participating", Then(Read("participating"), Loop(SendMessage))),
       Maybe(Locked("tunnels", Read("tunnels"))))

CheckAndFlush ==
  Locked("fragments", Then(Write("fragments"), Maybe(Then(SendMessage, Write("fragments")))))

ReceiveFragments ==
  Loop(Apart(SendMessage \cup Locked("fragments", Write("fragments")), CheckAndFlush))

ReceiveTunnelData ==
  Locked("participating", Then(Read("participating"),
    Nothing \cup SendMessage \cup ReceiveFragments))

TunnelTimerCallback ==
  Locked("participating", Write("participating")) \cup Locked("tunnels", Write("tunnels"))

FragmentTimerCallback == Locked("fragments", Write("fragments"))

GetParticipatingTunnelCount == Locked("participating", Read("participating"))

-----------------------------------------------------------------------------
(* The threads                                                               *)

\* The end of main: Router::stop, then ~Router joins the router thread.
EndRouter == Then(Op("stop", "router"), Op("join", "router"))

\* The last reference to the transport goes; its destructor is shutdown().
Shutdown ==
  Locked("peers", Then(Read("peers"), Then(Op("stop", "service"), Op("join", "service"))))

EndMain ==
  Then(EndRouter, Then(IF "transport" \in Ends THEN Shutdown ELSE Nothing, Op("stop", "main")))

ServiceHandlers ==
  PacketReceived \cup StateChanged \cup FlushAckCallback \cup SendDataCallback
    \cup InboundTimerCallback \cup Disconnect \cup ConnectionEstablished

RouterHandlers ==
  Apart(FlushPending, SearchConnected) \cup ConnectionFailure \cup SearchReply
    \cup DatabaseStore \cup SearchTimeout \cup Cleanup \cup DhtSuccess \cup DhtFailure
    \cup PeerManagerCallback \cup SendMessage
    \cup ReceiveRecords \cup ReceiveGatewayData \cup ReceiveTunnelData
    \cup TunnelTimerCallback \cup FragmentTimerCallback \cup GetParticipatingTunnelCount

MainHandlers ==
  GetParticipatingTunnelCount \cup (IF "router" \in Ends THEN EndMain ELSE {})

RouterProgram ==
  [t \in RouterThreads |->
     CASE t = "service" -> ServiceHandlers
       [] t = "router" -> RouterHandlers
       [] t = "main" -> MainHandlers]
=============================================================================
