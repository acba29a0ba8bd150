-------------------------------- MODULE Console --------------------------------
(***************************************************************************)
(* The console program: processes that run main() on one database file.    *)
(*                                                                         *)
(* A process is either a command (--init, --import, --importdir, --export, *)
(* --wipe, --get, --set) that makes its calls of Database and exits, or    *)
(* the router ("run"), whose main thread starts the router's service       *)
(* thread and SSU's, waits for a signal and stops them.  Both service      *)
(* threads call Database on one connection, with the same cached           *)
(* statements and no lock: the router thread stores and looks up           *)
(* RouterInfos, and SSU's thread runs                                      *)
(* InboundMessageDispatcher::connectionEstablished.                        *)
(***************************************************************************)
EXTENDS Storage

CONSTANTS Procs,        \* processes that may run at the same time
          KindsOf,      \* the kinds each of them may be, a function
          Dirs,         \* contents of the directories --importdir is given
          Self,         \* the local router's hash
          MaxLaunches,  \* bound: processes started altogether
          MaxOps,       \* bound: handlers run by each service thread
          MaxKills      \* bound: processes killed

ASSUME ConsoleAssumption ==
  /\ Self \in Routers
  /\ \A i \in Infos : i.id \in Routers
  /\ MaxLaunches \in Nat /\ MaxOps \in Nat /\ MaxKills \in Nat

Threads == {"main", "router", "ssu"}
Service == {"router", "ssu"}
StorageKinds == {"open", "hashes", "ask", "askGot", "column", "exec", "direct", "begin",
                 "commit", "savepoint", "release"}
Kinds == {"init", "export", "import", "importdir", "wipe", "get", "set", "run"}
Writers == {"init", "import", "importdir", "wipe", "set"}

VARIABLES file,      \* the database file
          conn,      \* the connection of each process
          thr,       \* the threads of each process
          proc,      \* life cycle of each process
          launches, kills

vars == <<file, conn, thr, proc, launches, kills>>

(***************************************************************************)
(* commits counts the commits of a command that changed the file, answers  *)
(* tells which wrong answers getConfigValue gave, and mixed records that a *)
(* store began inside the transaction of the other thread: no action reads *)
(* them.                                                                   *)
(***************************************************************************)
NotRunning(kind, status) ==
  [kind |-> kind, status |-> status, quit |-> FALSE, graceful |-> FALSE,
   stopped |-> FALSE, alive |-> {}, ops |-> [s \in Service |-> 0],
   commits |-> 0, answers |-> {}, mixed |-> FALSE]

Configured == [Blank EXCEPT !.made = TRUE, !.config = [n \in Names |-> <<n, 0>>]]

Init ==
  /\ file \in {Blank, Configured}
  /\ conn = [p \in Procs |-> Closed]
  /\ thr = [p \in Procs |-> [t \in Threads |-> Idle]]
  /\ proc = [p \in Procs |-> NotRunning("get", "off")]
  /\ launches = 0 /\ kills = 0

-----------------------------------------------------------------------------
(* What the processes and threads run.                                     *)

\* Database and Router are constructed: RouterContext loads the keys and
\* the hashes of the known routers.
Load ==
  <<Do("open")>> \o GetConfigValue("private_encryption_key")
                 \o GetConfigValue("private_signing_key") \o <<Do("hashes")>>

Export ==
  GetConfigValue("private_encryption_key") \o GetConfigValue("private_signing_key")
  \o GetRouterInfo(Self)

\* the router: Server and its settings are left to WsConnection
RunRouter ==
  GetConfigValue("control_server") \o <<Do("start")>>
  \o GetConfigValue("ssu_bind_ip")
  \o <<Do("listen"), Do("wait"), Do("graceful"), Do("stop"), Do("join")>>

\* --importdir skips RouterInfos whose signature is bad; --import does not.
Programs(kind) ==
  CASE kind = "init" -> {CreateDb(1)}
    [] kind = "export" -> {Load \o Export}
    [] kind = "import" -> {Load \o SetRouterInfo(i) : i \in Infos}
    [] kind = "importdir" ->
         {Load \o SetRouterInfos(SelectSeq(d, LAMBDA i : i.good)) : d \in Dirs}
    [] kind = "wipe" -> {Load \o DeleteAllRouters}
    [] kind = "get" -> {Load \o GetConfigValue("min_peers")}
    [] kind = "set" -> {Load \o SetConfigValue(<<"ssu_external_ip", 1>>)}
    [] kind = "run" -> {Load \o RunRouter}

\* OutboundMessageDispatcher::sendMessage to a router that is not connected
Lookup(r) == RouterExists(r) \o <<Do("unless")>> \o GetRouterInfo(r)

\* The address our RouterInfo announces; ssu_external_port is read in the
\* same way as ssu_external_ip, and ssu_bind_port as ssu_bind_ip.
Announce == GetConfigValue("ssu_external_ip")

\* Handlers of the router thread: DatabaseStore, a message to send, the
\* PeerManager's timer, DeliveryStatus.
RouterHandlers ==
  {SetRouterInfo(i) : i \in {j \in Infos : j.good}}
  \cup {Lookup(r) : r \in Routers \ {Self}}
  \cup {GetConfigValue("min_peers") \o GetPeer, Announce}

\* connectionEstablished for an inbound session: the peer may be gone again
\* when the message is sent.
SsuHandlers == {Announce} \cup {Lookup(r) \o Announce : r \in Routers \ {Self}}

Handlers(th) == IF th = "router" THEN RouterHandlers ELSE SsuHandlers

-----------------------------------------------------------------------------
(* Steps of a thread.                                                      *)

Running(p) == proc[p].status = "running"
Next1(p, th) == Head(thr[p][th].code)
At(p, th, k) == Running(p) /\ thr[p][th].code # <<>> /\ Next1(p, th).k = k

Others(p) == {conn[q] : q \in {q \in Procs \ {p} : Running(q)}}

\* The process is over: its threads are gone and sqlite drops its locks and
\* its open transaction.
Over(p, status) ==
  /\ proc' = [proc EXCEPT ![p].status = status, ![p].alive = {}, ![p].quit = FALSE,
                          ![p].graceful = FALSE, ![p].stopped = FALSE, ![p].answers = {},
                          ![p].ops = [s \in Service |-> 0]]
  /\ conn' = [conn EXCEPT ![p] = Closed]
  /\ thr' = [thr EXCEPT ![p] = [t \in Threads |-> Idle]]

\* An exception has unwound the scopes of the thread.  A service thread
\* catches and logs it; main() returns EXIT_FAILURE, once ~Router has run.
Unwound(t, th) ==
  [t EXCEPT !.code = [n \in 1 .. Len(t.scope) |-> Do("join")]
                     \o (IF th = "main" THEN <<Do("fail")>> ELSE <<>>)]

\* A service thread forgets a handler that has ended.
Settled(t, th) == IF th # "main" /\ t.code = <<>> THEN Idle ELSE t

\* For the properties: a commit that changed the file, and an answer
\* of getConfigValue that is not the value of the field.
Committed(i, c, o) ==
  /\ o.how = "on"
  /\ \/ i.k \in {"commit", "release"} /\ c.wrote /\ ~o.c.wrote
     \/ i.k \in {"exec", "direct"} /\ c.tx = <<>>

Answered(i, o) ==
  IF i.k # "column" \/ i.s # "get_config" \/ o.how # "on" THEN {}
  ELSE IF o.t.got = Empty THEN {"empty"}
  ELSE IF o.t.got[1] # i.a THEN {"other"} ELSE {}

StorageStep(p, th) ==
  LET t == thr[p][th]
      i == Next1(p, th)
      c == conn[p]
      rest == [t EXCEPT !.code = Tail(@), !.got = IF i.k = "askGot" THEN @ ELSE None]
  IN  /\ Running(p) /\ t.code # <<>> /\ i.k \in StorageKinds
      /\ \E o \in Perform(i, file, c, rest, Others(p)) :
           /\ file' = o.f
           /\ \/ o.how = "die" /\ Over(p, "crashed")
              \/ /\ o.how # "die"
                 /\ conn' = [conn EXCEPT ![p] = o.c]
                 /\ thr' = [thr EXCEPT ![p][th] =
                              Settled(IF o.how = "on" THEN o.t ELSE Unwound(o.t, th), th)]
                 /\ proc' = [proc EXCEPT
                       ![p].commits = IF Committed(i, c, o) /\ proc[p].kind # "run" THEN @ + 1 ELSE @,
                       ![p].answers = @ \cup Answered(i, o),
                       ![p].mixed = @ \/ (i.k = "savepoint" /\ c.tx # <<>> /\ c.tx[1] = 0 /\ ~t.held)]
           /\ UNCHANGED <<launches, kills>>

\* if(routerExists(to)) ... : otherwise the DHT is asked, and the database
\* is not
Unless(p, th) ==
  /\ At(p, th, "unless")
  /\ LET t == thr[p][th]
         skipped == IF t.got THEN 0 ELSE Len(GetRouterInfo(Self))
     IN  thr' = [thr EXCEPT ![p][th] =
            Settled([t EXCEPT !.code = SubSeq(@, 2 + skipped, Len(@)), !.got = None], th)]
  /\ UNCHANGED <<file, conn, proc, launches, kills>>

Goes(p) == [thr EXCEPT ![p].main.code = Tail(@)]

\* Router::start(): the service thread runs; ~Router will join it.
Start(p) ==
  /\ At(p, "main", "start")
  /\ thr' = [thr EXCEPT ![p].main = Push([@ EXCEPT !.code = Tail(@)], "router")]
  /\ proc' = [proc EXCEPT ![p].alive = @ \cup {"router"}]
  /\ UNCHANGED <<file, conn, launches, kills>>

\* SSU::start(): the socket is bound, or the error is thrown on.
Listen(p) ==
  /\ At(p, "main", "listen")
  /\ \/ /\ thr' = Goes(p)
        /\ proc' = [proc EXCEPT ![p].alive = @ \cup {"ssu"}]
     \/ /\ thr' = [thr EXCEPT ![p].main = Unwound(@, "main")]
        /\ UNCHANGED proc
  /\ UNCHANGED <<file, conn, launches, kills>>

\* cv.wait(lock, [] { return quit; }): the predicate is evaluated, and only
\* then does the thread block.
Wait(p) ==
  /\ At(p, "main", "wait")
  /\ thr' = IF proc[p].quit THEN Goes(p)
            ELSE [thr EXCEPT ![p].main.code = <<Do("block")>> \o @]
  /\ UNCHANGED <<file, conn, proc, launches, kills>>

Block(p) ==
  /\ At(p, "main", "block")
  /\ thr' = [thr EXCEPT ![p].main.code[1] = Do("blocked")]
  /\ UNCHANGED <<file, conn, proc, launches, kills>>

\* The signal handlers set the flags and notify, without the mutex.  The
\* flags are first read by main's wait: an earlier signal is one that comes
\* just before it.
Signal(p, g) ==
  /\ \E k \in {"wait", "block", "blocked", "graceful"} : At(p, "main", k)
  /\ ~proc[p].quit \/ (g /\ ~proc[p].graceful) \/ At(p, "main", "blocked")
  /\ proc' = [proc EXCEPT ![p].quit = TRUE, ![p].graceful = @ \/ g]
  /\ thr' = IF At(p, "main", "blocked") THEN Goes(p) ELSE thr
  /\ UNCHANGED <<file, conn, launches, kills>>

\* Router::gracefulShutdown() goes through RouterImpl::trans, which nothing
\* sets.
Graceful(p) ==
  /\ At(p, "main", "graceful")
  /\ IF proc[p].graceful THEN Over(p, "crashed")
     ELSE thr' = Goes(p) /\ UNCHANGED <<conn, proc>>
  /\ UNCHANGED <<file, launches, kills>>

\* Router::stop()
Stop(p) ==
  /\ At(p, "main", "stop")
  /\ thr' = Goes(p)
  /\ proc' = [proc EXCEPT ![p].stopped = TRUE]
  /\ UNCHANGED <<file, conn, launches, kills>>

\* A service thread leaves ios.run() once its io_service is stopped.
Quit(p) ==
  /\ Running(p) /\ "router" \in proc[p].alive /\ proc[p].stopped
  /\ thr[p].router.code = <<>>
  /\ proc' = [proc EXCEPT ![p].alive = @ \ {"router"}]
  /\ UNCHANGED <<file, conn, thr, launches, kills>>

\* ~Router joins the service thread; with it goes the last reference to
\* SSU, whose destructor stops and joins SSU's thread.
Join(p) ==
  /\ At(p, "main", "join")
  /\ "router" \notin proc[p].alive /\ thr[p].ssu.code = <<>>
  /\ thr' = [thr EXCEPT ![p].main.code = Tail(@), ![p].main.scope = Tail(@)]
  /\ proc' = [proc EXCEPT ![p].alive = {}]
  /\ UNCHANGED <<file, conn, launches, kills>>

\* main() returns.
Return(p) ==
  /\ Running(p)
  /\ \/ thr[p].main.code = <<>> /\ Over(p, "success")
     \/ At(p, "main", "fail") /\ Over(p, "failure")
  /\ UNCHANGED <<file, launches, kills>>

-----------------------------------------------------------------------------
(* The environment.                                                        *)

Launch(p, kind) ==
  /\ ~Running(p) /\ launches < MaxLaunches /\ kind \in KindsOf[p]
  /\ \E code \in Programs(kind) :
       thr' = [thr EXCEPT ![p].main = [Idle EXCEPT !.code = code]]
  /\ proc' = [proc EXCEPT ![p] = [NotRunning(kind, "running") EXCEPT !.mixed = proc[p].mixed]]
  /\ launches' = launches + 1
  /\ UNCHANGED <<file, conn, kills>>

Handle(p, th) ==
  /\ Running(p) /\ th \in proc[p].alive /\ thr[p][th].code = <<>>
  /\ th = "router" => ~proc[p].stopped
  /\ proc[p].ops[th] < MaxOps
  /\ \E code \in Handlers(th) : thr' = [thr EXCEPT ![p][th].code = code]
  /\ proc' = [proc EXCEPT ![p].ops[th] = @ + 1]
  /\ UNCHANGED <<file, conn, launches, kills>>

Kill(p) ==
  /\ Running(p) /\ kills < MaxKills
  /\ Over(p, "crashed")
  /\ kills' = kills + 1
  /\ UNCHANGED <<file, launches>>

Next ==
  \E p \in Procs :
    \/ \E th \in Threads : StorageStep(p, th) \/ Unless(p, th)
    \/ Start(p) \/ Listen(p) \/ Wait(p) \/ Block(p) \/ Graceful(p) \/ Stop(p)
    \/ Quit(p) \/ Join(p) \/ Return(p)
    \/ \E kind \in Kinds : Launch(p, kind)
    \/ \E g \in BOOLEAN : Signal(p, g)
    \/ \E th \in Service : Handle(p, th)
    \/ Kill(p)

Spec == Init /\ [][Next]_vars

-----------------------------------------------------------------------------
(* Properties.                                                             *)

\* Type correctness of what the processes share and of their life cycle.
TypeOK ==
  /\ file.config \in [Names -> {None} \cup (Names \X {0, 1})]
  /\ file.raw \in [Routers -> {None} \cup Infos]
  /\ \A p \in Procs :
       /\ proc[p].status \in {"off", "running", "success", "failure", "crashed"}
       /\ proc[p].alive \subseteq Service
       /\ ~Running(p) => conn[p] = Closed /\ proc[p].alive = {}
       /\ \A th \in Threads : thr[p][th].held => 0 \in {conn[p].tx[n] : n \in 1 .. Len(conn[p].tx)}

\* The rows of r are those of one RouterInfo, or what deleteAllRouters
\* leaves of them: its raw form and its options.
WholeRouter(db, r) ==
  LET of(S) == {x \in S : x[1] = r}
      i == db.raw[r]
  IN  IF i = None
      THEN db.rows[r] = <<>> /\ of(db.addrs) \cup of(db.aopts) = {} /\ of(db.opts) = {}
      ELSE /\ of(db.opts) = {<<r, o, i>> : o \in {i.opts[n] : n \in 1 .. Len(i.opts)}}
           /\ of(db.addrs) = of(db.aopts)
           /\ \/ /\ db.rows[r] = <<i>>
                 /\ of(db.addrs) = {<<r, k, i>> : k \in 0 .. i.naddr - 1}
              \/ db.rows[r] = <<>> /\ of(db.addrs) = {}

\* What is on disk of a router is always one whole RouterInfo
\* (setRouterInfo's savepoint and the cascading REPLACE), whatever process
\* is killed, finds the file locked or overwrites what another stored; the
\* exception is a store that the two service threads of one process mix
\* into a transaction of the other.
StoresWhole ==
  (\A p \in Procs : ~proc[p].mixed) => \A r \in Routers : WholeRouter(file, r)

\* A command changes the file at most once, exactly once if it exits with
\* EXIT_SUCCESS and was to change it, and not at all if it exits with
\* EXIT_FAILURE (the guards' rollbacks and setRouterInfo's open savepoint).
CommandAtomic ==
  \A p \in Procs : proc[p].kind # "run" =>
    /\ proc[p].commits <= 1
    /\ proc[p].status = "success" =>
         proc[p].commits = (IF proc[p].kind \in Writers THEN 1 ELSE 0)
    /\ proc[p].status = "failure" => proc[p].commits = 0

\* getConfigValue answers with the value of the field ("@return the value
\* of the configuration field name", Database.h).
ConfigAnswers == \A p \in Procs : "empty" \notin proc[p].answers
=============================================================================
