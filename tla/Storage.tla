-------------------------------- MODULE Storage --------------------------------
(***************************************************************************)
(* The router database: the class Database over the sqlite3cc wrapper.     *)
(*                                                                         *)
(* A call of Database is a sequence of instructions (open, BEGIN,          *)
(* SAVEPOINT, ask a query, read its column, exec a command, COMMIT,        *)
(* RELEASE); Perform says what one instruction does to the file, to the    *)
(* process's connection with its cached statements, and to the thread that *)
(* runs it.  The destructors of statement_guard and transaction_guard run  *)
(* where a scope ends, and when an instruction throws.                     *)
(*                                                                         *)
(* SQLite itself is modelled from how this code uses it: a rollback        *)
(* journal with no busy timeout, one writer, and a commit that needs every *)
(* other connection to have stopped reading.                               *)
(***************************************************************************)
EXTENDS Naturals, Sequences, FiniteSets

CONSTANTS Routers,   \* ids of routers (their hashes)
          Infos,     \* RouterInfos: [id, ver, naddr, opts, good]
          None       \* no value: a model value

(***************************************************************************)
(* The names of the configuration table that the program reads.  A value   *)
(* is <<name, k>>, so that a value tells which field it belongs to; Empty  *)
(* is the empty string.                                                    *)
(***************************************************************************)
Keys == {"private_encryption_key", "private_signing_key"}
Names == Keys \cup {"control_server", "ssu_bind_ip", "ssu_external_ip", "min_peers"}
Empty == <<"", 0>>

-----------------------------------------------------------------------------
(* The tables.  rows is the table routers, which has no primary key.       *)

Blank == [made   |-> FALSE,
          config |-> [n \in Names |-> None],
          raw    |-> [r \in Routers |-> None],
          rows   |-> [r \in Routers |-> <<>>],
          addrs  |-> {}, aopts |-> {}, opts |-> {}]

SetConfig(db, v) == [db EXCEPT !.config[v[1]] = v]

\* Wrong: replacing the raw form leaves the other tables alone.
InsertRouterRawKeep(db, i) == [db EXCEPT !.raw[i.id] = i]

\* INSERT OR REPLACE INTO routers_raw: replacing a row deletes the old one,
\* and every table that references it cascades.
InsertRouterRaw(db, i) ==
  LET r == i.id
      gone(S) == {x \in S : x[1] # r}
  IN  IF db.raw[r] = None THEN [db EXCEPT !.raw[r] = i]
      ELSE [db EXCEPT !.raw[r] = i, !.rows[r] = <<>>,
                      !.addrs = gone(@), !.aopts = gone(@), !.opts = gone(@)]

InsertRouter(db, i) == [db EXCEPT !.rows[i.id] = Append(@, i)]

InsertAddress(db, i, k) ==
  LET other(S) == {x \in S : x[1] # i.id \/ x[2] # k}
  IN  [db EXCEPT !.addrs = other(@) \cup {<<i.id, k, i>>}, !.aopts = other(@)]

InsertAddressOption(db, i, k) ==
  [db EXCEPT !.aopts = {x \in @ : x[1] # i.id \/ x[2] # k} \cup {<<i.id, k, i>>}]

InsertOption(db, i, o) ==
  [db EXCEPT !.opts = {x \in @ : x[1] # i.id \/ x[2] # o} \cup {<<i.id, o, i>>}]

\* The foreign keys (PRAGMA foreign_keys=ON).
References(db, s, a) ==
  CASE s \in {"insert_router", "insert_router_address", "insert_router_option"} ->
         db.raw[a[1].id] # None
    [] s = "insert_router_address_option" ->
         \E x \in db.addrs : x[1] = a[1].id /\ x[2] = a[2]
    [] OTHER -> TRUE

\* What each cached command does.  Two commands are stored under the name
\* truncate_router_options, and the later one deletes from routers.
Apply(db, s, a) ==
  CASE s = "set_config" -> SetConfig(db, a[1])
    [] s = "insert_router_raw" -> InsertRouterRaw(db, a[1])
    [] s = "insert_router" -> InsertRouter(db, a[1])
    [] s = "insert_router_address" -> InsertAddress(db, a[1], a[2])
    [] s = "insert_router_address_option" -> InsertAddressOption(db, a[1], a[2])
    [] s = "insert_router_option" -> InsertOption(db, a[1], a[2])
    [] s = "truncate_profiles" -> db
    [] s = "truncate_router_address_options" -> [db EXCEPT !.aopts = {}]
    [] s = "truncate_router_addresses" -> [db EXCEPT !.addrs = {}, !.aopts = {}]
    [] s = "truncate_router_options" -> [db EXCEPT !.rows = [r \in Routers |-> <<>>]]
    [] s = "schema" -> [db EXCEPT !.made = TRUE]

\* The rows a query may answer with; {None} when there is none.
Answers(db, s, a) ==
  CASE s = "get_config" -> {db.config[a]}
    [] s = "router_exists" -> {db.raw[a] # None}
    [] s = "get_router_raw" -> {IF a \in Routers THEN db.raw[a] ELSE None}
    [] s = "get_random_router" ->
         LET known == {r \in Routers : db.rows[r] # <<>>}
         IN  IF known = {} THEN {None} ELSE known

-----------------------------------------------------------------------------
(* A connection with the statements cached in Database::queries and        *)
(* Database::commands.  bound: _bind_index has passed the last parameter.  *)
(* run: where sqlite3_step left the statement.                             *)

Queries == {"get_config", "router_exists", "get_router_raw", "get_random_router"}
Truncates == {"truncate_profiles", "truncate_router_address_options",
              "truncate_router_addresses", "truncate_router_options"}
Inserts == {"set_config", "insert_router_raw", "insert_router", "insert_router_address",
            "insert_router_address_option", "insert_router_option"}
Statements == Queries \cup Truncates \cup Inserts

\* how many parameters: none, or all of them bound by one guard
Parameters(s) == s \notin Truncates \cup {"get_random_router"}

Ready == [bound |-> FALSE, val |-> None, run |-> "ready", row |-> None]

\* clear_bindings() and reset(), which ~statement_guard calls
ClearAndReset(c, s) == [c EXCEPT !.st[s] = Ready]

\* tx: 0 for BEGIN, n > 0 for the savepoint n; <<>> is autocommit
Closed == [open |-> FALSE, tx |-> <<>>, wrote |-> FALSE, read |-> FALSE,
           pending |-> FALSE, db |-> Blank, st |-> [s \in Statements |-> Ready]]

View(f, c) == IF c.wrote THEN c.db ELSE f

Reading(c) == c.read \/ c.wrote \/ \E s \in Queries : c.st[s].run = "row"

\* SQLITE_BUSY: no handler and no timeout is set, so the call fails at once.
ReadBusy(others) == \E o \in others : o.pending
WriteBusy(others) == \E o \in others : o.wrote \/ o.pending
CommitBusy(others) == \E o \in others : Reading(o)

\* reset_active_queries() resets every statement of the connection, and
\* throws the code of a step that failed.
Failed(c) == \E s \in Statements : c.st[s].run = "err"
ResetActiveQueries(c) ==
  [c EXCEPT !.st = [s \in Statements |-> [@[s] EXCEPT !.run = "ready", !.row = None]]]

Autocommit(c) == [c EXCEPT !.tx = <<>>, !.wrote = FALSE, !.read = FALSE,
                           !.pending = FALSE, !.db = Blank]

-----------------------------------------------------------------------------
(* Instructions.  s: the statement; a: its arguments; n: how many scopes   *)
(* end right after it.                                                     *)

Ins(k, s, a, n) == [k |-> k, s |-> s, a |-> a, n |-> n]
Do(k) == Ins(k, "", <<>>, 0)

(* A thread: what is left of the call, the destructors of the scopes it is *)
(* in, whether its transaction_guard is unreleased, its savepoint, and the *)
(* answer of its last query.                                               *)
Idle == [code |-> <<>>, scope |-> <<>>, held |-> FALSE, sp |-> 0, got |-> None]

\* Outcomes: the call goes on, throws, or ends the process (an exception
\* that leaves a destructor).
On(f, c, t) == [f |-> f, c |-> c, t |-> t, how |-> "on"]
Throw(f, c, t) == [f |-> f, c |-> c, t |-> t, how |-> "throw"]

Push(t, d) == [t EXCEPT !.scope = <<d>> \o @]

\* basic_statement::operator<<: sqlite refuses a statement that is not
\* reset, or an index past the last parameter.
CanBind(c, s) == Parameters(s) => ~c.st[s].bound /\ c.st[s].run = "ready"

\* A statement_guard on a query, and query::step(): a row, no row (every
\* caller here throws), or an error.
Ask(f, c, t, s, a, others) ==
  LET c1 == [c EXCEPT !.read = @ \/ c.tx # <<>>, !.st[s].bound = Parameters(s)]
      t1 == Push(t, s)
      row(x) == IF x = None THEN Throw(f, [c1 EXCEPT !.st[s].run = "done"], t1)
                ELSE On(f, [c1 EXCEPT !.st[s].run = "row", !.st[s].row = x], t1)
  IN  IF ~CanBind(c, s) THEN {Throw(f, c, t)}
      ELSE IF ReadBusy(others) THEN {Throw(f, [c EXCEPT !.st[s].run = "err"], t1)}
      ELSE {row(x) : x \in Answers(View(f, c), s, a)}

\* row::operator>>: the column is NULL once the statement has been reset,
\* and NULL is read as an empty value.  getRouterInfo parses what it reads
\* and checks the signature.
Column(f, c, t, s) ==
  LET there == c.st[s].run = "row"
      x == IF there THEN c.st[s].row
           ELSE CASE s = "router_exists" -> FALSE
                  [] s = "get_config" -> Empty
                  [] OTHER -> ""
  IN  IF s = "get_router_raw" /\ (~there \/ ~x.good) THEN {Throw(f, c, t)}
      ELSE {On(f, c, [t EXCEPT !.got = IF s = "get_router_raw" THEN None ELSE x])}

\* A write: pending changes are the connection's own until its transaction
\* commits.  Outside a transaction the statement commits by itself.
Write(f, c, db, others) ==
  IF WriteBusy(others) \/ (c.tx = <<>> /\ CommitBusy(others)) THEN None
  ELSE IF c.tx = <<>> THEN [f |-> db, c |-> c]
  ELSE [f |-> f, c |-> [c EXCEPT !.wrote = TRUE, !.db = db]]

\* A statement_guard with sqlite::exec: binding and command::step() are in
\* its constructor, so when either throws the destructor never runs.
Execute(f, c, t, s, a, others) ==
  LET db == View(f, c)
      w == Write(f, c, Apply(db, s, a), others)
      bad == [c EXCEPT !.st[s].bound = Parameters(s), !.st[s].run = "err"]
      ran(d) == [d EXCEPT !.st[s].bound = Parameters(s), !.st[s].run = "done"]
  IN  IF ~CanBind(c, s) THEN {Throw(f, c, t)}
      ELSE IF ~References(db, s, a) \/ w = None THEN {Throw(f, bad, t)}
      ELSE {On(w.f, ran(w.c), Push(t, s))}

\* connection::exec() and the temporary commands of createDb
Direct(f, c, t, s, a, others) ==
  LET w == Write(f, c, Apply(View(f, c), s, a), others)
  IN  IF w = None THEN {Throw(f, c, t)} ELSE {On(w.f, w.c, t)}

Begin(f, c, t) ==
  IF c.tx # <<>> THEN {Throw(f, c, t)}
  ELSE {On(f, [c EXCEPT !.tx = <<0>>], Push([t EXCEPT !.held = TRUE], "transaction"))}

\* COMMIT, or RELEASE of the outermost savepoint
CommitAll(f, c, t, others) ==
  IF c.wrote /\ CommitBusy(others) THEN {Throw(f, [c EXCEPT !.pending = TRUE], t)}
  ELSE {On(View(f, c), Autocommit(c), [t EXCEPT !.held = FALSE, !.sp = 0])}

Commit(f, c, t, others) ==
  LET c1 == ResetActiveQueries(c)
  IN  IF Failed(c) \/ c.tx = <<>> THEN {Throw(f, c1, t)} ELSE CommitAll(f, c1, t, others)

Savepoint(f, c, t) ==
  LET n == Len(c.tx) + 1
  IN  {On(f, [c EXCEPT !.tx = Append(@, n)], [t EXCEPT !.sp = n])}

Release(f, c, t, others) ==
  LET c1 == ResetActiveQueries(c)
      at == {n \in 1 .. Len(c.tx) : c.tx[n] = t.sp}
  IN  IF Failed(c) \/ at = {} THEN {Throw(f, c1, t)}
      ELSE IF 1 \in at THEN CommitAll(f, c1, t, others)
      ELSE {On(f, [c1 EXCEPT !.tx = SubSeq(@, 1, (CHOOSE n \in at : TRUE) - 1)],
               [t EXCEPT !.sp = 0])}

\* The destructor of the innermost scope: ~statement_guard, or
\* ~transaction_guard, which rolls back unless released.  A rollback that
\* throws leaves the destructor and ends the process.
EndScope(o) ==
  LET d == Head(o.t.scope)
      t == [o.t EXCEPT !.scope = Tail(@)]
      rolled == [o EXCEPT !.c = Autocommit(ResetActiveQueries(o.c)), !.t = [t EXCEPT !.held = FALSE]]
  IN  IF d # "transaction" THEN [o EXCEPT !.c = ClearAndReset(o.c, d), !.t = t]
      ELSE IF ~o.t.held THEN [o EXCEPT !.t = t]
      ELSE IF Failed(o.c) \/ o.c.tx = <<>> THEN [rolled EXCEPT !.how = "die"]
      ELSE rolled

\* n scopes end; all of those above "router" do when an exception passes.
Leave(o, n) ==
  LET ends[k \in 0 .. n] == IF k = 0 THEN o ELSE EndScope(ends[k - 1])
  IN  ends[n]

Guards(t) == Len(SelectSeq(t.scope, LAMBDA d : d # "router"))

\* Database::Database: preparing the statements needs the tables.
Open(f, c, t, others) ==
  IF ~f.made \/ ReadBusy(others) THEN {Throw(f, c, t)}
  ELSE {On(f, [Closed EXCEPT !.open = TRUE], t)}

\* getAllHashes reads routers_raw with a query of its own.
Hashes(f, c, t, others) == IF ReadBusy(others) THEN {Throw(f, c, t)} ELSE {On(f, c, t)}

\* What the instruction i does by itself ...
Effects(i, f, c, t, others) ==
  CASE i.k = "open" -> Open(f, c, t, others)
    [] i.k = "hashes" -> Hashes(f, c, t, others)
    [] i.k = "ask" -> Ask(f, c, t, i.s, i.a, others)
    [] i.k = "askGot" -> Ask(f, c, t, i.s, t.got, others)
    [] i.k = "column" -> Column(f, c, t, i.s)
    [] i.k = "exec" -> Execute(f, c, t, i.s, i.a, others)
    [] i.k = "direct" -> Direct(f, c, t, i.s, i.a, others)
    [] i.k = "begin" -> Begin(f, c, t)
    [] i.k = "commit" -> Commit(f, c, t, others)
    [] i.k = "savepoint" -> Savepoint(f, c, t)
    [] i.k = "release" -> Release(f, c, t, others)

\* ... and with the destructors that run after it.
Perform(i, f, c, t, others) ==
  {Leave(o, IF o.how = "on" THEN i.n ELSE Guards(o.t)) : o \in Effects(i, f, c, t, others)}

-----------------------------------------------------------------------------
(* The calls of Database, as instructions.                                 *)

Query(s, a, n) == <<Ins("ask", s, a, 0), Ins("column", s, a, n)>>

GetConfigValue(name) == Query("get_config", name, 1)

SetConfigValue(v) == <<Ins("exec", "set_config", <<v>>, 1)>>

GetRandomRouter == Query("get_random_router", "", 1)

RouterExists(r) == Query("router_exists", r, 1)

GetRouterInfo(r) ==
  <<Do("begin")>> \o Query("get_router_raw", r, 0) \o <<Ins("commit", "", <<>>, 2)>>

\* ProfileManager::getPeer: the RouterInfo of a random router
GetPeer ==
  GetRandomRouter \o <<Do("begin"), Ins("askGot", "get_router_raw", "", 0),
                       Ins("column", "get_router_raw", "", 0), Ins("commit", "", <<>>, 2)>>

DeleteAllRouters ==
  <<Do("begin"),
    Ins("exec", "truncate_profiles", <<>>, 0),
    Ins("exec", "truncate_router_address_options", <<>>, 0),
    Ins("exec", "truncate_router_addresses", <<>>, 0),
    Ins("exec", "truncate_router_options", <<>>, 0),
    Ins("exec", "truncate_router_options", <<>>, 0),
    Ins("commit", "", <<>>, 6)>>

\* setRouterInfo of one RouterInfo: a savepoint that no guard protects.
\* Each address has one option.
SetRouterInfo(i) ==
  LET address(k) == <<Ins("exec", "insert_router_address", <<i, k>>, 0),
                      Ins("exec", "insert_router_address_option", <<i, k>>, 2)>>
      addresses[k \in 0 .. i.naddr] ==
        IF k = 0 THEN <<>> ELSE addresses[k - 1] \o address(k - 1)
      option(o) == Ins("exec", "insert_router_option", <<i, o>>, 1)
  IN  <<Do("savepoint"), Ins("exec", "insert_router_raw", <<i>>, 0),
        Ins("exec", "insert_router", <<i>>, 0)>>
      \o addresses[i.naddr] \o [k \in 1 .. Len(i.opts) |-> option(i.opts[k])]
      \o <<Ins("release", "", <<>>, 2)>>

\* Wrong: a vector is stored without a transaction around it.
SetRouterInfosUnguarded(is) ==
  LET stores[n \in 0 .. Len(is)] ==
        IF n = 0 THEN <<>> ELSE stores[n - 1] \o SetRouterInfo(is[n])
  IN  stores[Len(is)]

\* setRouterInfo of a vector: each in its savepoint, all in one transaction
SetRouterInfos(is) ==
  LET stores[n \in 0 .. Len(is)] ==
        IF n = 0 THEN <<>> ELSE stores[n - 1] \o SetRouterInfo(is[n])
  IN  <<Do("begin")>> \o stores[Len(is)] \o <<Ins("commit", "", <<>>, 1)>>

\* createDb, with a connection of its own; g tells new keys from older ones
CreateDb(g) ==
  <<Do("begin"), Ins("direct", "schema", <<>>, 0),
    Ins("direct", "set_config", << <<"private_encryption_key", g>> >>, 0),
    Ins("direct", "set_config", << <<"private_signing_key", g>> >>, 0),
    Ins("commit", "", <<>>, 1)>>
=============================================================================
