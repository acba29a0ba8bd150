--------------------------------- MODULE Locks ---------------------------------
(***************************************************************************)
(* Threads that run handlers under std::mutex.  A handler is given by what  *)
(* it does to mutexes, in order: a script of lock, unlock, read, write,     *)
(* stop and join operations.  A read or write names the mutex that guards   *)
(* the data it touches, whether or not the script holds it.  RouterLocks    *)
(* gives the scripts of the router's handlers.                              *)
(***************************************************************************)
EXTENDS Integers, Sequences

CONSTANTS
  Thread, NoThread,
  Mutex,
  Program,    \* the scripts of the handlers each thread may run
  Rank,       \* an order of the mutexes
  MaxRank,
  Watched     \* the data looked at for races

ASSUME LocksAssumption ==
  /\ NoThread \notin Thread
  /\ MaxRank \in Nat /\ Rank \in [Mutex -> 0..MaxRank]
  /\ Watched \subseteq Mutex
  /\ \A t \in Thread : \A s \in Program[t] :
       s \in Seq([op : {"lock", "unlock", "read", "write", "stop", "join"},
                 at : Mutex \cup Thread])

VARIABLES
  script,   \* the handler each thread is in
  pc,       \* the index of its next operation
  owner,    \* the thread that holds each mutex
  stopped,  \* threads whose io_service has been stopped
  exited    \* threads whose run() has returned

vars == <<script, pc, owner, stopped, exited>>

Idle(t) == pc[t] > Len(script[t])
At(t, o) == ~Idle(t) /\ script[t][pc[t]].op = o
Arg(t) == script[t][pc[t]].at

Advance(t) == pc' = [pc EXCEPT ![t] = @ + 1]

-----------------------------------------------------------------------------
\* The run loop takes the next handler, unless the io_service is stopped.
Dispatch(t) ==
  /\ Idle(t) /\ t \notin stopped
  /\ \E s \in Program[t] :
       /\ script' = [script EXCEPT ![t] = s]
       /\ pc' = [pc EXCEPT ![t] = 1]
  /\ UNCHANGED <<owner, stopped, exited>>

Exit(t) ==
  /\ Idle(t) /\ t \in stopped \ exited
  /\ exited' = exited \cup {t}
  /\ UNCHANGED <<script, pc, owner, stopped>>

\* Locking a mutex the thread holds already blocks it for ever.
Lock(t) ==
  /\ At(t, "lock") /\ owner[Arg(t)] = NoThread
  /\ owner' = [owner EXCEPT ![Arg(t)] = t]
  /\ Advance(t)
  /\ UNCHANGED <<script, stopped, exited>>

Unlock(t) ==
  /\ At(t, "unlock")
  /\ owner' = [owner EXCEPT ![Arg(t)] = NoThread]
  /\ Advance(t)
  /\ UNCHANGED <<script, stopped, exited>>

Access(t) ==
  /\ At(t, "read") \/ At(t, "write")
  /\ Advance(t)
  /\ UNCHANGED <<script, owner, stopped, exited>>

Stop(t) ==
  /\ At(t, "stop")
  /\ stopped' = stopped \cup {Arg(t)}
  /\ Advance(t)
  /\ UNCHANGED <<script, owner, exited>>

Join(t) ==
  /\ At(t, "join") /\ Arg(t) \in exited
  /\ Advance(t)
  /\ UNCHANGED <<script, owner, stopped, exited>>

Init ==
  /\ script = [t \in Thread |-> <<>>]
  /\ pc = [t \in Thread |-> 1]
  /\ owner = [m \in Mutex |-> NoThread]
  /\ stopped = {} /\ exited = {}

Step(t) ==
  Dispatch(t) \/ Exit(t) \/ Lock(t) \/ Unlock(t) \/ Access(t) \/ Stop(t) \/ Join(t)

Next == \E t \in Thread : Step(t)

Spec == Init /\ [][Next]_vars

-----------------------------------------------------------------------------
(* What scripts must do to be safe                                           *)

Is(s, i, o, m) == s[i].op = o /\ s[i].at = m

\* The mutexes a script holds before its operation i.
HeldAt(s, i) ==
  {s[j].at : j \in {l \in 1..(i - 1) :
     /\ s[l].op = "lock"
     /\ \A k \in (l + 1)..(i - 1) : ~Is(s, k, "unlock", s[l].at)}}

Uses(t) == {m \in Mutex : \E s \in Program[t] : \E i \in 1..Len(s) : Is(s, i, "lock", m)}

\* The mutexes that several threads use.
Shared == {m \in Mutex : \E t, u \in Thread : t # u /\ m \in Uses(t) \cap Uses(u)}

\* A script locks nothing it holds, unlocks what it holds, and ends with nothing.
Balanced(s) ==
  /\ \A i \in 1..Len(s) :
       /\ s[i].op = "lock" => s[i].at \in Mutex \ HeldAt(s, i)
       /\ s[i].op = "unlock" => s[i].at \in HeldAt(s, i)
  /\ HeldAt(s, Len(s) + 1) = {}

\* Mutexes that several threads use are taken in the order of their rank.
Ascends(s) ==
  \A i \in 1..Len(s) :
    s[i].op = "lock" /\ s[i].at \in Shared =>
      \A m \in HeldAt(s, i) \cap Shared : Rank[m] < Rank[s[i].at]

Joins(t) == \E s \in Program[t] : \E i \in 1..Len(s) : s[i].op = "join"

\* The lock discipline: every handler a thread is in unlocks what it locks, takes
\* shared mutexes in the order of their rank, and joins a thread only while it
\* holds nothing and only a thread that joins none itself.  It is about the
\* nesting of the router's lock_guards, through all the calls made under them.
Disciplined ==
  \A t \in Thread :
    LET s == script[t] IN
    /\ Balanced(s)
    /\ Ascends(s)
    /\ \A i \in 1..Len(s) :
         s[i].op = "join" => HeldAt(s, i) = {} /\ ~Joins(s[i].at)

\* Every handler a thread is in touches watched data under its mutex only, as the
\* lock_guards of the router are there to do.
Guarded ==
  \A t \in Thread :
    LET s == script[t] IN
    \A i \in 1..Len(s) :
      s[i].op \in {"read", "write"} /\ s[i].at \in Watched => s[i].at \in HeldAt(s, i)

-----------------------------------------------------------------------------
(* Properties                                                                *)

\* Type correctness.
TypeOK ==
  /\ \A t \in Thread : script[t] = <<>> \/ script[t] \in Program[t]
  /\ pc \in [Thread -> Nat \ {0}]
  /\ owner \in [Mutex -> Thread \cup {NoThread}]
  /\ exited \subseteq stopped /\ stopped \subseteq Thread

WaitsFor(t, u) ==
  \/ At(t, "lock") /\ owner[Arg(t)] = u
  \/ At(t, "join") /\ Arg(t) = u /\ u \notin exited

\* No deadlock: among any threads one does not wait for another of them, or for
\* itself.  It is about every lock_guard of the router: what is called while one
\* is held decides it.
NoDeadlock ==
  \A S \in SUBSET Thread :
    S # {} => \E t \in S : \A u \in S : ~WaitsFor(t, u)

\* No data race: no two threads are at the same watched data, one of them to
\* change it.
NoRace ==
  \A t, u \in Thread :
    /\ t # u
    /\ At(t, "write")
    /\ At(u, "write") \/ At(u, "read")
    /\ Arg(t) \in Watched
    => Arg(t) # Arg(u)
=============================================================================
