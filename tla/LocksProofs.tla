------------------------------ MODULE LocksProofs ------------------------------
(***************************************************************************)
(* What the discipline of Locks is good for, for any threads, mutexes and   *)
(* scripts: Disciplined scripts never deadlock, Guarded ones never race.    *)
(***************************************************************************)
EXTENDS Locks, WellFoundedInduction, TLAPS

Script == Seq([op : {"lock", "unlock", "read", "write", "stop", "join"},
               at : Mutex \cup Thread])

\* The length of a script is a number.
LEMMA ScriptLen ==
  ASSUME NEW s \in Script PROVE Len(s) \in Nat
BY DEF Script

-----------------------------------------------------------------------------
(* What one operation does to the mutexes a script holds                     *)

\* Membership in HeldAt, without the set of positions.
LEMMA HeldMember ==
  ASSUME NEW s, NEW i, NEW m
  PROVE  m \in HeldAt(s, i) <=>
           \E j \in 1..(i - 1) :
             /\ s[j].op = "lock" /\ s[j].at = m
             /\ \A k \in (j + 1)..(i - 1) : ~(s[k].op = "unlock" /\ s[k].at = m)
BY DEF HeldAt, Is

\* A script begins without mutexes.
LEMMA HeldFirst ==
  ASSUME NEW s PROVE HeldAt(s, 1) = {}
BY DEF HeldAt

\* What one operation changes.
LEMMA HeldNext ==
  ASSUME NEW s \in Script, NEW i \in 1..Len(s), NEW m
  PROVE  m \in HeldAt(s, i + 1) <=>
           \/ s[i].op = "lock" /\ s[i].at = m
           \/ m \in HeldAt(s, i) /\ ~(s[i].op = "unlock" /\ s[i].at = m)
<1> DEFINE Locks(j) == s[j].op = "lock" /\ s[j].at = m
           Unlocks(j) == s[j].op = "unlock" /\ s[j].at = m
<1>1. i \in Nat /\ i >= 1 /\ (i + 1) - 1 = i
  BY DEF Script
<1>2. /\ 1..i = 1..(i - 1) \cup {i} /\ (i + 1)..i = {}
      /\ \A j \in 1..(i - 1) : (j + 1)..i = (j + 1)..(i - 1) \cup {i}
  BY <1>1
<1>3. m \in HeldAt(s, i + 1) <=>
        \E j \in 1..i : Locks(j) /\ \A k \in (j + 1)..i : ~Unlocks(k)
  BY <1>1, HeldMember
<1>4. m \in HeldAt(s, i) <=>
        \E j \in 1..(i - 1) : Locks(j) /\ \A k \in (j + 1)..(i - 1) : ~Unlocks(k)
  BY HeldMember
<1> HIDE DEF Locks, Unlocks
<1>5. ASSUME NEW j \in 1..i, Locks(j), \A k \in (j + 1)..i : ~Unlocks(k)
      PROVE  Locks(i) \/ (m \in HeldAt(s, i) /\ ~Unlocks(i))
  <2>1. CASE j = i
    BY <1>5, <2>1, Zenon
  <2>2. CASE j \in 1..(i - 1)
    BY <1>2, <1>4, <1>5, <2>2, Zenon
  <2> QED BY <1>2, <2>1, <2>2, Zenon
<1>6. ASSUME Locks(i)
      PROVE  \E j \in 1..i : Locks(j) /\ \A k \in (j + 1)..i : ~Unlocks(k)
  BY <1>2, <1>6, Zenon
<1>7. ASSUME NEW j \in 1..(i - 1), Locks(j), \A k \in (j + 1)..(i - 1) : ~Unlocks(k), ~Unlocks(i)
      PROVE  \E l \in 1..i : Locks(l) /\ \A k \in (l + 1)..i : ~Unlocks(k)
  <2>1. \A k \in (j + 1)..i : ~Unlocks(k)
    BY <1>2, <1>7, Zenon
  <2>2. j \in 1..i
    BY <1>2, Zenon
  <2> QED BY <1>7, <2>1, <2>2, Zenon
<1>8. m \in HeldAt(s, i + 1) <=> Locks(i) \/ (m \in HeldAt(s, i) /\ ~Unlocks(i))
  BY <1>3, <1>4, <1>5, <1>6, <1>7, Zenon
<1> QED BY <1>8, Zenon DEF Locks, Unlocks

\* Locking adds the mutex.
LEMMA HeldLock ==
  ASSUME NEW s \in Script, NEW i \in 1..Len(s), s[i].op = "lock"
  PROVE  HeldAt(s, i + 1) = HeldAt(s, i) \cup {s[i].at}
BY HeldNext, Zenon

\* Unlocking removes it.
LEMMA HeldUnlock ==
  ASSUME NEW s \in Script, NEW i \in 1..Len(s), s[i].op = "unlock"
  PROVE  HeldAt(s, i + 1) = HeldAt(s, i) \ {s[i].at}
BY HeldNext, Zenon

\* The other operations change nothing.
LEMMA HeldOther ==
  ASSUME NEW s \in Script, NEW i \in 1..Len(s), s[i].op \notin {"lock", "unlock"}
  PROVE  HeldAt(s, i + 1) = HeldAt(s, i)
BY HeldNext, Zenon

\* What a thread holds is among the mutexes its program uses.
LEMMA HeldUsed ==
  ASSUME NEW t \in Thread, NEW s \in Program[t], Balanced(s),
         NEW i \in 1..(Len(s) + 1), NEW m \in HeldAt(s, i)
  PROVE  m \in Uses(t)
<1>1. s \in Script
  BY LocksAssumption, Zenon DEF Script
<1>2. PICK j \in 1..(i - 1) : s[j].op = "lock" /\ s[j].at = m
  BY HeldMember
<1>3. j \in 1..Len(s)
  BY <1>1, <1>2 DEF Script
<1>4. m \in Mutex
  BY <1>2, <1>3 DEF Balanced
<1> QED BY <1>2, <1>3, <1>4 DEF Uses, Is

-----------------------------------------------------------------------------
(* The invariant: the owner of a mutex is the thread whose script holds it   *)

Held(t) == HeldAt(script[t], pc[t])

Inv ==
  /\ script \in [Thread -> Script]
  /\ \A t \in Thread : script[t] = <<>> \/ script[t] \in Program[t]
  /\ pc \in [Thread -> Nat]
  /\ \A t \in Thread : pc[t] \in 1..(Len(script[t]) + 1)
  /\ owner \in [Mutex -> Thread \cup {NoThread}]
  /\ \A t \in Thread : Held(t) \subseteq Mutex
  /\ \A t \in Thread, m \in Mutex : owner[m] = t <=> m \in Held(t)

\* A thread at an operation is in a script of its program.
LEMMA AtScript ==
  ASSUME Inv, NEW t \in Thread, ~Idle(t)
  PROVE  /\ script[t] \in Program[t] /\ script[t] \in Script
         /\ pc[t] \in 1..Len(script[t])
<1>1. script[t] # <<>>
  BY DEF Inv, Idle
<1>2. script[t] \in Script /\ Len(script[t]) \in Nat
  BY ScriptLen DEF Inv
<1> QED BY <1>1, <1>2 DEF Inv, Idle

\* A thread between two handlers holds nothing.
LEMMA IdleHeld ==
  ASSUME Disciplined, Inv, NEW t \in Thread, Idle(t)
  PROVE  Held(t) = {}
<1>1. script[t] \in Script /\ Len(script[t]) \in Nat
  BY ScriptLen DEF Inv
<1>2. pc[t] = Len(script[t]) + 1
  BY <1>1 DEF Inv, Idle
<1>3. CASE script[t] = <<>>
  BY <1>2, <1>3, HeldFirst DEF Held
<1>4. CASE script[t] \in Program[t]
  BY <1>2, <1>4 DEF Held, Disciplined, Balanced
<1> QED BY <1>3, <1>4 DEF Inv

\* A step that moves one thread on and leaves owners as what is held then.
LEMMA MovePreserves ==
  ASSUME Inv, NEW t \in Thread, ~Idle(t), Advance(t), script' = script,
         owner' \in [Mutex -> Thread \cup {NoThread}],
         HeldAt(script[t], pc[t] + 1) \subseteq Mutex,
         \A m \in Mutex : owner'[m] = t <=> m \in HeldAt(script[t], pc[t] + 1),
         \A u \in Thread \ {t}, m \in Mutex : owner'[m] = u <=> owner[m] = u
  PROVE  Inv'
<1>1. script[t] \in Script /\ pc[t] \in 1..Len(script[t]) /\ Len(script[t]) \in Nat
  BY AtScript, ScriptLen
<1>2. pc'[t] = pc[t] + 1 /\ \A u \in Thread \ {t} : pc'[u] = pc[u]
  BY DEF Inv, Advance
<1>3. pc' \in [Thread -> Nat] /\ \A u \in Thread : pc'[u] \in 1..(Len(script[u]) + 1)
  BY <1>1, <1>2 DEF Inv, Advance
<1>4. Held(t)' = HeldAt(script[t], pc[t] + 1) /\ \A u \in Thread \ {t} : Held(u)' = Held(u)
  BY <1>2 DEF Held
<1>5. \A u \in Thread : Held(u)' \subseteq Mutex
  BY <1>4 DEF Inv
<1>6. ASSUME NEW u \in Thread, NEW m \in Mutex
      PROVE  owner'[m] = u <=> m \in Held(u)'
  <2>1. CASE u = t
    BY <1>4, <2>1
  <2>2. CASE u # t
    <3>1. Held(u)' = Held(u)
      BY <1>4, <2>2
    <3>2. owner[m] = u <=> m \in Held(u)
      BY DEF Inv
    <3>3. owner'[m] = u <=> owner[m] = u
      BY <2>2
    <3> QED BY <3>1, <3>2, <3>3
  <2> QED BY <2>1, <2>2
<1> QED BY <1>3, <1>5, <1>6 DEF Inv

\* The invariant holds at the start.
LEMMA InitInv == Init => Inv
<1> SUFFICES ASSUME Init PROVE Inv
  OBVIOUS
<1>2. <<>> \in Script /\ Len(<<>>) = 0
  BY DEF Script
<1>3. \A t \in Thread : script[t] = <<>> /\ pc[t] = 1 /\ Held(t) = {}
  BY HeldFirst, Zenon DEF Init, Held
<1>4. \A m \in Mutex : owner[m] = NoThread
  BY DEF Init
<1>5. \A t \in Thread, m \in Mutex : owner[m] = t <=> m \in Held(t)
  BY <1>3, <1>4, LocksAssumption
<1> QED BY <1>2, <1>3, <1>5 DEF Init, Inv

\* The run loop starts a handler while nothing is held.
LEMMA DispatchInv ==
  ASSUME Disciplined, Inv, NEW t \in Thread, Dispatch(t)
  PROVE  Inv'
<1>1. PICK s \in Program[t] :
        script' = [script EXCEPT ![t] = s] /\ pc' = [pc EXCEPT ![t] = 1]
  BY Zenon DEF Dispatch
<1>2. s \in Script /\ Len(s) \in Nat
  BY ScriptLen, LocksAssumption, Zenon DEF Script
<1>3. /\ script'[t] = s /\ pc'[t] = 1
      /\ \A u \in Thread \ {t} : script'[u] = script[u] /\ pc'[u] = pc[u]
  BY <1>1 DEF Inv
<1>4. owner' = owner
  BY DEF Dispatch
<1>5. Held(t) = {} /\ Held(t)' = {}
  BY <1>3, IdleHeld, HeldFirst DEF Dispatch, Held
<1>6. \A u \in Thread \ {t} : Held(u)' = Held(u)
  BY <1>3 DEF Held
<1>7. \A u \in Thread : Held(u)' = Held(u)
  BY <1>5, <1>6
<1>8. script' \in [Thread -> Script] /\ pc' \in [Thread -> Nat]
  BY <1>1, <1>2 DEF Inv
<1>9. \A u \in Thread : script'[u] = <<>> \/ script'[u] \in Program[u]
  BY <1>3 DEF Inv
<1>10. \A u \in Thread : pc'[u] \in 1..(Len(script'[u]) + 1)
  BY <1>2, <1>3 DEF Inv
<1>11. \A u \in Thread, m \in Mutex : owner'[m] = u <=> m \in Held(u)'
  BY <1>4, <1>7 DEF Inv
<1>12. \A u \in Thread : Held(u)' \subseteq Mutex
  BY <1>7 DEF Inv
<1> QED BY <1>4, <1>8, <1>9, <1>10, <1>11, <1>12 DEF Inv

\* Locking and unlocking keep owners and scripts together.
LEMMA LockInv ==
  ASSUME Disciplined, Inv, NEW t \in Thread, Lock(t)
  PROVE  Inv'
<1>1. ~Idle(t) /\ script[t][pc[t]].op = "lock"
  BY DEF Lock, At
<1>2. /\ script[t] \in Program[t] /\ script[t] \in Script
      /\ pc[t] \in 1..Len(script[t])
  BY <1>1, AtScript
<1>3. Arg(t) \in Mutex
  BY <1>1, <1>2 DEF Disciplined, Balanced, Arg
<1>4. HeldAt(script[t], pc[t] + 1) = Held(t) \cup {Arg(t)}
  BY <1>1, <1>2, HeldLock, Zenon DEF Held, Arg
<1>5. owner[Arg(t)] = NoThread /\ owner' = [owner EXCEPT ![Arg(t)] = t]
  BY DEF Lock
<1>6. owner' \in [Mutex -> Thread \cup {NoThread}]
  BY <1>5, Zenon DEF Inv
<1>7. owner'[Arg(t)] = t /\ \A m \in Mutex \ {Arg(t)} : owner'[m] = owner[m]
  BY <1>3, <1>5 DEF Inv
<1>8. \A m \in Mutex : owner'[m] = t <=> m \in HeldAt(script[t], pc[t] + 1)
  BY <1>4, <1>7 DEF Inv
<1>9. \A u \in Thread \ {t}, m \in Mutex : owner'[m] = u <=> owner[m] = u
  BY <1>5, <1>7, LocksAssumption
<1>10. HeldAt(script[t], pc[t] + 1) \subseteq Mutex
  BY <1>3, <1>4 DEF Inv
<1> QED BY <1>1, <1>6, <1>8, <1>9, <1>10, MovePreserves DEF Lock

\* Unlocking gives up a mutex the thread owns.
LEMMA UnlockInv ==
  ASSUME Disciplined, Inv, NEW t \in Thread, Unlock(t)
  PROVE  Inv'
<1>1. ~Idle(t) /\ script[t][pc[t]].op = "unlock"
  BY DEF Unlock, At
<1>2. /\ script[t] \in Program[t] /\ script[t] \in Script
      /\ pc[t] \in 1..Len(script[t])
  BY <1>1, AtScript
<1>3. Arg(t) \in Held(t)
  BY <1>1, <1>2 DEF Disciplined, Balanced, Arg, Held
<1>4. Arg(t) \in Mutex /\ owner[Arg(t)] = t
  BY <1>3 DEF Inv
<1>5. HeldAt(script[t], pc[t] + 1) = Held(t) \ {Arg(t)}
  BY <1>1, <1>2, HeldUnlock DEF Held, Arg
<1>6. owner' = [owner EXCEPT ![Arg(t)] = NoThread]
  BY DEF Unlock
<1>7. owner' \in [Mutex -> Thread \cup {NoThread}]
  BY <1>6, Zenon DEF Inv
<1>8. owner'[Arg(t)] = NoThread /\ \A m \in Mutex \ {Arg(t)} : owner'[m] = owner[m]
  BY <1>4, <1>6 DEF Inv
<1>9. \A m \in Mutex : owner'[m] = t <=> m \in HeldAt(script[t], pc[t] + 1)
  BY <1>5, <1>8, LocksAssumption DEF Inv
<1>10. \A u \in Thread \ {t}, m \in Mutex : owner'[m] = u <=> owner[m] = u
  BY <1>4, <1>8, LocksAssumption
<1>11. HeldAt(script[t], pc[t] + 1) \subseteq Mutex
  BY <1>5 DEF Inv
<1> QED BY <1>1, <1>7, <1>9, <1>10, <1>11, MovePreserves DEF Unlock

\* The other operations leave owners and what is held alone.
LEMMA OtherInv ==
  ASSUME Inv, NEW t \in Thread, ~Idle(t),
         script[t][pc[t]].op \notin {"lock", "unlock"},
         Advance(t), script' = script, owner' = owner
  PROVE  Inv'
<1>1. script[t] \in Script /\ pc[t] \in 1..Len(script[t])
  BY AtScript
<1>2. HeldAt(script[t], pc[t] + 1) = Held(t)
  BY <1>1, HeldOther DEF Held
<1>3. owner' \in [Mutex -> Thread \cup {NoThread}] /\ Held(t) \subseteq Mutex
  BY DEF Inv
<1>4. \A m \in Mutex : owner'[m] = t <=> m \in HeldAt(script[t], pc[t] + 1)
  BY <1>2 DEF Inv
<1> QED BY <1>2, <1>3, <1>4, MovePreserves

\* Every step preserves the invariant.
LEMMA StepInv ==
  ASSUME Disciplined, Inv, [Next]_vars
  PROVE  Inv'
<1>1. ASSUME NEW t \in Thread, Dispatch(t) PROVE Inv'
  BY <1>1, DispatchInv
<1>2. ASSUME NEW t \in Thread, Exit(t) PROVE Inv'
  BY <1>2 DEF Exit, Inv, Held
<1>3. ASSUME NEW t \in Thread, Lock(t) PROVE Inv'
  BY <1>3, LockInv
<1>4. ASSUME NEW t \in Thread, Unlock(t) PROVE Inv'
  BY <1>4, UnlockInv
<1>5. ASSUME NEW t \in Thread, Access(t) PROVE Inv'
  BY <1>5, OtherInv DEF Access, At
<1>6. ASSUME NEW t \in Thread, Stop(t) PROVE Inv'
  BY <1>6, OtherInv DEF Stop, At
<1>7. ASSUME NEW t \in Thread, Join(t) PROVE Inv'
  BY <1>7, OtherInv DEF Join, At
<1>8. CASE UNCHANGED vars
  BY <1>8 DEF vars, Inv, Held
<1> QED BY <1>1, <1>2, <1>3, <1>4, <1>5, <1>6, <1>7, <1>8 DEF Next, Step

\* While the handlers follow the discipline the owner of a mutex is always the
\* thread whose handler has locked it and not yet unlocked it.
THEOREM Invariance == Spec /\ []Disciplined => []Inv
<1>1. Init => Inv
  BY InitInv
<1>2. Disciplined /\ Inv /\ [Next]_vars => Inv'
  BY StepInv
<1> QED BY <1>1, <1>2, PTL DEF Spec

-----------------------------------------------------------------------------
(* No deadlock                                                               *)

\* Among threads that all wait, one waits for a mutex of the highest rank.
LEMMA HighestWaiter ==
  ASSUME NEW S \in SUBSET Thread, S # {},
         \A t \in S : At(t, "lock") /\ Arg(t) \in Mutex
  PROVE  \E t \in S : \A u \in S : Rank[Arg(u)] <= Rank[Arg(t)]
<1> DEFINE Gap(t) == MaxRank - Rank[Arg(t)]
           Gaps == {Gap(t) : t \in S}
<1>1. ASSUME NEW t \in S PROVE Rank[Arg(t)] \in Nat /\ Gap(t) \in Nat
  <2>1. Rank[Arg(t)] \in 0..MaxRank /\ MaxRank \in Nat
    BY LocksAssumption
  <2> QED BY <2>1
<1>2. Gaps \in SUBSET Nat /\ Gaps # {}
  BY <1>1
<1> HIDE DEF Gaps
<1>3. PICK n \in Gaps : \A k \in Gaps : n <= k
  <2> DEFINE Less == {p \in Nat \X Nat : p[1] < p[2]}
  <2>1. IsWellFoundedOn(Less, Nat)
    BY NatLessThanWellFounded DEF OpToRel
  <2> HIDE DEF Less
  <2>2. PICK n \in Gaps : \A k \in Gaps : <<k, n>> \notin Less
    BY <1>2, <2>1, WFMin, Zenon
  <2>3. ASSUME NEW k \in Gaps PROVE n <= k
    <3>1. k \in Nat /\ n \in Nat /\ <<k, n>> \notin Less
      BY <1>2, <2>2
    <3>2. <<k, n>> \in Nat \X Nat /\ <<k, n>>[1] = k /\ <<k, n>>[2] = n
      BY <3>1
    <3>3. ~(k < n)
      BY <3>1, <3>2 DEF Less
    <3> QED BY <3>1, <3>3
  <2> QED BY <2>3
<1>4. PICK t \in S : n = Gap(t)
  BY <1>3 DEF Gaps
<1>5. ASSUME NEW u \in S PROVE Rank[Arg(u)] <= Rank[Arg(t)]
  <2>1. Gap(t) <= Gap(u)
    BY <1>3, <1>4 DEF Gaps
  <2> QED BY <2>1, <1>1, LocksAssumption
<1> QED BY <1>5

\* A mutex one thread waits for and another holds is shared.
LEMMA WaitedIsShared ==
  ASSUME Disciplined, Inv, NEW t \in Thread, NEW u \in Thread,
         At(t, "lock"), owner[Arg(t)] = u
  PROVE  Arg(t) \in Shared /\ Arg(t) \in Held(u)
<1>1. script[t] \in Program[t] /\ pc[t] \in 1..Len(script[t]) /\ Balanced(script[t])
  BY AtScript DEF At, Disciplined
<1>2. Arg(t) \in Mutex /\ Arg(t) \notin Held(t)
  BY <1>1 DEF Balanced, At, Arg, Held
<1>3. Arg(t) \in Held(u)
  BY <1>2 DEF Inv
<1>4. t # u
  BY <1>2, <1>3
<1>5. Arg(t) \in Uses(t)
  BY <1>1, <1>2 DEF Uses, At, Arg, Is
<1>6. pc[u] \in 1..(Len(script[u]) + 1)
  BY DEF Inv
<1>7. script[u] \in Program[u]
  <2>1. CASE script[u] = <<>>
    <3>1. pc[u] = 1
      BY <1>6, <2>1
    <3> QED BY <1>3, <3>1, HeldFirst DEF Held
  <2> QED BY <2>1 DEF Inv
<1>8. Arg(t) \in Uses(u)
  BY <1>3, <1>6, <1>7, HeldUsed, Zenon DEF Held, Disciplined
<1> QED BY <1>2, <1>3, <1>4, <1>5, <1>8 DEF Shared

\* A thread that waits for a mutex of another thread waits for a lower rank than
\* the other does.
LEMMA WaitsBelow ==
  ASSUME Disciplined, Inv, NEW t \in Thread, NEW u \in Thread,
         At(t, "lock"), owner[Arg(t)] = u,
         At(u, "lock"), Arg(u) \in Shared
  PROVE  Rank[Arg(t)] < Rank[Arg(u)]
<1>1. Arg(t) \in Shared /\ Arg(t) \in Held(u)
  BY WaitedIsShared
<1>2. script[u] \in Program[u] /\ pc[u] \in 1..Len(script[u])
  BY AtScript DEF At
<1>3. Ascends(script[u])
  BY <1>2 DEF Disciplined
<1> QED BY <1>1, <1>2, <1>3 DEF Ascends, At, Arg, Held

\* A set of threads each of which waits for one of them breaks the discipline:
\* those that wait for a mutex wait for one another already, since a thread that
\* joins holds none and the one it joins does not join.
LEMMA NoWaitingSet ==
  ASSUME Disciplined, Inv
  PROVE  NoDeadlock
<1> SUFFICES ASSUME NEW S \in SUBSET Thread, S # {},
                    \A t \in S : \E u \in S : WaitsFor(t, u)
             PROVE  FALSE
  BY DEF NoDeadlock
<1> DEFINE L == {t \in S : At(t, "lock")}
<1>1. ASSUME NEW t \in S, At(t, "join")
      PROVE  Held(t) = {} /\ ~Joins(Arg(t))
  BY <1>1, AtScript, Zenon DEF At, Arg, Held, Disciplined
<1>2. ASSUME NEW t \in S, ~At(t, "lock")
      PROVE  At(t, "join") /\ Arg(t) \in S
  BY <1>2 DEF WaitsFor
<1>3. ASSUME NEW t \in S, At(t, "join") PROVE Joins(t)
  BY <1>3, AtScript DEF At, Joins
<1>4. L # {}
  <2>1. PICK t \in S : TRUE
    OBVIOUS
  <2>2. CASE ~At(t, "lock")
    <3>1. At(t, "join") /\ Arg(t) \in S /\ ~Joins(Arg(t))
      BY <1>1, <1>2, <2>2
    <3> QED BY <1>2, <1>3, <3>1
  <2> QED BY <2>2
<1>5. ASSUME NEW t \in L
      PROVE  /\ Arg(t) \in Shared /\ Arg(t) \in Mutex
             /\ owner[Arg(t)] \in L
  <2>1. PICK u \in S : owner[Arg(t)] = u
    BY DEF WaitsFor, At
  <2>2. Arg(t) \in Shared /\ Arg(t) \in Held(u)
    BY <2>1, WaitedIsShared
  <2>3. At(u, "lock")
    BY <1>1, <1>2, <2>2
  <2> QED BY <2>1, <2>2, <2>3 DEF Shared
<1> HIDE DEF L
<1>6. L \in SUBSET Thread /\ \A t \in L : At(t, "lock")
  BY DEF L
<1>7. PICK t \in L : \A u \in L : Rank[Arg(u)] <= Rank[Arg(t)]
  BY <1>4, <1>5, <1>6, HighestWaiter
<1>8. PICK u \in L : owner[Arg(t)] = u
  BY <1>5
<1>9. Rank[Arg(t)] < Rank[Arg(u)]
  BY <1>5, <1>6, <1>8, WaitsBelow
<1>10. Rank[Arg(u)] <= Rank[Arg(t)] /\ Rank[Arg(u)] \in Int /\ Rank[Arg(t)] \in Int
  BY <1>5, <1>7, LocksAssumption
<1> QED BY <1>9, <1>10

\* Threads whose handlers follow the discipline never deadlock, however many
\* threads, mutexes and handlers there are.  The run locks shows that the handlers
\* of the router follow it.
THEOREM DeadlockFree == Spec /\ []Disciplined => []NoDeadlock
<1>1. Disciplined /\ Inv => NoDeadlock
  BY NoWaitingSet
<1> QED BY <1>1, Invariance, PTL

-----------------------------------------------------------------------------
(* No race                                                                   *)

\* A thread at guarded data owns its mutex.
LEMMA AccessOwned ==
  ASSUME Guarded, Inv, NEW t \in Thread,
         At(t, "read") \/ At(t, "write"), Arg(t) \in Watched
  PROVE  owner[Arg(t)] = t
<1>1. script[t] \in Program[t] /\ pc[t] \in 1..Len(script[t])
  BY AtScript DEF At
<1>2. Arg(t) \in Held(t)
  BY <1>1 DEF Guarded, At, Arg, Held
<1> QED BY <1>2 DEF Inv

\* Threads that touch data under its mutex only never race for it.
THEOREM RaceFree == Spec /\ []Disciplined /\ []Guarded => []NoRace
<1>1. Guarded /\ Inv => NoRace
  BY AccessOwned DEF NoRace
<1> QED BY <1>1, Invariance, PTL
=============================================================================
