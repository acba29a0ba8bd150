----------------------------- MODULE MCRouterLocks -----------------------------
(* The router's handlers on its three threads.                                *)
EXTENDS RouterLocks

\* All data but the state table, whose mutex stateExists() does not take.
GuardedData == RouterMutexes \ {"stateTable"}

\* What a thread has done of its handler does not matter for what it may still do.
Todo == [t \in Thread |-> SubSeq(script[t], pc[t], Len(script[t]))]
View == <<Todo, owner, stopped, exited>>
=============================================================================
