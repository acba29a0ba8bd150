--------------------------- MODULE FragmentHandler ---------------------------
(***************************************************************************)
(* The endpoint's side of tunnel fragmentation: Tunnel::FragmentState and  *)
(* Tunnel::FragmentHandler, as operators over the map m_states of one      *)
(* router.  TunnelManager calls them from the handler that receives the    *)
(* data of a tunnel and keeps the state.                                   *)
(*                                                                         *)
(* A fragment is a record [msgId, first, fragmented, num, last, mode, to]: *)
(* the payload of a fragment is its place in the message, 0 for the first  *)
(* fragment and its fragment number for a follow on one, so that a         *)
(* compiled message is the sequence of the places that were concatenated.  *)
(* An unfragmented first fragment has message id 0 (Fragment.h:60): the    *)
(* id is on the wire only when the fragmented flag is set.                 *)
(***************************************************************************)
EXTENDS Integers, Sequences, FiniteSets

CONSTANTS
  Unparsable       \* the message ids whose bytes I2NP::Message::fromBytes refuses

(***************************************************************************)
(* A handler run is [states, aborted, out, threw]: the map m_states, the   *)
(* message ids of the destroyed timers, whose aborted waits are queued in  *)
(* this order, the messages sent so far, and whether an exception ended    *)
(* the run.                                                                *)
(***************************************************************************)

\* A FragmentState as its constructor leaves it.
NewState == [first |-> <<>>, follow |-> {}, lastNum |-> 0, timer |-> FALSE]

\* FragmentState::setFirstFragment: the first one stays, another one throws.
SetFirstFragment(s, f) ==
  IF s.first = <<>> THEN [ok |-> TRUE, s |-> [s EXCEPT !.first = <<f>>]]
                    ELSE [ok |-> FALSE, s |-> s]

\* FragmentState::addFollowOnFragment: a second last fragment throws; a
\* fragment number that is already there is ignored.
AddFollowOnFragment(s, f) ==
  IF f.last /\ s.lastNum # 0
  THEN [ok |-> FALSE, s |-> s]
  ELSE [ok |-> TRUE, s |-> [s EXCEPT !.lastNum = IF f.last THEN f.num ELSE @,
                                     !.follow = @ \cup {f.num}]]

\* Wrong: any follow on fragment that says it is the last completes the state.
IsCompleteEarly(s) == s.first # <<>> /\ s.lastNum # 0

\* FragmentState::isComplete.  The number of distinct follow on fragments is
\* compared with the number of the last one.
IsComplete(s) ==
  /\ s.first # <<>>
  /\ s.first[1].fragmented =>
       s.lastNum # 0 /\ Cardinality(s.follow) = s.lastNum

\* FragmentState::compile: the first payload, then the others by number.
Compile(s) ==
  <<0>> \o CHOOSE q \in [1..Cardinality(s.follow) -> s.follow] :
             \A i, j \in DOMAIN q : i < j => q[i] < q[j]

\* FragmentHandler::checkAndFlush.  operator[] creates the entry it looks up.
\* Erasing an entry destroys its timer, which queues the aborted wait.
CheckAndFlush(h, id) ==
  LET states == IF id \in DOMAIN h.states THEN h.states
                ELSE [k \in DOMAIN h.states \cup {id} |->
                        IF k = id THEN NewState ELSE h.states[k]]
      s      == states[id]
  IN  IF ~IsComplete(s) THEN [h EXCEPT !.states = states]
      ELSE IF s.first[1].mode = "ROUTER" /\ id \in Unparsable
      THEN [h EXCEPT !.states = states, !.threw = TRUE]
      ELSE [h EXCEPT
             !.states  = [k \in DOMAIN states \ {id} |-> states[k]],
             !.aborted = IF s.timer THEN Append(@, id) ELSE @,
             !.out     = Append(@, [to |-> s.first[1].to, mode |-> s.first[1].mode,
                                    msgId |-> id, data |-> Compile(s)])]

\* The body of the loop of FragmentHandler::receiveFragments for a fragment.
\* A state that a first fragment creates gets a timer of two minutes; one that
\* a follow on fragment creates gets none.
ReceiveFragment(h, f) ==
  LET known == f.msgId \in DOMAIN h.states
      old   == IF known THEN h.states[f.msgId] ELSE NewState
      add   == IF f.first THEN SetFirstFragment(old, f) ELSE AddFollowOnFragment(old, f)
      new   == [add.s EXCEPT !.timer = @ \/ (f.first /\ ~known)]
      put   == [h EXCEPT !.states = [k \in DOMAIN @ \cup {f.msgId} |->
                                       IF k = f.msgId THEN new ELSE @[k]]]
  IN  IF h.threw THEN h
      ELSE IF f.first /\ ~f.fragmented
      THEN CheckAndFlush([h EXCEPT !.out = Append(@,
             [to |-> f.to, mode |-> "TUNNEL", msgId |-> f.msgId, data |-> <<0>>])], f.msgId)
      ELSE IF ~add.ok THEN [h EXCEPT !.threw = TRUE]
      ELSE CheckAndFlush(put, f.msgId)

\* FragmentHandler::receiveFragments: the fragments in order, until one throws.
ReceiveFragments(states, aborted, fragments) ==
  LET run[k \in 0..Len(fragments)] ==
        IF k = 0
        THEN [states |-> states, aborted |-> aborted, out |-> <<>>, threw |-> FALSE]
        ELSE ReceiveFragment(run[k - 1], fragments[k])
  IN  run[Len(fragments)]

\* FragmentHandler::timerCallback, which looks at no error code: the wait of a
\* timer that expired and the wait of one that was destroyed erase alike.
TimerCallback(states, id) == [k \in DOMAIN states \ {id} |-> states[k]]
=============================================================================
