---------------------------- MODULE MessageTransfer ----------------------------
(***************************************************************************)
(* The transfer of messages over an established SSU session, one direction: *)
(* OutboundMessageFragments of the sending router, InboundMessageFragments  *)
(* and AcknowledgementManager of the receiving one, and UDP between them.   *)
(*                                                                         *)
(* The sender's handlers run from the FIFO of its Context::ios, because     *)
(* what sendDataCallback may assume depends on that order.  The receiver's  *)
(* handlers are atomic steps in any order: its packets arrive in any order  *)
(* anyway.  Taking a packet leaves it in the network: taking it late is      *)
(* reordering, taking it twice is duplication, never taking it is loss.     *)
(***************************************************************************)
EXTENDS DataPacket, FiniteSets

CONSTANTS
  Msg,            \* messages, each with its own msgId
  Size,           \* the bytes of each message
  NoMsg,
  NoAck,
  MaxTries,       \* tries after which a message is given up: 5
  MaxTasks,       \* bound: the queue length up to which acks are accepted
  MaxAcks,        \* bound: acks under way at one time; a further one is lost
  MayDisconnect   \* whether the receiver may lose the session

ASSUME TransferAssumption ==
  /\ Size \in [Msg -> 1..MaxMessageSize]
  /\ \A m \in Msg : FragmentCount(Size[m]) <= 128
  /\ MaxTries \in Nat /\ MaxTasks \in Nat /\ MaxAcks \in Nat
  /\ MayDisconnect \in BOOLEAN
  /\ NoMsg \notin Msg

Fragments(m) == 0..(FragmentCount(Size[m]) - 1)

VARIABLES
  oms,        \* OutboundMessageFragments::m_states
  armed,      \* messages whose OutboundMessageState has a wait pending
  sendingMsg, \* the message sendData is at on the router thread
  started,    \* messages sendData was called for
  tasks,      \* the sender's handlers not yet run
  net,        \* fragments under way to the receiver
  acks,       \* acknowledgements under way to the sender
  ims,        \* InboundMessageFragments::m_states
  imfTimers,  \* messages whose 10 s timer is pending
  imfFired,   \* expired 10 s timers whose handler has not run
  connected,  \* the receiver has the sender in its peer list
  flushing,   \* flushAckCallback is caught in its loop
  delivered,  \* the fragment sets handed to receivedSignal, per message
  acked,      \* messages removed by an acknowledgement
  expired     \* messages the receiver has dropped incomplete

sender == <<oms, armed, sendingMsg, started, tasks, acked>>
receiver == <<ims, imfTimers, imfFired, connected, flushing, delivered, expired>>
vars == <<sender, receiver, net, acks>>

-----------------------------------------------------------------------------
(* OutboundMessageState and InboundMessageState                              *)

OutboundMessageState ==
  [live : BOOLEAN, frags : SUBSET Nat, sent : SUBSET Nat, ackd : SUBSET Nat, tries : Nat]

NoOutbound == [live |-> FALSE, frags |-> {}, sent |-> {}, ackd |-> {}, tries |-> 0]
NewOutbound == [NoOutbound EXCEPT !.live = TRUE]

Fragment(m, s) == IF s.frags = {} THEN [s EXCEPT !.frags = Fragments(m)] ELSE s

First(S) == CHOOSE i \in S : \A j \in S : i <= j

Unsent(s) == s.frags \ s.sent
Unackd(s) == s.frags \ s.ackd

InboundMessageState ==
  [live : BOOLEAN, got : SUBSET Nat, gotLast : BOOLEAN, lastFragment : Nat]

NoInbound == [live |-> FALSE, got |-> {}, gotLast |-> FALSE, lastFragment |-> 0]

AddFragment(s, num, isLast) ==
  IF (s.gotLast /\ num > s.lastFragment) \/ num \in s.got
  THEN [s EXCEPT !.live = TRUE]
  ELSE [s EXCEPT !.live = TRUE, !.got = @ \cup {num},
                 !.gotLast = @ \/ isLast,
                 !.lastFragment = IF isLast THEN num ELSE @]

\* The vector m_fragments ends with the highest fragment received.
VectorSize(s) == 1 + CHOOSE i \in s.got : \A j \in s.got : j <= i

\* Wrong allFragmentsReceived: the holes of the vector are not looked at.
AllFragmentsReceivedNoHoles(s) == s.live /\ s.gotLast

AllFragmentsReceived(s) ==
  s.live /\ s.gotLast /\ \A i \in 0..(VectorSize(s) - 1) : i \in s.got

FragmentsReceived(s) == [i \in 1..VectorSize(s) |-> i - 1 \in s.got]

-----------------------------------------------------------------------------
(* The sender                                                                *)

FragmentPacket(m, i) == [msgId |-> m, info |-> FragInfo(Size[m], i)]

Task(o, m) == [op |-> o, msgId |-> m, ack |-> NoAck]
AckTask(a) == [op |-> "ack", msgId |-> NoMsg, ack |-> a]

Running(o) == tasks # <<>> /\ Head(tasks).op = o

\* sendData on the router thread: the 2 s timer runs before the state is in the
\* table.
SendDataBegin(m) ==
  /\ sendingMsg = NoMsg /\ m \notin started
  /\ started' = started \cup {m}
  /\ armed' = armed \cup {m}
  /\ sendingMsg' = m
  /\ UNCHANGED <<oms, tasks, acked, net, acks>> /\ UNCHANGED receiver

SendDataEnd ==
  /\ sendingMsg # NoMsg
  /\ oms' = [oms EXCEPT ![sendingMsg] = NewOutbound]
  /\ tasks' = Append(tasks, Task("send", sendingMsg))
  /\ sendingMsg' = NoMsg
  /\ UNCHANGED <<armed, started, acked, net, acks>> /\ UNCHANGED receiver

TimerExpires(m) ==
  /\ m \in armed
  /\ armed' = armed \ {m}
  /\ tasks' = Append(tasks, Task("timer", m))
  /\ UNCHANGED <<oms, sendingMsg, started, acked, net, acks>> /\ UNCHANGED receiver

AckArrives(a) ==
  /\ Len(tasks) < MaxTasks
  /\ tasks' = Append(tasks, AckTask(a))
  /\ UNCHANGED <<oms, armed, sendingMsg, started, acked, net, acks>>
  /\ UNCHANGED receiver

\* Wrong sendDataCallback: it posts itself again without asking allFragmentsSent.
SendDataCallbackForever(m) ==
  LET s == Fragment(m, oms[m])
      i == First(Unsent(s))
  IN  /\ oms[m].live /\ Unsent(s) # {}
      /\ oms' = [oms EXCEPT ![m] = [s EXCEPT !.sent = @ \cup {i}]]
      /\ net' = net \cup {FragmentPacket(m, i)}
      /\ tasks' = Append(Tail(tasks), Task("send", m))

\* The next unsent fragment goes out and, while any is left, the callback is
\* posted again.  No unsent fragment is an exception, which ends the handler.
SendDataCallback(m) ==
  LET s == Fragment(m, oms[m])
      i == First(Unsent(s))
  IN  \/ /\ oms[m].live /\ Unsent(s) # {}
         /\ oms' = [oms EXCEPT ![m] = [s EXCEPT !.sent = @ \cup {i}]]
         /\ net' = net \cup {FragmentPacket(m, i)}
         /\ tasks' = Tail(tasks) \o
              (IF Unsent(s) = {i} THEN <<>> ELSE <<Task("send", m)>>)
      \/ /\ ~oms[m].live \/ Unsent(s) = {}
         /\ tasks' = Tail(tasks)
         /\ UNCHANGED <<oms, net>>

Send ==
  /\ Running("send")
  /\ SendDataCallback(Head(tasks).msgId)
  /\ UNCHANGED <<armed, sendingMsg, started, acked, acks>> /\ UNCHANGED receiver

\* Wrong timerCallback: the tries are not counted.
TimerCallbackUncounted(m) ==
  /\ oms[m].live /\ oms[m].tries <= MaxTries /\ Unackd(oms[m]) # {}
  /\ oms' = [oms EXCEPT ![m].sent = @ \cup {First(Unackd(oms[m]))}]
  /\ net' = net \cup {FragmentPacket(m, First(Unackd(oms[m])))}
  /\ armed' = armed \cup {m}

\* The first unacknowledged fragment goes out again and the timer is re-armed;
\* after too many tries the message is dropped.  Before the message has been
\* fragmented there is no such fragment, and the timer is not armed again.
TimerCallback(m) ==
  \/ /\ oms[m].live /\ oms[m].tries > MaxTries
     /\ oms' = [oms EXCEPT ![m] = NoOutbound]
     /\ armed' = armed \ {m}
     /\ UNCHANGED net
  \/ /\ oms[m].live /\ oms[m].tries <= MaxTries /\ Unackd(oms[m]) # {}
     /\ LET i == First(Unackd(oms[m])) IN
          /\ oms' = [oms EXCEPT ![m].sent = @ \cup {i}, ![m].tries = @ + 1]
          /\ net' = net \cup {FragmentPacket(m, i)}
     /\ armed' = armed \cup {m}
  \/ /\ ~oms[m].live \/ (oms[m].tries <= MaxTries /\ Unackd(oms[m]) = {})
     /\ UNCHANGED <<oms, net, armed>>

Timer ==
  /\ Running("timer")
  /\ TimerCallback(Head(tasks).msgId)
  /\ tasks' = Tail(tasks)
  /\ UNCHANGED <<sendingMsg, started, acked, acks>> /\ UNCHANGED receiver

Marked(s, bytes) == [s EXCEPT !.ackd = @ \cup (DecodeAck(bytes) \cap s.frags)]

\* Wrong receiveData: any partial acknowledgement removes the message.
AckCompletesAny(a, m) == oms[m].live /\ (m \in a.complete \/ m \in DOMAIN a.partial)

\* The messages an acknowledgement removes: those listed as complete, and those
\* whose fragments are all acknowledged now.
AckCompletes(a, m) ==
  /\ oms[m].live
  /\ \/ m \in a.complete
     \/ m \in DOMAIN a.partial /\ Unackd(Marked(oms[m], a.partial[m])) = {}

HandleAck ==
  /\ Running("ack")
  /\ LET a == Head(tasks).ack
         gone == {m \in Msg : AckCompletes(a, m)}
     IN  /\ oms' = [m \in Msg |->
                      IF m \in gone THEN NoOutbound
                      ELSE IF oms[m].live /\ m \in DOMAIN a.partial
                      THEN Marked(oms[m], a.partial[m])
                      ELSE oms[m]]
         /\ armed' = armed \ gone
         /\ acked' = acked \cup gone
  /\ tasks' = Tail(tasks)
  /\ UNCHANGED <<sendingMsg, started, net, acks>> /\ UNCHANGED receiver

-----------------------------------------------------------------------------
(* The receiver                                                              *)

\* receiveData for one fragment.  A message that is complete is handed over, and
\* again for every further fragment until the next flush removes it.
ReceiveFragment(p) ==
  LET m == p.msgId
      s == AddFragment(ims[m], DecodeFragNum(p.info), DecodeIsLast(p.info))
  IN  /\ connected /\ ~flushing
      /\ ims' = [ims EXCEPT ![m] = s]
      /\ imfTimers' = IF ims[m].live THEN imfTimers ELSE imfTimers \cup {m}
      /\ delivered' = [delivered EXCEPT ![m] =
                          IF AllFragmentsReceived(s) THEN @ \cup {s.got} ELSE @]
      /\ UNCHANGED <<imfFired, connected, flushing, expired, net, acks>>
      /\ UNCHANGED sender

\* At most one expired timer per message waits for its handler: a second one
\* would be 10 s behind it and do nothing the first has not done.
InboundTimerExpires(m) ==
  /\ m \in imfTimers /\ m \notin imfFired
  /\ imfTimers' = imfTimers \ {m}
  /\ imfFired' = imfFired \cup {m}
  /\ UNCHANGED <<ims, connected, flushing, delivered, expired, net, acks>>
  /\ UNCHANGED sender

\* The handler knows the msgId only: it erases whatever state has it by now.
InboundTimerCallback(m) ==
  /\ m \in imfFired /\ ~flushing
  /\ imfFired' = imfFired \ {m}
  /\ imfTimers' = imfTimers \ {m}
  /\ ims' = [ims EXCEPT ![m] = NoInbound]
  /\ expired' = IF ims[m].live THEN expired \cup {m} ELSE expired
  /\ UNCHANGED <<connected, flushing, delivered, net, acks>> /\ UNCHANGED sender

AckPacket(complete, partial) ==
  [complete |-> complete,
   partial |-> [m \in partial |-> EncodeAck(FragmentsReceived(ims[m]))]]

\* flushAckCallback: complete messages are acknowledged and forgotten, the others
\* are acknowledged as far as they are there.  For a peer that has gone the loop
\* neither advances nor ends.
FlushAck ==
  /\ ~flushing
  /\ LET held == {m \in Msg : ims[m].live}
         complete == {m \in held : AllFragmentsReceived(ims[m])}
     IN  IF held # {} /\ ~connected
         THEN flushing' = TRUE /\ UNCHANGED <<ims, imfTimers, acks>>
         ELSE /\ ims' = [m \in Msg |-> IF m \in complete THEN NoInbound ELSE ims[m]]
              /\ imfTimers' = imfTimers \ complete
              /\ acks' = IF held = {} \/ Cardinality(acks) >= MaxAcks
                         THEN acks ELSE acks \cup {AckPacket(complete, held \ complete)}
              /\ UNCHANGED flushing
  /\ UNCHANGED <<imfFired, connected, delivered, expired, net>> /\ UNCHANGED sender

LoseAck(a) ==
  /\ acks' = acks \ {a}
  /\ UNCHANGED net /\ UNCHANGED sender /\ UNCHANGED receiver

\* SESSION_DESTROY from the sender, or the idle timer.
Disconnect ==
  /\ MayDisconnect /\ connected /\ ~flushing
  /\ connected' = FALSE
  /\ UNCHANGED <<ims, imfTimers, imfFired, flushing, delivered, expired, net, acks>>
  /\ UNCHANGED sender

-----------------------------------------------------------------------------
Init ==
  /\ oms = [m \in Msg |-> NoOutbound]
  /\ armed = {} /\ sendingMsg = NoMsg /\ started = {} /\ tasks = <<>>
  /\ net = {} /\ acks = {}
  /\ ims = [m \in Msg |-> NoInbound]
  /\ imfTimers = {} /\ imfFired = {}
  /\ connected = TRUE /\ flushing = FALSE
  /\ delivered = [m \in Msg |-> {}] /\ acked = {} /\ expired = {}

SenderThread == Send \/ Timer \/ HandleAck

Next ==
  \/ \E m \in Msg : SendDataBegin(m) \/ TimerExpires(m)
  \/ SendDataEnd
  \/ \E a \in acks : AckArrives(a) \/ LoseAck(a)
  \/ SenderThread
  \/ \E p \in net : ReceiveFragment(p)
  \/ \E m \in Msg : InboundTimerExpires(m) \/ InboundTimerCallback(m)
  \/ FlushAck
  \/ Disconnect

Spec == Init /\ [][Next]_vars

\* Fairness: both event loops keep taking handlers and timers expire.  None of the
\* network: every fragment and every acknowledgement may be lost.
Fairness ==
  /\ WF_vars(SenderThread) /\ WF_vars(SendDataEnd)
  /\ \A m \in Msg : WF_vars(TimerExpires(m))
  /\ \A m \in Msg : WF_vars(InboundTimerExpires(m)) /\ WF_vars(InboundTimerCallback(m))
  /\ WF_vars(FlushAck)

FairSpec == Spec /\ Fairness

-----------------------------------------------------------------------------
(* Properties                                                                *)

IsAck(a) ==
  /\ a.complete \subseteq Msg /\ DOMAIN a.partial \subseteq Msg
  /\ \A m \in DOMAIN a.partial : a.partial[m] \in Seq(0..255)

\* Type correctness; a message is tried at most MaxTries + 1 times.
TypeOK ==
  /\ oms \in [Msg -> OutboundMessageState]
  /\ \A m \in Msg : oms[m].frags \in {{}, Fragments(m)} /\ oms[m].tries <= MaxTries + 1
  /\ armed \subseteq Msg /\ started \subseteq Msg /\ sendingMsg \in Msg \cup {NoMsg}
  /\ \A i \in 1..Len(tasks) :
       \/ tasks[i].op \in {"send", "timer"} /\ tasks[i].msgId \in Msg
       \/ tasks[i].op = "ack" /\ IsAck(tasks[i].ack)
  /\ \A a \in acks : IsAck(a)
  /\ ims \in [Msg -> InboundMessageState]
  /\ imfTimers \subseteq Msg /\ imfFired \subseteq Msg
  /\ connected \in BOOLEAN /\ flushing \in BOOLEAN

\* The router is given whole messages only: whatever was lost, repeated, reordered
\* or expired on the way, what reaches receivedSignal are all fragments of the
\* message.
DeliveredWhole == \A m \in Msg : delivered[m] \subseteq {Fragments(m)}

\* A message leaves the sender by acknowledgement only after it was delivered;
\* the exceptions are a message the receiver has dropped after 10 s (earlier
\* partial acks still count with the sender) and one without a last fragment.
AckSound ==
  \A m \in acked :
    \/ delivered[m] # {}
    \/ m \in expired
    \/ Size[m] % MaxFragmentSize = 0

\* sendDataCallback never throws: a posted one finds a fragment that was not
\* sent, although timerCallback sends and marks fragments too.  It is the order
\* of the queue that keeps an acknowledgement of the latest fragment behind the
\* callback that sends the next one.
NeverThrows ==
  \A i \in 1..Len(tasks) :
    tasks[i].op = "send" =>
      LET s == oms[tasks[i].msgId] IN s.live /\ s.frags # {} => Unsent(s) # {}

\* A message that the receiver holds completely counts as complete.
AllReceivedIsComplete ==
  \A m \in Msg : ims[m].got = Fragments(m) => AllFragmentsReceived(ims[m])

\* A message whose retransmission timer is running leaves the sender in the end,
\* acknowledged or given up, even if every packet is lost.
OutboundDrains ==
  \A m \in Msg : oms[m].frags # {} /\ m \in armed ~> ~oms[m].live

\* The receiver keeps no message for ever: it is acknowledged and forgotten when
\* complete, dropped when not.  A lost session changes that only by way of a flush
\* that is caught in its loop.
InboundDrains == \A m \in Msg : ims[m].live ~> ~ims[m].live \/ flushing

\* Neither side keeps a message for ever, whatever is lost: the retransmission
\* timer and the receiver's ten second timer see to it.
MessagesDrain == OutboundDrains /\ InboundDrains

\* A flush of the acknowledgements comes to its end and re-arms its timer.
FlushReturns == flushing ~> ~flushing
=============================================================================
