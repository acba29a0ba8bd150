------------------------------ MODULE AckProofs ------------------------------
(***************************************************************************)
(* Proofs about acknowledgements, continued: receiveData, the sender's     *)
(* steps, and the theorems about what is acknowledged and about            *)
(* sendDataCallback, for any messages, sizes and bounds.                   *)
(***************************************************************************)
EXTENDS TransferProofs

-----------------------------------------------------------------------------
(* A fragment arrives                                                        *)

\* A fragment is taken: what is held grows, and a complete message is handed
\* over in the same step.
LEMMA TakesFragment ==
  ASSUME FragmentSizeAssumption, TransferAssumption, NEW m \in Msg, NEW i \in Fragments(m),
         NEW s \in InboundMessageState, Holds(s, m), NEW u,
         u = AddFragment(s, DecodeFragNum(FragInfo(Size[m], i)),
                            DecodeIsLast(FragInfo(Size[m], i)))
  PROVE  /\ u.live /\ u.got # {} /\ s.got \subseteq u.got /\ u.got \subseteq s.got \cup {i}
         /\ Size[m] % MaxFragmentSize # 0 /\ FragmentCount(Size[m]) - 1 \in u.got
              => \/ u.gotLast
                 \/ FragmentCount(Size[m]) - 1 \in s.got /\ ~s.gotLast
<1>1. PICK last \in BOOLEAN : last = DecodeIsLast(FragInfo(Size[m], i))
  BY Zenon DEF DecodeIsLast
<1>2. /\ DecodeFragNum(FragInfo(Size[m], i)) = i
      /\ Size[m] % MaxFragmentSize # 0 /\ i = FragmentCount(Size[m]) - 1 => last
  BY <1>1, FragmentHeaders
<1>3. s.got \in SUBSET Nat /\ s.gotLast \in BOOLEAN
  BY Zenon DEF InboundMessageState
<1>4. CASE /\ (s.gotLast /\ i > s.lastFragment) \/ i \in s.got
           /\ u = [s EXCEPT !.live = TRUE]
  <2>1. u.live = TRUE /\ u.got = s.got /\ u.gotLast = s.gotLast
    BY <1>4 DEF InboundMessageState
  <2>2. s.got # {}
    BY <1>4 DEF Holds
  <2> QED  BY <2>1, <2>2
<1>5. CASE u = [s EXCEPT !.live = TRUE, !.got = @ \cup {i}, !.gotLast = @ \/ last,
                         !.lastFragment = IF last THEN i ELSE @]
  <2>1. u.live = TRUE /\ u.got = s.got \cup {i} /\ u.gotLast = (s.gotLast \/ last)
    BY <1>5 DEF InboundMessageState
  <2> QED  BY <1>2, <2>1, Zenon
<1> QED  BY <1>1, <1>2, <1>4, <1>5 DEF AddFragment

LEMMA FragmentAcks ==
  ASSUME FragmentSizeAssumption, TransferAssumption, AckInv, WholeInv',
         NEW p \in net, ReceiveFragment(p)
  PROVE  AckInv'
<1>0. PICK m \in Msg : \E i \in Fragments(m) : p = FragmentPacket(m, i)
  BY DEF AckInv, WholeInv, NetOK
<1>1. PICK i : i \in Fragments(m) /\ p = FragmentPacket(m, i)
  BY <1>0
<1>2. p.msgId = m /\ p.info = FragInfo(Size[m], i)
  BY <1>1 DEF FragmentPacket
<1>3. PICK s : s = AddFragment(ims[m], DecodeFragNum(FragInfo(Size[m], i)),
                               DecodeIsLast(FragInfo(Size[m], i)))
  BY Zenon
<1>4. /\ ims' = [ims EXCEPT ![m] = s]
      /\ delivered' = [delivered EXCEPT ![m] =
                          IF AllFragmentsReceived(s) THEN @ \cup {s.got} ELSE @]
      /\ UNCHANGED <<sender, net, acks, expired>> /\ tasks' = tasks
  BY <1>2, <1>3 DEF ReceiveFragment, sender
<1>5. /\ ims \in [Msg -> InboundMessageState] /\ Holds(ims[m], m)
      /\ delivered \in [Msg -> SUBSET (SUBSET Nat)]
  BY DEF AckInv, WholeInv, ReceiverOK
<1>6. \A k \in Msg : Seen(k)' = Seen(k)
  BY <1>4 DEF Seen
<1>7. \A k \in Msg : Receives(k)
  BY Zenon DEF AckInv, GotOK
<1>8. /\ s.live /\ s.got # {} /\ ims[m].got \subseteq s.got /\ s.got \subseteq ims[m].got \cup {i}
      /\ Size[m] % MaxFragmentSize # 0 /\ FragmentCount(Size[m]) - 1 \in s.got
              => \/ s.gotLast
                 \/ FragmentCount(Size[m]) - 1 \in ims[m].got /\ ~ims[m].gotLast
  BY <1>1, <1>3, <1>5, TakesFragment
<1>9. GotOK'
  <2>1. ASSUME NEW k \in Msg, k # m PROVE Receives(k)'
    <3>1. ims'[k] = ims[k] /\ delivered'[k] = delivered[k] /\ Receives(k)
      BY <1>4, <1>5, <1>7, <2>1, Zenon
    <3> QED  BY <1>6, <3>1, ZenonT(40) DEF Receives, AllFragmentsReceived, VectorSize
  <2>2. Receives(m)'
    <3>1. ims'[m] = s
      BY <1>4, <1>5, Zenon
    <3>2. s.got \subseteq Seen(m)
      <4>1. i \in Seen(m)
        BY <1>1, Zenon DEF Seen
      <4> QED  BY <1>7, <1>8, <4>1 DEF Receives
    <3>3. AllFragmentsReceived(s) => delivered'[m] # {}
      BY <1>4, <1>5, Zenon
    <3>4. Size[m] % MaxFragmentSize # 0 /\ FragmentCount(Size[m]) - 1 \in s.got => s.gotLast
      BY <1>7, <1>8 DEF Receives
    <3>5. AllFragmentsReceived(ims[m])' => AllFragmentsReceived(s)
      BY <3>1, Zenon DEF AllFragmentsReceived, VectorSize
    <3> QED  BY <1>6, <1>8, <3>1, <3>2, <3>3, <3>4, <3>5 DEF Receives
  <2> QED  BY <2>1, <2>2 DEF GotOK
<1>10. Forward
  <2>1. \A k \in Msg : delivered[k] \subseteq delivered'[k]
    BY <1>4, <1>5, Zenon
  <2>2. \A k \in Msg : ims[k].got \subseteq ims'[k].got
    BY <1>4, <1>5, <1>8, Zenon
  <2> QED  BY <1>4, <1>6, <2>1, <2>2, Zenon DEF Forward, Pending
<1>11. Heard' = Heard
  BY <1>4 DEF Heard
<1>12. HeardOK'
  BY <1>10, <1>11, HeardStays DEF AckInv
<1> QED  BY <1>4, <1>9, <1>10, <1>12, ReceiverSide

-----------------------------------------------------------------------------
(* The sender's queue                                                        *)

\* The first d handlers leave the queue and n handlers t are posted.
Moved(d, n, t) ==
  /\ d \in {0, 1} /\ n \in {0, 1} /\ Len(tasks) \in Nat /\ d <= Len(tasks)
  /\ Len(tasks') = Len(tasks) - d + n
  /\ \A i \in 1..(Len(tasks) - d) : tasks'[i] = tasks[i + d]
  /\ n = 1 => tasks'[Len(tasks')] = t

LEMMA PostMoves ==
  ASSUME QueueOK, NEW t, tasks' = Append(tasks, t)
  PROVE  Moved(0, 1, t)
<1>1. PICK S : tasks \in Seq(S)
  BY DEF QueueOK
<1>2. tasks \in Seq(S \cup {t})
  BY <1>1
<1>3. Len(tasks) \in Nat /\ Len(tasks') = Len(tasks) + 1 /\ tasks'[Len(tasks) + 1] = t
  BY <1>2
<1>4. \A i \in 1..Len(tasks) : tasks'[i] = tasks[i]
  BY <1>2
<1> QED  BY <1>3, <1>4 DEF Moved

LEMMA RunMoves ==
  ASSUME QueueOK, tasks # <<>>, NEW t, tasks' = Tail(tasks)
  PROVE  Moved(1, 0, t) /\ Head(tasks) = tasks[1] /\ 1 \in 1..Len(tasks)
<1>1. PICK S : tasks \in Seq(S)
  BY DEF QueueOK
<1>2. /\ Len(tasks') = Len(tasks) - 1 /\ Len(tasks) \in Nat \ {0} /\ Head(tasks) = tasks[1]
  BY <1>1
<1>3. \A i \in 1..(Len(tasks) - 1) : tasks'[i] = tasks[i + 1]
  BY <1>1, <1>2
<1> QED  BY <1>2, <1>3 DEF Moved

LEMMA RunPostMoves ==
  ASSUME QueueOK, tasks # <<>>, NEW t, tasks' = Tail(tasks) \o <<t>>
  PROVE  Moved(1, 1, t) /\ Head(tasks) = tasks[1] /\ 1 \in 1..Len(tasks)
<1>1. PICK S : tasks \in Seq(S)
  BY DEF QueueOK
<1>2. tasks \in Seq(S \cup {t})
  BY <1>1
<1>3. /\ Len(tasks') = Len(tasks) /\ Len(tasks) \in Nat \ {0}
      /\ \A i \in 1..Len(tasks) : tasks'[i] = IF i = Len(tasks) THEN t ELSE tasks[i + 1]
  BY <1>2, TailAppend
<1>4. Head(tasks) = tasks[1]
  BY <1>1
<1>5. PICK u : u = tasks'
  OBVIOUS
<1>6. PICK l \in Nat \ {0} : l = Len(tasks)
  BY <1>3, Zenon
<1>7. /\ Len(u) = l
      /\ \A i \in 1..l : u[i] = IF i = l THEN t ELSE tasks[i + 1]
  BY <1>3, <1>5, <1>6, Zenon
<1>8. \A i \in 1..(l - 1) : u[i] = tasks[i + 1]
  BY <1>6, <1>7
<1>9. u[Len(u)] = t
  BY <1>6, <1>7
<1> QED  BY <1>4, <1>5, <1>6, <1>7, <1>8, <1>9 DEF Moved

\* The acknowledgements that are heard afterwards were heard before, or one is
\* posted.
LEMMA MovedHeard ==
  ASSUME NEW d, NEW n, NEW t, Moved(d, n, t), acks' = acks,
         n = 1 /\ t.op = "ack" => t.ack \in acks
  PROVE  Heard' \subseteq Heard
<1> SUFFICES ASSUME NEW i \in 1..Len(tasks'), tasks'[i].op = "ack"
             PROVE  tasks'[i].ack \in Heard
  BY DEF Heard
<1>1. CASE i <= Len(tasks) - d
  <2>1. i \in 1..(Len(tasks) - d) /\ i + d \in 1..Len(tasks)
    BY <1>1 DEF Moved
  <2>2. tasks'[i] = tasks[i + d]
    BY <2>1 DEF Moved
  <2> QED  BY <2>1, <2>2 DEF Heard
<1>2. CASE ~(i <= Len(tasks) - d)
  <2>1. n = 1 /\ i = Len(tasks')
    BY <1>2 DEF Moved
  <2>2. tasks'[i] = t
    BY <2>1 DEF Moved
  <2> QED  BY <2>1, <2>2 DEF Heard
<1> QED  BY <1>1, <1>2

\* The handlers that stay in the queue keep their order, and one that is posted
\* comes last.
LEMMA OrderStays ==
  ASSUME OrderOK, NEW d, NEW n, NEW t, Moved(d, n, t), started \subseteq started',
         \A i \in (d + 1)..Len(tasks) : tasks[i].op = "send" =>
           LET m == tasks[i].msgId IN
           /\ m # sendingMsg'
           /\ oms'[m].live /\ oms'[m].frags # {} =>
                /\ oms[m].live /\ oms[m].frags # {} /\ oms'[m].sent = oms[m].sent
                /\ \A k \in oms'[m].ackd :
                     \/ k \in oms[m].ackd
                     \/ d = 1 /\ tasks[1].op = "ack" /\ k \in Decoded(tasks[1].ack, m),
         n = 1 /\ t.op = "send" =>
           /\ t.msgId \in started' /\ t.msgId # sendingMsg'
           /\ \A i \in (d + 1)..Len(tasks) : ~(tasks[i].op = "send" /\ tasks[i].msgId = t.msgId)
           /\ InOrder(Len(tasks), t.msgId)'
  PROVE  OrderOK'
<1>0. d \in {0, 1} /\ n \in {0, 1} /\ Len(tasks) \in Nat /\ d <= Len(tasks)
  BY Zenon DEF Moved
<1>1. \A i \in 1..Len(tasks') :
        \/ i \in 1..(Len(tasks) - d) /\ i + d \in (d + 1)..Len(tasks) /\ i + d \in 1..Len(tasks)
           /\ tasks'[i] = tasks[i + d]
        \/ n = 1 /\ i = Len(tasks') /\ tasks'[i] = t
  <2> SUFFICES ASSUME NEW i \in 1..Len(tasks')
               PROVE  \/ i \in 1..(Len(tasks) - d) /\ i + d \in (d + 1)..Len(tasks)
                         /\ i + d \in 1..Len(tasks) /\ tasks'[i] = tasks[i + d]
                      \/ n = 1 /\ i = Len(tasks') /\ tasks'[i] = t
    BY Zenon
  <2>1. CASE i <= Len(tasks) - d
    <3>1. i \in 1..(Len(tasks) - d) /\ i + d \in (d + 1)..Len(tasks) /\ i + d \in 1..Len(tasks)
      BY <1>0, <2>1
    <3> QED  BY <3>1 DEF Moved
  <2>2. CASE ~(i <= Len(tasks) - d)
    BY <1>0, <2>2 DEF Moved
  <2> QED  BY <2>1, <2>2, Zenon
<1>2. SUFFICES ASSUME NEW i \in 1..Len(tasks'), tasks'[i].op = "send"
               PROVE  Alone(i)' /\ InOrder(i, tasks[i].msgId)'
  BY Zenon DEF OrderOK
<1>3. PICK m : m = tasks'[i].msgId
  OBVIOUS
<1>4. CASE i \in 1..(Len(tasks) - d) /\ tasks'[i] = tasks[i + d]
  <2>1. PICK k \in (d + 1)..Len(tasks) : k = i + d
    BY <1>0, <1>4
  <2>2. k \in 1..Len(tasks) /\ tasks[k].op = "send" /\ tasks[k].msgId = m
    BY <1>0, <1>2, <1>3, <1>4, <2>1
  <2>3. Alone(k) /\ InOrder(k, m)
    BY <2>2, Zenon DEF OrderOK
  <2>4. Alone(i)'
    <3>1. m \in started' /\ m # sendingMsg'
      BY <2>1, <2>2, <2>3, Zenon DEF Alone
    <3>2. ASSUME NEW j \in 1..Len(tasks'), tasks'[j].op = "send", tasks'[j].msgId = m
          PROVE  j = i
      <4>1. CASE /\ j \in 1..(Len(tasks) - d) /\ j + d \in 1..Len(tasks)
                 /\ tasks'[j] = tasks[j + d]
        <5>1. j + d = k
          BY <2>2, <2>3, <3>2, <4>1, Zenon DEF Alone
        <5> QED  BY <1>0, <2>1, <4>1, <5>1
      <4>2. CASE n = 1 /\ tasks'[j] = t
        BY <2>1, <2>2, <3>2, <4>2, Zenon
      <4> QED  BY <1>1, <4>1, <4>2
    <3> QED  BY <1>3, <3>1, <3>2, Zenon DEF Alone
  <2>5. InOrder(i, m)'
    <3> SUFFICES ASSUME oms'[m].live, oms'[m].frags # {}
                 PROVE  \E x \in 1..(FragmentCount(Size[m]) - 1) : SentUpTo(i, m, x)'
      BY Zenon DEF InOrder, FragmentCount
    <3>1. /\ oms[m].live /\ oms[m].frags # {} /\ oms'[m].sent = oms[m].sent
          /\ \A y \in oms'[m].ackd :
               \/ y \in oms[m].ackd
               \/ d = 1 /\ tasks[1].op = "ack" /\ y \in Decoded(tasks[1].ack, m)
      BY <2>1, <2>2, Zenon
    <3>2. PICK x \in 1..(FragmentCount(Size[m]) - 1) : SentUpTo(k, m, x)
      BY <2>3, <3>1 DEF InOrder
    <3>3. x - 1 \notin oms'[m].ackd
      <4>1. d = 1 => 1 \in 1..(k - 1)
        BY <2>1, <1>0
      <4> QED  BY <3>1, <3>2, <4>1, Zenon DEF SentUpTo
    <3>4. ASSUME NEW j \in 1..(i - 1), tasks'[j].op = "ack"
          PROVE  x - 1 \notin Decoded(tasks'[j].ack, m)
      <4>1. j \in 1..(Len(tasks) - d) /\ j + d \in 1..(k - 1)
        BY <1>0, <1>4, <2>1
      <4>2. tasks'[j] = tasks[j + d]
        BY <4>1 DEF Moved
      <4> QED  BY <3>2, <3>4, <4>1, <4>2, Zenon DEF SentUpTo
    <3>5. SentUpTo(i, m, x)'
      BY <3>1, <3>2, <3>3, <3>4, Zenon DEF SentUpTo, Decoded
    <3> QED  BY <3>5
  <2> QED  BY <1>3, <2>4, <2>5, Zenon DEF InOrder, SentUpTo, Decoded
<1>5. CASE n = 1 /\ i = Len(tasks') /\ tasks'[i] = t
  <2>1. /\ m = t.msgId /\ m \in started' /\ m # sendingMsg'
        /\ \A k \in (d + 1)..Len(tasks) : ~(tasks[k].op = "send" /\ tasks[k].msgId = m)
        /\ InOrder(Len(tasks), t.msgId)'
    BY <1>2, <1>3, <1>5, Zenon
  <2>2. ASSUME NEW j \in 1..Len(tasks'), tasks'[j].op = "send", tasks'[j].msgId = m
        PROVE  j = i
    BY <1>1, <1>5, <2>1, <2>2, Zenon
  <2>3. Alone(i)'
    BY <1>3, <2>1, <2>2 DEF Alone
  <2>4. InOrder(i, tasks[i].msgId)'
    BY <1>3, <1>5, <2>1, Zenon DEF InOrder, SentUpTo, Decoded
  <2> QED  BY <2>3, <2>4, Zenon
<1> QED  BY <1>1, <1>2, <1>4, <1>5, Zenon

-----------------------------------------------------------------------------
(* The sender's steps                                                        *)

\* The receiver is left alone.
LEMMA SenderSide ==
  ASSUME AckInv, WholeInv', UNCHANGED receiver, \A m \in Msg : Seen(m) \subseteq Seen(m)',
         Heard' \subseteq Heard, SentOK', OrderOK', AckSound'
  PROVE  AckInv'
<1>0. UNCHANGED <<ims, delivered, expired>>
  BY Zenon DEF receiver
<1>1. Forward
  BY <1>0 DEF Forward, Pending
<1>2. GotOK'
  BY <1>0, <1>1, HoldsAsBefore
<1>3. HeardOK'
  BY <1>1, HeardStays DEF AckInv
<1> QED  BY <1>2, <1>3 DEF AckInv

\* The steps other than those of the acknowledgements' handler remove no message
\* as acknowledged.
LEMMA SoundStays ==
  ASSUME AckSound, UNCHANGED <<acked, delivered, expired>>
  PROVE  AckSound'
  BY DEF AckSound

\* The sender's state of a message is left alone.
LEMMA SendsStays ==
  ASSUME NEW m, Sends(m), UNCHANGED receiver, oms'[m] = oms[m], Seen(m)' = Seen(m),
         m \notin started' \/ m = sendingMsg' => m \notin started \/ m = sendingMsg
  PROVE  Sends(m)'
  BY Zenon DEF Sends, receiver, Pending

\* sendData, and what others post.
LEMMA PostingAcks ==
  ASSUME TransferAssumption, AckInv, WholeInv',
         \/ \E m \in Msg : SendDataBegin(m) \/ TimerExpires(m)
         \/ \E a \in acks : AckArrives(a)
  PROVE  AckInv'
<1>1. UNCHANGED <<oms, acked, net, acks, receiver>> /\ started \subseteq started'
  BY DEF SendDataBegin, TimerExpires, AckArrives
<1>2. \A m \in Msg : Seen(m)' = Seen(m)
  BY <1>1, Zenon DEF Seen
<1>3. QueueOK /\ OrderOK /\ SentOK /\ sendingMsg \in Msg \cup {NoMsg}
  BY DEF AckInv, WholeInv, SenderOK
<1>4. AckSound'
  BY <1>1, SoundStays DEF AckInv, receiver
<1>5. ASSUME NEW k \in Msg, SendDataBegin(k) PROVE AckInv'
  <2>1. tasks' = tasks /\ sendingMsg' = k /\ k \notin started /\ started' = started \cup {k}
        /\ sendingMsg = NoMsg
    BY <1>5 DEF SendDataBegin
  <2>2. SentOK'
    <3>1. sendingMsg' \in started' \cup {NoMsg} /\ acked' \subseteq Msg
      BY <1>1, <1>3, <2>1 DEF SentOK
    <3>2. ASSUME NEW m \in Msg PROVE Sends(m)'
      BY <1>1, <1>2, <1>3, <2>1, SendsStays DEF SentOK
    <3> QED  BY <3>1, <3>2 DEF SentOK
  <2>3. OrderOK'
    BY <1>1, <1>3, <2>1, ZenonT(40) DEF OrderOK, Alone, InOrder, SentUpTo, Decoded
  <2>4. Heard' = Heard
    BY <1>1, <2>1, Zenon DEF Heard
  <2> QED  BY <1>1, <1>2, <1>4, <2>2, <2>3, <2>4, SenderSide
<1>6. ASSUME NEW t, tasks' = Append(tasks, t), t.op # "send",
             t.op = "ack" => t.ack \in acks, UNCHANGED <<sendingMsg, started>>
      PROVE  AckInv'
  <2>1. PICK d : d = 0 /\ d # 1
    OBVIOUS
  <2>2. Moved(d, 1, t)
    BY <1>3, <1>6, <2>1, PostMoves
  <2>3. SentOK'
    BY <1>1, <1>2, <1>3, <1>6, SendsStays DEF SentOK
  <2>4. OrderOK'
    <3>1. ASSUME NEW i \in (d + 1)..Len(tasks), tasks[i].op = "send"
          PROVE  tasks[i].msgId # sendingMsg'
      <4>1. i \in 1..Len(tasks)
        BY <2>1
      <4> QED  BY <1>3, <1>6, <3>1, <4>1 DEF OrderOK, Alone
    <3> QED  BY <1>1, <1>3, <1>6, <2>2, <3>1, OrderStays, Zenon
  <2>5. Heard' \subseteq Heard
    BY <1>1, <1>6, <2>2, MovedHeard
  <2> QED  BY <1>1, <1>2, <1>4, <2>3, <2>4, <2>5, SenderSide
<1>7. ASSUME NEW m \in Msg, TimerExpires(m) PROVE AckInv'
  <2>1. tasks' = Append(tasks, Task("timer", m)) /\ UNCHANGED <<sendingMsg, started>>
    BY <1>7 DEF TimerExpires
  <2>2. Task("timer", m).op = "timer"
    BY DEF Task
  <2> QED  BY <1>6, <2>1, <2>2
<1>8. ASSUME NEW a \in acks, AckArrives(a) PROVE AckInv'
  <2>1. tasks' = Append(tasks, AckTask(a)) /\ UNCHANGED <<sendingMsg, started>>
    BY <1>8 DEF AckArrives
  <2>2. AckTask(a).op = "ack" /\ AckTask(a).ack = a
    BY DEF AckTask
  <2> QED  BY <1>6, <2>1, <2>2
<1> QED  BY <1>5, <1>7, <1>8

\* The end of sendData: the message is in the table and its first callback posted.
LEMMA SendDataAcks ==
  ASSUME TransferAssumption, AckInv, WholeInv', SendDataEnd
  PROVE  AckInv'
<1>0. QueueOK /\ OrderOK /\ SentOK /\ oms \in [Msg -> OutboundMessageState]
  BY Zenon DEF AckInv, WholeInv, SenderOK
<1>1. PICK k \in Msg : k = sendingMsg
  BY DEF AckInv, WholeInv, SenderOK, SendDataEnd
<1>2. PICK t : t = Task("send", k)
  OBVIOUS
<1>3. t.op = "send" /\ t.msgId = k
  BY <1>2 DEF Task
<1>4. /\ UNCHANGED <<started, acked, net, acks, receiver>> /\ sendingMsg' = NoMsg
      /\ oms' = [oms EXCEPT ![k] = NewOutbound] /\ tasks' = Append(tasks, t)
  BY <1>1, <1>2 DEF SendDataEnd
<1>5. \A m \in Msg : Seen(m)' = Seen(m)
  BY <1>4 DEF Seen
<1>6. oms'[k] = NewOutbound /\ \A m \in Msg \ {k} : oms'[m] = oms[m]
  BY <1>0, <1>4
<1>7. k \in started /\ k # NoMsg /\ Seen(k) = {}
  BY <1>0, <1>1 DEF SentOK, Sends, TransferAssumption
<1>8. NewOutbound.frags = {} /\ NewOutbound.sent = {} /\ NewOutbound.ackd = {}
  BY DEF NewOutbound, NoOutbound
<1>9. SentOK'
  <2>1. sendingMsg' \in started' \cup {NoMsg} /\ acked' \subseteq Msg
    BY <1>0, <1>4 DEF SentOK
  <2>2. ASSUME NEW m \in Msg, m # k PROVE Sends(m)'
    BY <1>0, <1>1, <1>4, <1>5, <1>6, <2>2, SendsStays DEF SentOK
  <2>3. Sends(k)'
    BY <1>4, <1>5, <1>6, <1>7, <1>8, Zenon DEF Sends
  <2> QED  BY <2>1, <2>2, <2>3 DEF SentOK
<1>10. PICK d : d = 0 /\ d # 1
  OBVIOUS
<1>11. Moved(d, 1, t)
  BY <1>0, <1>4, <1>10, PostMoves
<1>12. OrderOK'
  <2>1. ASSUME NEW i \in (d + 1)..Len(tasks), tasks[i].op = "send"
        PROVE  tasks[i].msgId # sendingMsg' /\ tasks[i].msgId # k /\ tasks[i].msgId \in Msg
    <3>1. i \in 1..Len(tasks)
      BY <1>10
    <3>2. tasks[i].msgId \in Msg
      BY <1>0, <2>1, <3>1, Zenon DEF QueueOK
    <3>3. tasks[i].msgId # k
      BY <1>0, <1>1, <2>1, <3>1, Zenon DEF OrderOK, Alone
    <3> QED  BY <1>4, <3>2, <3>3 DEF TransferAssumption
  <2>2. InOrder(Len(tasks), t.msgId)'
    BY <1>3, <1>6, <1>8, Zenon DEF InOrder
  <2> QED  BY <1>0, <1>3, <1>4, <1>6, <1>7, <1>11, <2>1, <2>2, OrderStays, ZenonT(40)
<1>13. Heard' \subseteq Heard
  BY <1>3, <1>4, <1>11, MovedHeard
<1>14. AckSound'
  BY <1>4, SoundStays DEF AckInv, receiver
<1> QED  BY <1>4, <1>5, <1>9, <1>12, <1>13, <1>14, SenderSide

\* A posted callback finds the next fragment: those before it are what was sent.
LEMMA NextUnsent ==
  ASSUME FragmentSizeAssumption, TransferAssumption, AckInv, NEW m \in Msg,
         InOrder(1, m), oms[m].live, NEW s, s = Fragment(m, oms[m])
  PROVE  /\ s \in OutboundMessageState /\ s.live /\ s.frags = Fragments(m)
         /\ s.sent = oms[m].sent /\ s.ackd = oms[m].ackd
         /\ \E n \in Fragments(m) :
              /\ s.sent = 0..(n - 1) /\ First(Unsent(s)) = n
              /\ Unsent(s) = n..(FragmentCount(Size[m]) - 1)
<1>0. /\ oms[m] \in OutboundMessageState /\ oms[m].frags \in {{}, Fragments(m)}
      /\ oms[m].sent \subseteq oms[m].frags
  BY Zenon DEF AckInv, WholeInv, SenderOK, SentOK, Sends
<1>1. PICK c \in Nat \ {0} : c = FragmentCount(Size[m]) /\ Fragments(m) = 0..(c - 1)
  BY FragmentNumbers, Zenon
<1>2. /\ s \in OutboundMessageState /\ s.live /\ s.frags = Fragments(m)
      /\ s.sent = oms[m].sent /\ s.ackd = oms[m].ackd
  <2>1. CASE oms[m].frags = {}
    <3>1. s = [oms[m] EXCEPT !.frags = Fragments(m)]
      BY <2>1 DEF Fragment
    <3>2. Fragments(m) \in SUBSET Nat
      BY FragmentNumbers
    <3> QED  BY <1>0, <3>1, <3>2 DEF OutboundMessageState
  <2>2. CASE oms[m].frags # {}
    BY <1>0, <2>2, Zenon DEF Fragment
  <2> QED  BY <2>1, <2>2
<1>3. PICK n \in 0..(c - 1) : s.sent = 0..(n - 1)
  <2>1. CASE oms[m].frags = {}
    <3>1. s.sent = 0..(0 - 1)
      BY <1>0, <1>2, <2>1
    <3> QED  BY <1>1, <3>1
  <2>2. CASE oms[m].frags # {}
    <3>1. PICK n \in 1..(c - 1) : oms[m].sent = 0..(n - 1)
      BY <1>1, <2>2, Zenon DEF InOrder, SentUpTo
    <3> QED  BY <1>1, <1>2, <3>1
  <2> QED  BY <2>1, <2>2
<1>4. Unsent(s) = n..(c - 1)
  BY <1>1, <1>2, <1>3 DEF Unsent
<1>5. First(Unsent(s)) = n
  <2>1. Unsent(s) \in SUBSET Nat /\ n \in Unsent(s)
    BY <1>1, <1>3, <1>4
  <2>2. PICK f : f = First(Unsent(s))
    OBVIOUS
  <2>3. f \in Unsent(s) /\ f <= n
    BY <2>1, <2>2, Least, Zenon
  <2>4. f = n
    BY <1>1, <1>3, <1>4, <2>3
  <2> QED  BY <2>2, <2>4, Zenon
<1> QED  BY <1>1, <1>2, <1>3, <1>4, <1>5, Zenon

\* sendDataCallback.
LEMMA SendAcks ==
  ASSUME FragmentSizeAssumption, TransferAssumption, AckInv, WholeInv', Send
  PROVE  AckInv'
<1>0. /\ QueueOK /\ OrderOK /\ SentOK /\ oms \in [Msg -> OutboundMessageState]
      /\ tasks # <<>> /\ Head(tasks).op = "send" /\ HeardOK
  BY DEF AckInv, WholeInv, SenderOK, Send, Running
<1>1. PICK S : tasks \in Seq(S)
  BY <1>0 DEF QueueOK
<1>2. Head(tasks) = tasks[1] /\ 1 \in 1..Len(tasks)
  BY <1>0, <1>1
<1>3. PICK m \in Msg : m = tasks[1].msgId
  BY <1>0, <1>2 DEF QueueOK
<1>4. Alone(1) /\ InOrder(1, m) /\ Sends(m)
  BY <1>0, <1>2, <1>3, Zenon DEF OrderOK, SentOK
<1>5. /\ UNCHANGED <<sendingMsg, started, acked, acks, receiver>> /\ SendDataCallback(m)
  BY <1>2, <1>3 DEF Send
<1>6. AckSound'
  BY <1>5, SoundStays, Zenon DEF AckInv, receiver
<1>7. \A i \in 2..Len(tasks) : tasks[i].op = "send" =>
        /\ tasks[i].msgId # m /\ tasks[i].msgId # sendingMsg' /\ tasks[i].msgId \in Msg
  <2> SUFFICES ASSUME NEW i \in 2..Len(tasks), tasks[i].op = "send"
               PROVE  tasks[i].msgId # m /\ tasks[i].msgId # sendingMsg' /\ tasks[i].msgId \in Msg
    OBVIOUS
  <2>1. i \in 1..Len(tasks) /\ i # 1
    BY <1>2
  <2>2. tasks[i].msgId # m
    BY <1>3, <1>4, <2>1 DEF Alone
  <2> QED  BY <1>0, <1>5, <2>1, <2>2, Zenon DEF OrderOK, Alone, QueueOK
<1>8. CASE tasks' = Tail(tasks) /\ UNCHANGED <<oms, net>>
  <2>1. \A k \in Msg : Seen(k)' = Seen(k)
    BY <1>8, Zenon DEF Seen
  <2>2. SentOK'
    BY <1>0, <1>5, <1>8, <2>1, SendsStays DEF SentOK
  <2>3. PICK n : n = 0 /\ n # 1
    OBVIOUS
  <2>4. Moved(1, n, tasks[1])
    BY <1>0, <1>8, <2>3, RunMoves
  <2>5. OrderOK'
    <3>1. 1 + 1 = 2
      OBVIOUS
    <3> QED  BY <1>0, <1>5, <1>7, <1>8, <2>3, <2>4, <3>1, OrderStays, Zenon
  <2>6. Heard' \subseteq Heard
    BY <1>5, <2>3, <2>4, MovedHeard
  <2> QED  BY <1>5, <1>6, <2>1, <2>2, <2>5, <2>6, SenderSide
<1>9. PICK s : s = Fragment(m, oms[m])
  OBVIOUS
<1>10. CASE /\ oms[m].live
            /\ oms' = [oms EXCEPT ![m] = [s EXCEPT !.sent = @ \cup {First(Unsent(s))}]]
            /\ net' = net \cup {FragmentPacket(m, First(Unsent(s)))}
            /\ tasks' = Tail(tasks) \o
                 (IF Unsent(s) = {First(Unsent(s))} THEN <<>> ELSE <<Task("send", m)>>)
  <2>1. /\ s \in OutboundMessageState /\ s.live /\ s.frags = Fragments(m)
        /\ s.sent = oms[m].sent /\ s.ackd = oms[m].ackd
        /\ \E n \in Fragments(m) :
              /\ s.sent = 0..(n - 1) /\ First(Unsent(s)) = n
              /\ Unsent(s) = n..(FragmentCount(Size[m]) - 1)
    BY <1>4, <1>9, <1>10, NextUnsent
  <2>2. PICK n \in Fragments(m) :
              /\ s.sent = 0..(n - 1) /\ First(Unsent(s)) = n
              /\ Unsent(s) = n..(FragmentCount(Size[m]) - 1)
    BY <2>1
  <2>3. PICK c \in Nat \ {0} : c = FragmentCount(Size[m]) /\ Fragments(m) = 0..(c - 1)
    BY FragmentNumbers
  <2>4. PICK sent \in SUBSET Nat : sent = s.sent \cup {n}
    BY <2>1, <2>2, <2>3, Zenon DEF OutboundMessageState
  <2>5. sent = 0..n
    BY <2>2, <2>3, <2>4
  <2>6. PICK u : u = [s EXCEPT !.sent = sent]
    BY Zenon
  <2>7. u.live /\ u.frags = Fragments(m) /\ u.sent = sent /\ u.ackd = oms[m].ackd
    BY <2>1, <2>6 DEF OutboundMessageState
  <2>8. oms' = [oms EXCEPT ![m] = u] /\ net' = net \cup {FragmentPacket(m, n)}
    BY <1>10, <2>2, <2>4, <2>6
  <2>9. oms'[m] = u /\ \A k \in Msg \ {m} : oms'[k] = oms[k]
    BY <1>0, <2>8, Zenon
  <2>10. Seen(m)' = Seen(m) \cup {n} /\ \A k \in Msg \ {m} : Seen(k)' = Seen(k)
    BY <2>8, SeenGrows
  <2>11. /\ oms[m].sent = Seen(m) /\ oms[m].ackd \subseteq oms[m].sent
         /\ Pending(m) => oms[m].ackd \subseteq ims[m].got
    BY <1>4, <1>10 DEF Sends
  <2>12. SentOK'
    <3>1. sendingMsg' \in started' \cup {NoMsg} /\ acked' \subseteq Msg
      BY <1>0, <1>5, Zenon DEF SentOK
    <3>2. ASSUME NEW k \in Msg, k # m PROVE Sends(k)'
      BY <1>0, <1>5, <2>9, <2>10, <3>2, SendsStays DEF SentOK
    <3>3. Sends(m)'
      <4>1. u.sent = Seen(m)' /\ u.sent \subseteq u.frags /\ u.ackd \subseteq u.sent
        <5>1. u.sent = Seen(m)'
          BY <2>1, <2>4, <2>7, <2>10, <2>11, Zenon
        <5>2. u.sent \subseteq u.frags
          BY <2>2, <2>3, <2>5, <2>7
        <5>3. u.ackd \subseteq u.sent
          BY <2>1, <2>4, <2>7, <2>11, Zenon
        <5> QED  BY <5>1, <5>2, <5>3, Zenon
      <4>2. Pending(m)' => u.ackd \subseteq ims'[m].got
        BY <1>5, <2>7, <2>11, Zenon DEF receiver, Pending
      <4>3. m \in started' /\ m # sendingMsg'
        BY <1>3, <1>4, <1>5, Zenon DEF Alone
      <4> QED  BY <2>9, <4>1, <4>2, <4>3, Zenon DEF Sends
    <3> QED  BY <3>1, <3>2, <3>3 DEF SentOK
  <2>13. ASSUME NEW x, NEW t, Moved(1, x, t), x = 1 => Unsent(s) # {n} /\ t = Task("send", m)
         PROVE  AckInv'
    <3>1. x = 1 => t.op = "send" /\ t.msgId = m
      BY <2>13 DEF Task
    <3>2. Heard' \subseteq Heard
      BY <1>5, <2>13, <3>1, MovedHeard
    <3>3. x = 1 => InOrder(Len(tasks), m)'
      <4> SUFFICES ASSUME x = 1
                   PROVE  \E y \in 1..(FragmentCount(Size[m]) - 1) : SentUpTo(Len(tasks), m, y)'
        BY Zenon DEF InOrder, FragmentCount
      <4>1. PICK y \in 1..(c - 1) : y = n + 1 /\ y - 1 = n
        BY <2>2, <2>3, <2>13
      <4>2. n \notin oms[m].sent
        BY <2>1, <2>2, <2>3
      <4>3. ASSUME NEW j \in 1..Len(tasks'), tasks'[j].op = "ack"
            PROVE  n \notin Decoded(tasks'[j].ack, m)
        <5>1. PICK a : a = tasks'[j].ack
          BY Zenon
        <5>2. a \in Heard
          BY <3>2, <4>3, <5>1 DEF Heard
        <5>3. Decoded(a, m) \subseteq Seen(m)
          BY <1>0, <5>2, Zenon DEF HeardOK, AckOK
        <5> QED  BY <2>11, <4>2, <5>1, <5>3, Zenon
      <4>4. \A j \in 1..(Len(tasks') - 1) : j \in 1..Len(tasks')
        BY <2>13 DEF Moved
      <4>5. SentUpTo(Len(tasks), m, y)'
        BY <2>5, <2>7, <2>9, <2>11, <4>1, <4>2, <4>3, <4>4, Zenon DEF SentUpTo, Decoded
      <4> QED  BY <2>3, <4>1, <4>5
    <3>4. OrderOK'
      <4>1. 1 + 1 = 2
        OBVIOUS
      <4>2. x = 1 => InOrder(Len(tasks), t.msgId)'
        BY <3>1, <3>3, Zenon
      <4>3. m \in started' /\ m # sendingMsg'
        BY <1>3, <1>4, <1>5 DEF Alone
      <4> QED  BY <1>0, <1>5, <1>7, <2>9, <2>13, <3>1, <4>1, <4>2, <4>3, OrderStays, Zenon
    <3> QED  BY <1>5, <1>6, <2>10, <2>12, <3>2, <3>4, SenderSide, Zenon
  <2>14. CASE Unsent(s) = {n}
    <3>1. Tail(tasks) \in Seq(S)
      BY <1>0, <1>1
    <3>2. tasks' = Tail(tasks)
      <4>1. tasks' = Tail(tasks) \o <<>>
        BY <1>10, <2>2, <2>14, Zenon
      <4> QED  BY <3>1, <4>1
    <3>3. PICK x : x = 0 /\ x # 1
      OBVIOUS
    <3>4. Moved(1, x, tasks[1])
      BY <1>0, <3>2, <3>3, RunMoves
    <3> QED  BY <2>13, <3>3, <3>4
  <2>15. CASE Unsent(s) # {n}
    <3>1. tasks' = Tail(tasks) \o <<Task("send", m)>>
      BY <1>10, <2>2, <2>15
    <3>2. Moved(1, 1, Task("send", m))
      BY <1>0, <3>1, RunPostMoves, Zenon
    <3> QED  BY <2>13, <2>15, <3>2
  <2> QED  BY <2>14, <2>15
<1> QED  BY <1>5, <1>8, <1>9, <1>10, Zenon DEF SendDataCallback

\* timerCallback marks nothing as sent that a posted sendDataCallback counts on:
\* the latest fragment is not acknowledged yet, and it or an earlier one is the
\* first such.
LEMMA TimerSendsAgain ==
  ASSUME FragmentSizeAssumption, TransferAssumption, AckInv, NEW m \in Msg,
         NEW i \in Nat, InOrder(i, m), oms[m].live, Unackd(oms[m]) # {}
  PROVE  First(Unackd(oms[m])) \in oms[m].sent
<1>1. /\ oms[m].frags \in {{}, Fragments(m)} /\ oms[m].sent \subseteq oms[m].frags
  BY Zenon DEF AckInv, WholeInv, SenderOK, SentOK, Sends
<1>2. PICK c \in Nat \ {0} : c = FragmentCount(Size[m]) /\ Fragments(m) = 0..(c - 1)
  BY FragmentNumbers, Zenon
<1>3. oms[m].frags = 0..(c - 1)
  BY <1>1, <1>2, Zenon DEF Unackd
<1>4. PICK n \in 1..(c - 1) : oms[m].sent = 0..(n - 1) /\ n - 1 \notin oms[m].ackd
  BY <1>2, <1>3 DEF InOrder, SentUpTo
<1>5. PICK T : T = Unackd(oms[m])
  BY Zenon
<1>6. T \in SUBSET Nat /\ n - 1 \in T
  BY <1>2, <1>3, <1>4, <1>5 DEF Unackd
<1>7. First(T) \in Nat /\ First(T) <= n - 1
  BY <1>6, Least, Zenon
<1> QED  BY <1>2, <1>4, <1>5, <1>7

\* The handlers behind the first one.
LEMMA Behind ==
  ASSUME QueueOK, OrderOK, sendingMsg' = sendingMsg, NEW i \in 2..Len(tasks),
         tasks[i].op = "send"
  PROVE  /\ tasks[i].msgId # sendingMsg' /\ tasks[i].msgId \in Msg
         /\ InOrder(i, tasks[i].msgId) /\ i \in Nat
<1>1. Len(tasks) \in Nat
  BY DEF QueueOK
<1>2. i \in 1..Len(tasks) /\ i \in Nat
  BY <1>1
<1> QED  BY <1>2 DEF OrderOK, Alone, QueueOK

\* timerCallback.
LEMMA TimerAcks ==
  ASSUME FragmentSizeAssumption, TransferAssumption, AckInv, WholeInv', Timer
  PROVE  AckInv'
<1>0. /\ QueueOK /\ OrderOK /\ SentOK /\ oms \in [Msg -> OutboundMessageState]
      /\ tasks # <<>> /\ Head(tasks).op = "timer"
  BY DEF AckInv, WholeInv, SenderOK, Timer, Running
<1>1. /\ UNCHANGED <<sendingMsg, started, acked, acks, receiver>> /\ tasks' = Tail(tasks)
  BY DEF Timer
<1>2. PICK x : x = 0 /\ x # 1
  OBVIOUS
<1>3. Moved(1, x, tasks[1]) /\ Head(tasks) = tasks[1] /\ 1 \in 1..Len(tasks)
  BY <1>0, <1>1, <1>2, RunMoves
<1>4. PICK m \in Msg : TimerCallback(m)
  BY <1>0, <1>3, Zenon DEF Timer, QueueOK
<1>5. AckSound' /\ Heard' \subseteq Heard
  BY <1>1, <1>2, <1>3, MovedHeard, SoundStays DEF AckInv, receiver
<1>6. 1 + 1 = 2
  OBVIOUS
<1>7. sendingMsg' \in started' \cup {NoMsg} /\ acked' \subseteq Msg
  BY <1>0, <1>1 DEF SentOK
<1>8. ASSUME net' = net, \A k \in Msg : oms'[k] = oms[k] \/ oms'[k] = NoOutbound
      PROVE  AckInv'
  <2>1. \A k \in Msg : Seen(k)' = Seen(k)
    BY <1>8, Zenon DEF Seen
  <2>2. NoOutbound.live = FALSE
    BY Zenon DEF NoOutbound
  <2>3. ASSUME NEW k \in Msg PROVE Sends(k)'
    <3>1. CASE oms'[k] = oms[k]
      BY <1>0, <1>1, <2>1, <3>1, SendsStays, Zenon DEF SentOK
    <3>2. CASE oms'[k] = NoOutbound
      BY <1>0, <1>1, <2>1, <2>2, <3>2, Zenon DEF SentOK, Sends
    <3> QED  BY <1>8, <3>1, <3>2
  <2>4. SentOK'
    BY <1>7, <2>3 DEF SentOK
  <2>5. \A i \in 2..Len(tasks) : tasks[i].op = "send" =>
          LET k == tasks[i].msgId IN
          /\ k # sendingMsg'
          /\ oms'[k].live /\ oms'[k].frags # {} => oms'[k] = oms[k]
    BY <1>0, <1>1, <1>8, <2>2, Behind, Zenon
  <2>6. OrderOK'
    BY <1>0, <1>1, <1>2, <1>3, <1>6, <2>5, OrderStays, Zenon
  <2> QED  BY <1>1, <1>5, <2>1, <2>4, <2>6, SenderSide, Zenon
<1>9. CASE UNCHANGED <<oms, net>> \/ (oms' = [oms EXCEPT ![m] = NoOutbound] /\ UNCHANGED net)
  BY <1>0, <1>8, <1>9, Zenon
<1>10. ASSUME oms[m].live, Unackd(oms[m]) # {}, NEW i, i = First(Unackd(oms[m])),
              oms' = [oms EXCEPT ![m].sent = @ \cup {i}, ![m].tries = @ + 1],
              net' = net \cup {FragmentPacket(m, i)}
       PROVE  AckInv'
  <2>1. oms[m] \in OutboundMessageState /\ oms[m].frags \in {{}, Fragments(m)} /\ Sends(m)
    BY <1>0, Zenon DEF AckInv, WholeInv, SenderOK, SentOK
  <2>2. i \in Fragments(m) /\ i \in oms[m].frags
    <3>1. Unackd(oms[m]) \in SUBSET Nat /\ Unackd(oms[m]) \subseteq oms[m].frags
      BY <2>1, FragmentNumbers DEF Unackd
    <3>2. i \in Unackd(oms[m])
      BY <1>10, <3>1, Least
    <3> QED  BY <2>1, <3>1, <3>2, Zenon
  <2>3. PICK u : u = oms'[m]
    OBVIOUS
  <2>4. /\ u.live = oms[m].live /\ u.frags = oms[m].frags /\ u.ackd = oms[m].ackd
        /\ u.sent = oms[m].sent \cup {i}
    BY <1>0, <1>10, <2>1, <2>3 DEF OutboundMessageState
  <2>5. \A k \in Msg \ {m} : oms'[k] = oms[k]
    BY <1>0, <1>10
  <2>6. Seen(m)' = Seen(m) \cup {i} /\ \A k \in Msg \ {m} : Seen(k)' = Seen(k)
    BY <1>10, <2>2, SeenGrows
  <2>7. ASSUME NEW k \in Msg, k # m PROVE Sends(k)'
    BY <1>0, <1>1, <2>5, <2>6, <2>7, SendsStays, Zenon DEF SentOK
  <2>8. Sends(m)'
    <3>1. /\ oms[m].sent = Seen(m) /\ oms[m].sent \subseteq oms[m].frags
          /\ oms[m].ackd \subseteq oms[m].sent /\ m \in started /\ m # sendingMsg
          /\ Pending(m) => oms[m].ackd \subseteq ims[m].got
      BY <1>10, <2>1 DEF Sends
    <3>2. u.sent = Seen(m)' /\ u.sent \subseteq u.frags /\ u.ackd \subseteq u.sent
      BY <2>2, <2>4, <2>6, <3>1, Zenon
    <3>3. Pending(m)' => u.ackd \subseteq ims'[m].got
      BY <1>1, <2>4, <3>1, Zenon DEF receiver, Pending
    <3>4. m \in started' /\ m # sendingMsg'
      BY <1>1, <3>1
    <3> QED  BY <2>3, <3>2, <3>3, <3>4, Zenon DEF Sends
  <2>9. SentOK'
    BY <1>7, <2>7, <2>8, Zenon DEF SentOK
  <2>10. ASSUME NEW j \in 2..Len(tasks), tasks[j].op = "send", NEW k, k = tasks[j].msgId,
                oms'[k].live, oms'[k].frags # {}
         PROVE  /\ oms[k].live /\ oms[k].frags # {} /\ oms'[k].sent = oms[k].sent
                /\ oms'[k].ackd = oms[k].ackd
    <3>1. k \in Msg /\ InOrder(j, k) /\ j \in Nat
      BY <1>0, <1>1, <2>10, Behind, Zenon
    <3>2. CASE k # m
      BY <2>5, <2>10, <3>1, <3>2
    <3>3. CASE k = m
      <4>1. i \in oms[m].sent
        BY <1>10, <3>1, <3>3, TimerSendsAgain, Zenon
      <4> QED  BY <2>3, <2>4, <2>10, <3>3, <4>1, Zenon
    <3> QED  BY <3>2, <3>3, Zenon
  <2>11. OrderOK'
    <3>1. \A j \in 2..Len(tasks) : tasks[j].op = "send" => tasks[j].msgId # sendingMsg'
      BY <1>0, <1>1, Behind, Zenon
    <3> QED  BY <1>0, <1>1, <1>2, <1>3, <1>6, <2>10, <3>1, OrderStays, ZenonT(40)
  <2> QED  BY <1>1, <1>5, <2>6, <2>9, <2>11, SenderSide
<1> QED  BY <1>4, <1>9, <1>10, Zenon DEF TimerCallback

\* A pending message whose size leaves a remainder is not complete at the
\* receiver, so that the sender cannot see all of it acknowledged.
LEMMA PendingIsIncomplete ==
  ASSUME FragmentSizeAssumption, TransferAssumption, AckInv, NEW m \in Msg, Pending(m),
         Size[m] % MaxFragmentSize # 0
  PROVE  ~ (Fragments(m) \subseteq ims[m].got)
<1> SUFFICES ASSUME Fragments(m) \subseteq ims[m].got PROVE FALSE
  BY Zenon
<1>1. Receives(m) /\ ims[m].got \subseteq Fragments(m) /\ delivered[m] = {}
  BY Zenon DEF AckInv, GotOK, WholeInv, ReceiverOK, Holds, Pending
<1>2. PICK c \in Nat \ {0} : c = FragmentCount(Size[m]) /\ Fragments(m) = 0..(c - 1)
  BY FragmentNumbers
<1>3. ims[m].got = 0..(c - 1) /\ ims[m].got # {} /\ c - 1 \in ims[m].got
  <2>1. ims[m].got = 0..(c - 1)
    BY <1>1, <1>2, Zenon
  <2>2. c - 1 \in 0..(c - 1)
    BY <1>2
  <2> QED  BY <2>1, <2>2, Zenon
<1>4. ims[m].live /\ ims[m].gotLast
  BY <1>1, <1>2, <1>3 DEF Receives
<1>5. PICK n \in Nat \ {0} : n = VectorSize(ims[m]) /\ n - 1 \in 0..(c - 1)
  BY <1>1, <1>3, VectorEnds, Zenon
<1>6. \A i \in 0..(n - 1) : i \in ims[m].got
  BY <1>2, <1>3, <1>5
<1>7. AllFragmentsReceived(ims[m])
  BY <1>4, <1>5, <1>6 DEF AllFragmentsReceived
<1> QED  BY <1>1, <1>7, Zenon DEF Receives

\* An acknowledgement that marks fragments.
LEMMA MarkedFields ==
  ASSUME NEW s \in OutboundMessageState, NEW bytes, NEW u, u = Marked(s, bytes)
  PROVE  /\ u.live = s.live /\ u.frags = s.frags /\ u.sent = s.sent
         /\ u.ackd = s.ackd \cup (DecodeAck(bytes) \cap s.frags)
<1>1. PICK ackd \in SUBSET Nat : ackd = s.ackd \cup (DecodeAck(bytes) \cap s.frags)
  BY Zenon DEF OutboundMessageState
<1>2. u = [s EXCEPT !.ackd = ackd]
  BY <1>1 DEF Marked
<1> QED  BY <1>1, <1>2 DEF OutboundMessageState

\* receiveData of the sender, for an acknowledgement.
LEMMA HandleAcks ==
  ASSUME FragmentSizeAssumption, TransferAssumption, AckInv, WholeInv', HandleAck
  PROVE  AckInv'
<1>0. /\ QueueOK /\ OrderOK /\ SentOK /\ HeardOK /\ oms \in [Msg -> OutboundMessageState]
      /\ tasks # <<>> /\ Head(tasks).op = "ack"
  BY Zenon DEF AckInv, WholeInv, SenderOK, HandleAck, Running
<1>1. /\ UNCHANGED <<sendingMsg, started, net, acks, receiver>> /\ tasks' = Tail(tasks)
  BY Zenon DEF HandleAck
<1>2. PICK x : x = 0 /\ x # 1
  OBVIOUS
<1>3. Moved(1, x, tasks[1]) /\ Head(tasks) = tasks[1] /\ 1 \in 1..Len(tasks)
  BY <1>0, <1>1, <1>2, RunMoves
<1>4. PICK a : a = tasks[1].ack
  OBVIOUS
<1>5. AckOK(a)
  BY <1>0, <1>3, <1>4 DEF HeardOK, Heard
<1>6. PICK gone : gone = {m \in Msg : AckCompletes(a, m)}
  BY Zenon
<1>7. /\ oms' = [m \in Msg |-> IF m \in gone THEN NoOutbound
                               ELSE IF oms[m].live /\ m \in DOMAIN a.partial
                               THEN Marked(oms[m], a.partial[m]) ELSE oms[m]]
      /\ acked' = acked \cup gone
  BY <1>3, <1>4, <1>6, Zenon DEF HandleAck
<1>8. \A m \in Msg : Seen(m)' = Seen(m)
  BY <1>1, Zenon DEF Seen
<1>9. Heard' \subseteq Heard
  BY <1>1, <1>2, <1>3, MovedHeard
<1>10. ASSUME NEW m \in Msg, oms'[m].live
       PROVE  /\ oms[m].live /\ oms'[m].frags = oms[m].frags /\ oms'[m].sent = oms[m].sent
              /\ oms'[m].ackd \subseteq oms[m].ackd \cup Decoded(a, m)
  <2>1. oms[m] \in OutboundMessageState /\ NoOutbound.live = FALSE
    BY <1>0 DEF NoOutbound
  <2>2. CASE oms'[m] = oms[m]
    BY <1>10, <2>2, Zenon
  <2>3. CASE m \in DOMAIN a.partial /\ oms'[m] = Marked(oms[m], a.partial[m])
    <3>1. /\ oms'[m].live = oms[m].live /\ oms'[m].frags = oms[m].frags
          /\ oms'[m].sent = oms[m].sent
          /\ oms'[m].ackd = oms[m].ackd \cup (DecodeAck(a.partial[m]) \cap oms[m].frags)
      BY <2>1, <2>3, MarkedFields
    <3> QED  BY <1>10, <2>3, <3>1, Zenon DEF Decoded
  <2> QED  BY <1>7, <1>10, <2>1, <2>2, <2>3, Zenon
<1>11. SentOK'
  <2>1. sendingMsg' \in started' \cup {NoMsg} /\ acked' \subseteq Msg
    BY <1>0, <1>1, <1>6, <1>7, Zenon DEF SentOK
  <2>2. ASSUME NEW m \in Msg PROVE Sends(m)'
    <3>1. Sends(m) /\ Seen(m)' = Seen(m) /\ (Pending(m)' <=> Pending(m)) /\ ims' = ims
      BY <1>0, <1>1, <1>8 DEF SentOK, receiver, Pending
    <3>2. /\ Decoded(a, m) \subseteq Seen(m)
          /\ Pending(m) => Decoded(a, m) \subseteq ims[m].got
      BY <1>5, Zenon DEF AckOK
    <3>3. oms'[m].live =>
            /\ oms'[m].sent = Seen(m)' /\ oms'[m].sent \subseteq oms'[m].frags
            /\ oms'[m].ackd \subseteq oms'[m].sent
            /\ Pending(m)' => oms'[m].ackd \subseteq ims'[m].got
      BY <1>10, <3>1, <3>2, Zenon DEF Sends
    <3>4. m \notin started' \/ m = sendingMsg' => Seen(m)' = {} /\ ~oms'[m].live
      BY <1>1, <1>10, <3>1, Zenon DEF Sends
    <3> QED  BY <3>3, <3>4, Zenon DEF Sends
  <2> QED  BY <2>1, <2>2 DEF SentOK
<1>12. OrderOK'
  <2>1. 1 + 1 = 2 /\ tasks[1].op = "ack"
    BY <1>0, <1>3
  <2>2. \A j \in 2..Len(tasks) : tasks[j].op = "send" =>
          tasks[j].msgId # sendingMsg' /\ tasks[j].msgId \in Msg
    BY <1>0, <1>1, Behind
  <2> QED  BY <1>0, <1>1, <1>2, <1>3, <1>4, <1>10, <2>1, <2>2, OrderStays, Zenon
<1>13. AckSound'
  <2> SUFFICES ASSUME NEW m \in acked', Size[m] % MaxFragmentSize # 0
               PROVE  delivered'[m] # {} \/ m \in expired'
    BY DEF AckSound
  <2>1. UNCHANGED <<delivered, expired>>
    BY <1>1 DEF receiver
  <2>2. CASE m \in acked
    BY <2>1, <2>2, Zenon DEF AckInv, AckSound
  <2>3. CASE m \in gone
    <3>1. m \in Msg /\ AckCompletes(a, m) /\ Sends(m)
      BY <1>0, <1>6, <2>3, Zenon DEF SentOK
    <3>2. CASE m \in a.complete
      BY <1>5, <2>1, <3>1, <3>2, Zenon DEF AckOK
    <3>3. CASE m \in DOMAIN a.partial /\ Unackd(Marked(oms[m], a.partial[m])) = {}
      <4> SUFFICES ASSUME Pending(m) PROVE FALSE
        BY <2>1 DEF Pending
      <4>1. /\ oms[m].live /\ oms[m].sent = Seen(m) /\ oms[m].sent \subseteq oms[m].frags
            /\ oms[m].ackd \subseteq ims[m].got
        BY <3>1, Zenon DEF AckCompletes, Sends
      <4>2. Seen(m) # {} /\ DecodeAck(a.partial[m]) \subseteq ims[m].got
        BY <1>5, <3>1, <3>3, Zenon DEF AckOK, Decoded
      <4>3. oms[m].frags = Fragments(m) /\ oms[m] \in OutboundMessageState
        BY <3>1, <4>1, <4>2, Zenon DEF AckInv, WholeInv, SenderOK
      <4>4. PICK u : u = Marked(oms[m], a.partial[m])
        BY Zenon
      <4>5. /\ u.frags = oms[m].frags
            /\ u.ackd = oms[m].ackd \cup (DecodeAck(a.partial[m]) \cap oms[m].frags)
        BY <4>3, <4>4, MarkedFields
      <4>6. Fragments(m) \subseteq ims[m].got
        BY <3>3, <4>1, <4>2, <4>3, <4>4, <4>5, Zenon DEF Unackd
      <4> QED  BY <3>1, <4>6, PendingIsIncomplete
    <3> QED  BY <3>1, <3>2, <3>3 DEF AckCompletes
  <2> QED  BY <1>7, <2>2, <2>3, Zenon
<1> QED  BY <1>1, <1>8, <1>9, <1>11, <1>12, <1>13, SenderSide

-----------------------------------------------------------------------------
(* The theorems                                                              *)

LEMMA InitAcks ==
  ASSUME Init
  PROVE  AckInv
<1>1. WholeInv
  BY InitWhole
<1>2. tasks = <<>> /\ Len(tasks) = 0 /\ acks = {} /\ net = {} /\ acked = {} /\ started = {}
      /\ sendingMsg = NoMsg
  BY DEF Init
<1>3. \A m \in Msg : Seen(m) = {}
  BY <1>2, Zenon DEF Seen
<1>4. HeardOK /\ OrderOK /\ AckSound
  BY <1>2 DEF HeardOK, Heard, OrderOK, AckSound
<1>5. \A m \in Msg : oms[m].live = FALSE /\ ims[m].live = FALSE /\ ims[m].got = {}
  BY DEF Init, NoOutbound, NoInbound
<1>6. GotOK
  BY <1>3, <1>5, Zenon DEF GotOK, Receives, AllFragmentsReceived
<1>7. SentOK
  BY <1>2, <1>3, <1>5, Zenon DEF SentOK, Sends
<1> QED  BY <1>1, <1>4, <1>6, <1>7 DEF AckInv

LEMMA NextAcks ==
  ASSUME FragmentSizeAssumption, TransferAssumption, AckInv, [Next]_vars
  PROVE  AckInv'
<1>0. WholeInv'
  BY NextWhole DEF AckInv
<1>1. CASE \E m \in Msg : SendDataBegin(m) \/ TimerExpires(m)
  BY <1>0, <1>1, PostingAcks
<1>2. CASE SendDataEnd
  BY <1>0, <1>2, SendDataAcks
<1>3. CASE \E a \in acks : AckArrives(a)
  BY <1>0, <1>3, PostingAcks
<1>4. CASE SenderThread
  BY <1>0, <1>4, SendAcks, TimerAcks, HandleAcks DEF SenderThread
<1>5. CASE \E p \in net : ReceiveFragment(p)
  BY <1>0, <1>5, FragmentAcks
<1>6. CASE \E m \in Msg : InboundTimerExpires(m) \/ InboundTimerCallback(m)
  BY <1>0, <1>6, ReceiverTimers
<1>7. CASE Disconnect \/ \E a \in acks : LoseAck(a)
  BY <1>0, <1>7, ReceiverTimers
<1>8. CASE FlushAck
  BY <1>0, <1>8, FlushAcks
<1>9. CASE UNCHANGED vars
  <2>1. UNCHANGED <<sender, net, acks, receiver>>
    BY <1>9 DEF vars
  <2>2. \A m \in Msg : Seen(m)' = Seen(m)
    BY <2>1, Zenon DEF Seen
  <2>3. Forward /\ UNCHANGED <<ims, delivered>>
    BY <2>1, <2>2, Zenon DEF Forward, receiver, Pending
  <2>4. Heard' = Heard
    BY <2>1 DEF Heard, sender
  <2>5. GotOK' /\ HeardOK'
    BY <2>3, <2>4, HoldsAsBefore, HeardStays DEF AckInv
  <2> QED  BY <1>0, <2>1, <2>3, <2>5, ReceiverSide
<1> QED  BY <1>1, <1>2, <1>3, <1>4, <1>5, <1>6, <1>7, <1>8, <1>9 DEF Next

LEMMA AckInvariance == Spec => []AckInv
<1>1. Init => AckInv
  BY InitAcks
<1>2. AckInv /\ [Next]_vars => AckInv'
  BY FragmentSizeAssumption, TransferAssumption, NextAcks
<1> QED  BY <1>1, <1>2, PTL DEF Spec

\* For any messages, sizes and numbers of tries: a message that
\* OutboundMessageFragments removes because of an acknowledgement was handed to
\* the receiving router, unless the receiver dropped it after 10 s or its size is
\* a multiple of the fragment size.
THEOREM AcknowledgedIsDelivered == Spec => []AckSound
<1>1. AckInv => AckSound
  BY DEF AckInv
<1> QED  BY <1>1, AckInvariance, PTL

\* A sendDataCallback that was posted finds a fragment to send, in every order in
\* which timers and acknowledgements come between two of them.
THEOREM CallbackFindsFragment == Spec => []NeverThrows
<1>1. ASSUME AckInv PROVE NeverThrows
  <2> SUFFICES ASSUME NEW i \in 1..Len(tasks), tasks[i].op = "send",
                      NEW m, m = tasks[i].msgId, oms[m].live, oms[m].frags # {}
               PROVE  Unsent(oms[m]) # {}
    BY Zenon DEF NeverThrows
  <2>1. m \in Msg /\ InOrder(i, m) /\ oms[m].frags \in {{}, Fragments(m)}
    BY <1>1, Zenon DEF AckInv, WholeInv, QueueOK, SenderOK, OrderOK
  <2>2. PICK c \in Nat \ {0} : c = FragmentCount(Size[m]) /\ Fragments(m) = 0..(c - 1)
    BY <2>1, FragmentNumbers, FragmentSizeAssumption, TransferAssumption
  <2>3. PICK n \in 1..(c - 1) : oms[m].sent = 0..(n - 1)
    BY <2>1, <2>2, Zenon DEF InOrder, SentUpTo
  <2>4. n \in oms[m].frags /\ n \notin oms[m].sent
    BY <2>1, <2>2, <2>3
  <2> QED  BY <2>4, Zenon DEF Unsent
<1> QED  BY <1>1, AckInvariance, PTL
=============================================================================
