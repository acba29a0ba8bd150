---------------------------- MODULE TransferProofs ----------------------------
(***************************************************************************)
(* Proofs about the transfer of messages, for any messages, sizes and      *)
(* bounds: a fragment on its way from sender to receiver, and the          *)
(* receiver's side of the acknowledgements.                                *)
(***************************************************************************)
EXTENDS MessageTransfer, WellFoundedInduction, TLAPS

-----------------------------------------------------------------------------
(* Arithmetic                                                                *)

\* Division with remainder.
LEMMA Division ==
  ASSUME NEW a \in Nat, NEW m \in Nat \ {0}
  PROVE  /\ a \div m \in Nat /\ (a \div m) * m <= a
         /\ a < (a \div m) * m + m
  OBVIOUS

\* Multiples of a larger number.
LEMMA Multiples ==
  ASSUME NEW i \in Nat, NEW j \in Nat, NEW m \in Nat, i < j
  PROVE  i * m + m <= j * m
<1>1. PICK d \in Nat : j = i + 1 + d
  <2>1. j - i - 1 \in Nat /\ j = i + 1 + (j - i - 1)
    OBVIOUS
  <2> QED  BY <2>1
<1>2. j * m = i * m + m + d * m
  BY <1>1
<1>3. d * m \in Nat /\ i * m \in Nat
  OBVIOUS
<1> QED  BY <1>2, <1>3

\* The quotient is unique.
LEMMA Quotient ==
  ASSUME NEW m \in Nat \ {0}, NEW i \in Nat, NEW r \in 0..(m - 1)
  PROVE  (i * m + r) \div m = i
<1> DEFINE a == i * m + r
<1> DEFINE q == a \div m
<1>1. a \in Nat /\ i * m \in Nat
  OBVIOUS
<1>2. q \in Nat /\ q * m <= a /\ a < q * m + m
  BY <1>1, Division
<1>3. q * m \in Nat
  BY <1>2
<1> HIDE DEF q
<1>4. ~(i < q)
  <2>1. i < q => i * m + m <= q * m
    BY <1>2, Multiples
  <2> QED  BY <1>1, <1>2, <1>3, <2>1
<1>5. ~(q < i)
  <2>1. q < i => q * m + m <= i * m
    BY <1>2, Multiples
  <2> QED  BY <1>1, <1>2, <1>3, <2>1
<1>6. q = i
  BY <1>2, <1>4, <1>5
<1> QED  BY <1>6 DEF q

\* A set of natural numbers has a least element.
LEMMA Least ==
  ASSUME NEW T \in SUBSET Nat, T # {}
  PROVE  First(T) \in T /\ \A j \in T : First(T) <= j
<1> DEFINE R == OpToRel(<, Nat)
<1>1. PICK x \in T : \A y \in T : ~ (<<y, x>> \in R)
  <2>1. IsWellFoundedOn(R, Nat)
    BY NatLessThanWellFounded, Zenon
  <2> HIDE DEF R
  <2> QED  BY <2>1, WFMin, Zenon
<1>2. ASSUME NEW y \in T PROVE x <= y
  <2>1. ~ (<<y, x>> \in {ss \in Nat \X Nat : ss[1] < ss[2]})
    BY <1>1 DEF OpToRel
  <2>2. y \in Nat /\ x \in Nat
    OBVIOUS
  <2>3. ~ (y < x)
    BY <2>1, <2>2
  <2> QED  BY <2>2, <2>3
<1> QED  BY <1>2, Zenon DEF First

-----------------------------------------------------------------------------
(* The header of a fragment                                                  *)

\* The fields do not overlap.
LEMMA Units ==
  /\ NumUnit \in Nat \ {0} /\ LastUnit \in Nat \ {0} /\ SizeUnit \in Nat \ {0}
  /\ NumUnit = 2 * LastUnit /\ SizeUnit < LastUnit /\ MaxMessageSize \in Nat
<1>1. 2^17 \in Nat \ {0} /\ 2^16 \in Nat \ {0} /\ 2^14 \in Nat \ {0}
  OBVIOUS
<1>2. 2^17 = 2 * 2^16 /\ 2^14 < 2^16 /\ 16383 * 127 \in Nat
  OBVIOUS
<1> QED  BY <1>1, <1>2 DEF NumUnit, LastUnit, SizeUnit, MaxMessageSize

\* What the receiver reads from a header is what the sender wrote there.
LEMMA HeaderRoundTrip ==
  ASSUME NEW i \in 0..127, NEW last \in BOOLEAN, NEW bytes \in 0..(SizeUnit - 1)
  PROVE  /\ DecodeFragNum(EncodeFragInfo(i, last, bytes)) = i
         /\ DecodeIsLast(EncodeFragInfo(i, last, bytes)) = last
<1>1. PICK flag \in {0, 1} : /\ flag = IF last THEN 1 ELSE 0
  OBVIOUS
<1>2. PICK r : r = flag * LastUnit + bytes
  OBVIOUS
<1>3. r \in 0..(NumUnit - 1) /\ r = (IF last THEN LastUnit ELSE 0) + bytes
  BY <1>1, <1>2, Units
<1>4. PICK v : v = i * NumUnit + r
  OBVIOUS
<1>5. v \in Nat /\ v < 128 * NumUnit
  <2>1. i * NumUnit + NumUnit <= 128 * NumUnit /\ i * NumUnit \in Nat
    BY Multiples, Units
  <2> QED  BY <1>3, <1>4, <2>1, Units
<1>6. EncodeFragInfo(i, last, bytes) = v
  <2>1. i % 256 = i
    OBVIOUS
  <2>2. v % (128 * NumUnit) = v
    BY <1>5, Units
  <2>3. (i % 256) * NumUnit + (IF last THEN LastUnit ELSE 0) + bytes = v
    BY <1>3, <1>4, <2>1, Units
  <2> QED  BY <2>2, <2>3 DEF EncodeFragInfo
<1>7. v \div NumUnit = i
  BY <1>3, <1>4, Quotient, Units
<1>8. v \div LastUnit = 2 * i + flag
  <2>1. v = (2 * i + flag) * LastUnit + bytes /\ 2 * i + flag \in Nat
    BY <1>1, <1>2, <1>4, Units
  <2>2. bytes \in 0..(LastUnit - 1)
    BY Units
  <2> QED  BY <2>1, <2>2, Quotient, Units
<1>9. (2 * i + flag) % 2 = flag
  BY <1>1
<1>10. ((v \div LastUnit) % 2 = 1) = last
  BY <1>1, <1>8, <1>9
<1> QED  BY <1>6, <1>7, <1>10 DEF DecodeFragNum, DecodeIsLast

\* A message has as many fragments as it needs, and no more.
LEMMA CountBounds ==
  ASSUME FragmentSizeAssumption, NEW size \in Nat \ {0}
  PROVE  /\ FragmentCount(size) \in Nat \ {0} /\ MaxFragmentSize \in Nat \ {0}
         /\ MaxFragmentSize < SizeUnit
         /\ (FragmentCount(size) - 1) * MaxFragmentSize < size
<1>1. MaxFragmentSize \in Nat \ {0} /\ MaxFragmentSize < SizeUnit
  BY Units DEF FragmentSizeAssumption
<1> DEFINE a == size + MaxFragmentSize - 1
<1> DEFINE c == a \div MaxFragmentSize
<1>2. a \in Nat
  BY <1>1
<1>3. c \in Nat /\ c * MaxFragmentSize <= a /\ a < c * MaxFragmentSize + MaxFragmentSize
  BY <1>1, <1>2, Division
<1>4. c = FragmentCount(size)
  BY DEF FragmentCount
<1> HIDE DEF c
<1>5. c # 0
  <2>1. c = 0 => c * MaxFragmentSize = 0
    BY <1>1
  <2> QED  BY <1>1, <1>3, <2>1
<1>6. (c - 1) * MaxFragmentSize = c * MaxFragmentSize - MaxFragmentSize
  BY <1>1, <1>3
<1>7. c * MaxFragmentSize \in Nat
  BY <1>1, <1>3
<1> QED  BY <1>1, <1>3, <1>4, <1>5, <1>6, <1>7

\* They are enough, and full ones only when the size is a multiple of their size.
LEMMA CountCovers ==
  ASSUME FragmentSizeAssumption, NEW size \in Nat \ {0}
  PROVE  /\ size <= FragmentCount(size) * MaxFragmentSize
         /\ size = FragmentCount(size) * MaxFragmentSize => size % MaxFragmentSize = 0
<1>1. PICK M \in Nat \ {0} : M = MaxFragmentSize
  BY CountBounds
<1>2. PICK c \in Nat : c = FragmentCount(size)
  BY CountBounds
<1>3. PICK a \in Nat : a = size + M - 1
  BY <1>1
<1>4. c = a \div M
  BY <1>1, <1>2, <1>3 DEF FragmentCount
<1>5. a < c * M + M /\ c * M \in Nat
  BY <1>3, <1>4, Division
<1>6. size <= c * M
  BY <1>3, <1>5
<1>7. ASSUME size = c * M PROVE size % M = 0
  <2>1. 0 \in 0..(M - 1) /\ c * M + 0 = size
    BY <1>5, <1>7
  <2>2. size \div M = c
    BY <2>1, Quotient
  <2>3. size = M * (size \div M) + (size % M)
    OBVIOUS
  <2>4. M * c = c * M /\ size % M \in Nat
    OBVIOUS
  <2> QED  BY <1>5, <1>7, <2>2, <2>3, <2>4
<1> QED  BY <1>1, <1>2, <1>6, <1>7

\* The header of each fragment names it, only the last one may be flagged, and it
\* is unless the size is a multiple of the fragment size.
LEMMA FragmentHeaders ==
  ASSUME FragmentSizeAssumption, TransferAssumption, NEW m \in Msg, NEW i \in Fragments(m)
  PROVE  /\ DecodeFragNum(FragInfo(Size[m], i)) = i
         /\ DecodeIsLast(FragInfo(Size[m], i)) => i = FragmentCount(Size[m]) - 1
         /\ Size[m] % MaxFragmentSize # 0 /\ i = FragmentCount(Size[m]) - 1 =>
              DecodeIsLast(FragInfo(Size[m], i))
<1> DEFINE M == MaxFragmentSize
           c == FragmentCount(Size[m])
<1>1. Size[m] \in Nat \ {0} /\ c <= 128
  BY Units DEF TransferAssumption
<1>2. c \in Nat \ {0} /\ M \in Nat \ {0} /\ M < SizeUnit /\ (c - 1) * M < Size[m]
  BY <1>1, CountBounds
<1>3. i \in 0..(c - 1) /\ i \in 0..127
  <2>1. i \in 0..(c - 1)
    BY DEF Fragments
  <2> QED  BY <1>1, <1>2, <2>1
<1>4. i * M \in Nat /\ (c - 1) * M \in Nat
  BY <1>2, <1>3
<1>5. i < c - 1 => i * M + M <= (c - 1) * M
  BY <1>2, <1>3, Multiples
<1>6. i * M <= (c - 1) * M
  <2>1. CASE i = c - 1
    BY <1>4, <2>1
  <2>2. CASE i < c - 1
    BY <1>2, <1>4, <1>5, <2>2
  <2> QED  BY <1>2, <1>3, <2>1, <2>2
<1> HIDE DEF M, c
<1>7. PICK left \in Nat \ {0} : left = Size[m] - i * M
  BY <1>1, <1>2, <1>4, <1>6
<1>8. Step(Size[m], i) = IF left < M THEN left ELSE M
  BY <1>7 DEF Step, M
<1>9. Step(Size[m], i) \in 0..(SizeUnit - 1)
  BY <1>2, <1>7, <1>8, Units
<1>10. IsLast(Size[m], i) \in BOOLEAN /\ (IsLast(Size[m], i) => i = c - 1)
  <2>1. i < c - 1 => ~(left < M)
    BY <1>1, <1>2, <1>4, <1>5, <1>7
  <2>2. i < c - 1 \/ i = c - 1
    BY <1>2, <1>3
  <2>3. i < c - 1 => Step(Size[m], i) = M
    BY <1>8, <2>1, Zenon
  <2> QED  BY <1>2, <2>2, <2>3 DEF IsLast, M
<1>11. /\ DecodeFragNum(FragInfo(Size[m], i)) = i
       /\ DecodeIsLast(FragInfo(Size[m], i)) = IsLast(Size[m], i)
  BY <1>3, <1>9, <1>10, HeaderRoundTrip DEF FragInfo
<1>12. ASSUME Size[m] % M # 0, i = c - 1 PROVE IsLast(Size[m], i)
  <2>1. Size[m] # c * M /\ Size[m] <= c * M
    BY <1>1, <1>12, CountCovers DEF c, M
  <2>2. c * M = i * M + M
    BY <1>2, <1>3, <1>12
  <2>3. left < M
    BY <1>1, <1>2, <1>4, <1>7, <2>1, <2>2
  <2> QED  BY <1>8, <2>3 DEF IsLast, M
<1> QED  BY <1>10, <1>11, <1>12 DEF c, M

-----------------------------------------------------------------------------
(* The receiver's fragments                                                  *)

\* The queue is a sequence of handlers, each about a message or an
\* acknowledgement.
QueueOK ==
  /\ \E S : tasks \in Seq(S)
  /\ \A i \in 1..Len(tasks) : tasks[i].op \in {"send", "timer"} => tasks[i].msgId \in Msg

\* The sender cuts a message into its own fragments.
SenderOK ==
  /\ oms \in [Msg -> OutboundMessageState]
  /\ \A m \in Msg : oms[m].frags \in {{}, Fragments(m)}
  /\ sendingMsg \in Msg \cup {NoMsg}

\* What is under way are fragments of messages.
NetOK ==
  \A p \in net : \E m \in Msg : \E i \in Fragments(m) : p = FragmentPacket(m, i)

\* What the receiver holds are fragments of the message, and once it has seen a
\* flagged one the last is among them.
Holds(s, m) ==
  /\ s.got \subseteq Fragments(m)
  /\ s.gotLast => FragmentCount(Size[m]) - 1 \in s.got

ReceiverOK ==
  /\ ims \in [Msg -> InboundMessageState]
  /\ delivered \in [Msg -> SUBSET (SUBSET Nat)]
  /\ \A m \in Msg : Holds(ims[m], m)

\* The inductive invariant.
WholeInv == QueueOK /\ SenderOK /\ NetOK /\ ReceiverOK /\ DeliveredWhole

\* Fragments are numbered from 0.
LEMMA FragmentNumbers ==
  ASSUME FragmentSizeAssumption, TransferAssumption, NEW m \in Msg
  PROVE  /\ Fragments(m) \subseteq Nat
         /\ FragmentCount(Size[m]) \in Nat \ {0}
         /\ Fragments(m) = 0..(FragmentCount(Size[m]) - 1)
<1>1. Size[m] \in Nat \ {0}
  BY Units DEF TransferAssumption
<1>2. FragmentCount(Size[m]) \in Nat \ {0}
  BY <1>1, CountBounds
<1> QED  BY <1>2 DEF Fragments

\* A handler is appended.
LEMMA Posted ==
  ASSUME QueueOK, NEW t, t.op \in {"send", "timer"} => t.msgId \in Msg,
         tasks' = Append(tasks, t)
  PROVE  QueueOK'
<1>1. PICK S : tasks \in Seq(S)
  BY DEF QueueOK
<1>2. tasks \in Seq(S \cup {t})
  BY <1>1
<1>3. tasks' \in Seq(S \cup {t}) /\ Len(tasks') = Len(tasks) + 1 /\ Len(tasks) \in Nat
  BY <1>2
<1>4. ASSUME NEW i \in 1..Len(tasks')
      PROVE  tasks'[i] = IF i = Len(tasks) + 1 THEN t ELSE tasks[i]
  BY <1>2, <1>3
<1> QED  BY <1>3, <1>4 DEF QueueOK

\* The first handler has run.
LEMMA Done ==
  ASSUME QueueOK, tasks # <<>>, tasks' = Tail(tasks)
  PROVE  /\ QueueOK'
         /\ Head(tasks).op \in {"send", "timer"} => Head(tasks).msgId \in Msg
<1>1. PICK S : tasks \in Seq(S)
  BY DEF QueueOK
<1>2. /\ Tail(tasks) \in Seq(S) /\ Len(Tail(tasks)) = Len(tasks) - 1
      /\ Len(tasks) \in Nat \ {0} /\ Head(tasks) = tasks[1]
  BY <1>1
<1>3. \A i \in 1..Len(Tail(tasks)) : Tail(tasks)[i] = tasks[i + 1]
  BY <1>1, <1>2
<1> QED  BY <1>2, <1>3 DEF QueueOK

\* An index that is not the last.
LEMMA Below ==
  ASSUME NEW n \in Nat, NEW i \in 1..n, i # n
  PROVE  i \in 1..(n - 1) /\ i + 1 \in 1..n
  OBVIOUS

\* Replacing the first element of a sequence by one at the end.
LEMMA TailAppend ==
  ASSUME NEW S, NEW s \in Seq(S), s # <<>>, NEW t \in S
  PROVE  /\ Tail(s) \o <<t>> \in Seq(S)
         /\ Len(Tail(s) \o <<t>>) = Len(s) /\ Len(s) \in Nat \ {0}
         /\ \A i \in 1..Len(s) :
              (Tail(s) \o <<t>>)[i] = IF i = Len(s) THEN t ELSE s[i + 1]
<1>1. /\ Tail(s) \in Seq(S) /\ Len(Tail(s)) = Len(s) - 1 /\ Len(s) \in Nat \ {0}
  OBVIOUS
<1>2. \A i \in 1..(Len(s) - 1) : Tail(s)[i] = s[i + 1]
  BY <1>1
<1>3. PICK u \in Seq(S) : u = Tail(s)
  BY <1>1, Zenon
<1>4. PICK w \in Seq(S) : w = <<t>>
  <2>1. <<t>> \in Seq(S)
    OBVIOUS
  <2> QED  BY <2>1, Zenon
<1>5. Len(w) = 1 /\ w[1] = t
  BY <1>4
<1>6. u \o w \in Seq(S) /\ Len(u \o w) = Len(u) + Len(w)
  OBVIOUS
<1>7. \A i \in 1..(Len(u) + Len(w)) :
        (u \o w)[i] = IF i <= Len(u) THEN u[i] ELSE w[i - Len(u)]
  OBVIOUS
<1>8. ASSUME NEW i \in 1..Len(s)
      PROVE  (u \o w)[i] = IF i = Len(s) THEN t ELSE s[i + 1]
  <2>1. Len(u) = Len(s) - 1 /\ i \in 1..(Len(u) + Len(w))
    BY <1>1, <1>3, <1>5
  <2>2. (u \o w)[i] = IF i <= Len(u) THEN u[i] ELSE w[i - Len(u)]
    BY <1>7, <2>1
  <2>3. CASE i = Len(s)
    <3>1. ~(i <= Len(u)) /\ i - Len(u) = 1
      BY <1>1, <2>1, <2>3
    <3> QED  BY <1>5, <2>2, <2>3, <3>1
  <2>4. CASE i # Len(s)
    <3>0. Len(s) \in Nat /\ Len(s) - 1 \in Nat
      BY <1>1
    <3>1. i \in 1..(Len(s) - 1)
      BY <2>4, <3>0, Below
    <3>3. i <= Len(u)
      BY <2>1, <3>0, <3>1
    <3>2. u[i] = s[i + 1]
      BY <1>2, <1>3, <3>1
    <3> QED  BY <2>2, <2>4, <3>2, <3>3
  <2> QED  BY <2>3, <2>4, Zenon
<1>9. u \o w \in Seq(S) /\ Len(u \o w) = Len(s)
  BY <1>1, <1>3, <1>5, <1>6
<1> QED  BY <1>1, <1>3, <1>4, <1>8, <1>9, Zenon

\* It has run and posted another.
LEMMA DonePosted ==
  ASSUME QueueOK, tasks # <<>>, NEW t, t.op \in {"send", "timer"} => t.msgId \in Msg,
         tasks' = Tail(tasks) \o <<t>>
  PROVE  QueueOK'
<1>1. PICK S : tasks \in Seq(S)
  BY DEF QueueOK
<1>2. tasks \in Seq(S \cup {t})
  BY <1>1
<1>3. /\ tasks' \in Seq(S \cup {t}) /\ Len(tasks') = Len(tasks) /\ Len(tasks) \in Nat \ {0}
      /\ \A i \in 1..Len(tasks) : tasks'[i] = IF i = Len(tasks) THEN t ELSE tasks[i + 1]
  BY <1>2, TailAppend
<1>4. ASSUME NEW i \in 1..Len(tasks'), tasks'[i].op \in {"send", "timer"}
      PROVE  tasks'[i].msgId \in Msg
  <2>1. CASE i = Len(tasks)
    BY <1>3, <1>4, <2>1, Zenon
  <2>2. CASE i # Len(tasks)
    <3>1. i \in 1..Len(tasks) /\ i + 1 \in 1..Len(tasks) /\ tasks'[i] = tasks[i + 1]
      BY <1>3, <2>2, Below, Zenon
    <3> QED  BY <1>4, <3>1 DEF QueueOK
  <2> QED  BY <2>1, <2>2
<1> QED  BY <1>3, <1>4, Zenon DEF QueueOK

\* A fragment that arrives is added to what is held of its message.
LEMMA AddKeepsHolds ==
  ASSUME FragmentSizeAssumption, TransferAssumption, NEW m \in Msg, NEW i \in Fragments(m),
         NEW s \in InboundMessageState, Holds(s, m)
  PROVE  LET u == AddFragment(s, DecodeFragNum(FragInfo(Size[m], i)),
                                 DecodeIsLast(FragInfo(Size[m], i)))
         IN  u \in InboundMessageState /\ Holds(u, m)
<1> DEFINE last == DecodeIsLast(FragInfo(Size[m], i))
           u == AddFragment(s, i, last)
<1>1. /\ DecodeFragNum(FragInfo(Size[m], i)) = i
      /\ last => i = FragmentCount(Size[m]) - 1
  BY FragmentHeaders
<1>2. i \in Nat /\ last \in BOOLEAN
  BY FragmentNumbers DEF DecodeIsLast
<1>3. SUFFICES u \in InboundMessageState /\ Holds(u, m)
  BY <1>1
<1> HIDE DEF last
<1>4. s.got \in SUBSET Nat /\ s.gotLast \in BOOLEAN /\ s.lastFragment \in Nat
  BY DEF InboundMessageState
<1>5. CASE u = [s EXCEPT !.live = TRUE]
  <2>1. u \in InboundMessageState /\ u.got = s.got /\ u.gotLast = s.gotLast
    BY <1>5, Zenon DEF InboundMessageState
  <2> HIDE DEF u
  <2> QED  BY <2>1 DEF Holds
<1>6. CASE u = [s EXCEPT !.live = TRUE, !.got = @ \cup {i}, !.gotLast = @ \/ last,
                         !.lastFragment = IF last THEN i ELSE @]
  <2> HIDE DEF u
  <2>1. PICK g \in SUBSET Nat : g = s.got \cup {i}
    BY <1>2, <1>4, Zenon
  <2>2. PICK f \in BOOLEAN : f = (s.gotLast \/ last)
    BY Zenon
  <2>3. PICK n \in Nat : n = IF last THEN i ELSE s.lastFragment
    BY <1>2, <1>4
  <2>4. u = [s EXCEPT !.live = TRUE, !.got = g, !.gotLast = f, !.lastFragment = n]
    BY <1>6, <2>1, <2>2, <2>3
  <2>5. u \in InboundMessageState /\ u.got = g /\ u.gotLast = f
    BY <2>4, Zenon DEF InboundMessageState
  <2>6. g \subseteq Fragments(m) /\ (f => FragmentCount(Size[m]) - 1 \in g)
    BY <1>1, <1>4, <2>1, <2>2 DEF Holds
  <2> QED  BY <2>5, <2>6 DEF Holds
<1> QED  BY <1>5, <1>6 DEF AddFragment

\* A message that counts as received has all its fragments.
LEMMA CompleteIsWhole ==
  ASSUME FragmentSizeAssumption, TransferAssumption, NEW m \in Msg,
         NEW s, Holds(s, m), AllFragmentsReceived(s)
  PROVE  s.got = Fragments(m)
<1>1. PICK c \in Nat : c = FragmentCount(Size[m]) - 1 /\ Fragments(m) = 0..c
  BY FragmentNumbers
<1>2. c \in s.got /\ s.got \subseteq 0..c
  BY <1>1 DEF Holds, AllFragmentsReceived
<1> DEFINE x == CHOOSE i \in s.got : \A j \in s.got : j <= i
<1>3. VectorSize(s) = 1 + x
  BY DEF VectorSize
<1>4. x \in s.got /\ \A j \in s.got : j <= x
  <2>1. \E i \in s.got : \A j \in s.got : j <= i
    BY <1>2
  <2> QED  BY <2>1
<1> HIDE DEF x
<1>5. x = c
  BY <1>2, <1>4
<1>6. VectorSize(s) - 1 = c
  BY <1>3, <1>5
<1>7. 0..c \subseteq s.got
  BY <1>6 DEF AllFragmentsReceived
<1> QED  BY <1>1, <1>2, <1>7, Zenon

\* The receiver's side of the step.
LEMMA ReceiveKeeps ==
  ASSUME FragmentSizeAssumption, TransferAssumption, WholeInv, NEW p \in net, ReceiveFragment(p)
  PROVE  WholeInv'
<1>0. PICK m \in Msg : \E i \in Fragments(m) : p = FragmentPacket(m, i)
  BY DEF WholeInv, NetOK
<1>1. PICK i : i \in Fragments(m) /\ p = FragmentPacket(m, i)
  BY <1>0
<1>2. p.msgId = m /\ p.info = FragInfo(Size[m], i)
  BY <1>1 DEF FragmentPacket
<1>3. PICK s : s = AddFragment(ims[m], DecodeFragNum(FragInfo(Size[m], i)),
                               DecodeIsLast(FragInfo(Size[m], i)))
  OBVIOUS
<1>4. s \in InboundMessageState /\ Holds(s, m)
  BY <1>1, <1>3, AddKeepsHolds DEF WholeInv, ReceiverOK
<1>5. /\ ims' = [ims EXCEPT ![m] = s]
      /\ delivered' = [delivered EXCEPT ![m] =
                          IF AllFragmentsReceived(s) THEN @ \cup {s.got} ELSE @]
      /\ UNCHANGED <<sender, net>>
  BY <1>2, <1>3 DEF ReceiveFragment
<1>6. AllFragmentsReceived(s) => s.got = Fragments(m)
  BY <1>4, CompleteIsWhole
<1>7. /\ ims \in [Msg -> InboundMessageState]
      /\ delivered \in [Msg -> SUBSET (SUBSET Nat)]
      /\ s.got \in SUBSET Nat
  BY <1>4 DEF WholeInv, ReceiverOK, InboundMessageState
<1>8. ReceiverOK'
  BY <1>4, <1>5, <1>7 DEF WholeInv, ReceiverOK, Holds
<1>9. DeliveredWhole'
  BY <1>5, <1>6, <1>7, Zenon DEF WholeInv, DeliveredWhole
<1>10. QueueOK' /\ SenderOK' /\ NetOK'
  BY <1>5 DEF WholeInv, sender, QueueOK, SenderOK, NetOK
<1> QED  BY <1>8, <1>9, <1>10 DEF WholeInv

\* Nothing of a message is held when its state is new.
LEMMA EmptyHolds ==
  ASSUME NEW m
  PROVE  /\ NoInbound \in InboundMessageState /\ Holds(NoInbound, m)
         /\ NoOutbound \in OutboundMessageState /\ NoOutbound.frags = {}
         /\ NewOutbound \in OutboundMessageState /\ NewOutbound.frags = {}
  BY Zenon DEF NoInbound, InboundMessageState, Holds, NoOutbound, NewOutbound, OutboundMessageState

\* The receiver's timers and the flush.
LEMMA ReceiverKeeps ==
  ASSUME WholeInv,
         \/ \E m \in Msg : InboundTimerExpires(m) \/ InboundTimerCallback(m)
         \/ FlushAck \/ Disconnect \/ \E a \in acks : LoseAck(a)
  PROVE  WholeInv'
<1>1. UNCHANGED <<sender, net, delivered>>
  BY Zenon DEF InboundTimerExpires, InboundTimerCallback, FlushAck, Disconnect, LoseAck, receiver
<1>2. QueueOK' /\ SenderOK' /\ NetOK' /\ DeliveredWhole'
  BY <1>1 DEF WholeInv, sender, QueueOK, SenderOK, NetOK, DeliveredWhole
<1>3. ims \in [Msg -> InboundMessageState] /\ \A m \in Msg : Holds(ims[m], m)
  BY DEF WholeInv, ReceiverOK
<1>4. \/ ims' = ims
      \/ \E m \in Msg : ims' = [ims EXCEPT ![m] = NoInbound]
      \/ \E S : ims' = [m \in Msg |-> IF m \in S THEN NoInbound ELSE ims[m]]
  BY Zenon DEF InboundTimerExpires, InboundTimerCallback, FlushAck, Disconnect, LoseAck, receiver
<1>5. ims' \in [Msg -> InboundMessageState] /\ \A m \in Msg : ims'[m] \in {ims[m], NoInbound}
  BY <1>3, <1>4, EmptyHolds
<1>6. ASSUME NEW m \in Msg PROVE Holds(ims'[m], m)
  BY <1>3, <1>5, EmptyHolds
<1>7. ReceiverOK'
  BY <1>1, <1>5, <1>6 DEF WholeInv, ReceiverOK, Holds
<1> QED  BY <1>2, <1>7 DEF WholeInv

\* The states of the sender's messages change, and fragments of them go out.
LEMMA SenderKeeps ==
  ASSUME WholeInv, UNCHANGED receiver, QueueOK',
         oms' \in [Msg -> OutboundMessageState],
         \A m \in Msg : oms'[m].frags \in {{}, Fragments(m)},
         sendingMsg' \in Msg \cup {NoMsg},
         \A p \in net' : p \in net \/ \E m \in Msg : \E i \in Fragments(m) : p = FragmentPacket(m, i)
  PROVE  WholeInv'
<1>1. SenderOK' /\ NetOK'
  BY DEF WholeInv, SenderOK, NetOK
<1>2. ReceiverOK' /\ DeliveredWhole'
  BY DEF WholeInv, receiver, ReceiverOK, DeliveredWhole, Holds
<1> QED  BY <1>1, <1>2 DEF WholeInv

\* sendData and what is queued.
LEMMA PostingKeeps ==
  ASSUME WholeInv,
         \/ \E m \in Msg : SendDataBegin(m) \/ TimerExpires(m)
         \/ SendDataEnd \/ \E a \in acks : AckArrives(a)
  PROVE  WholeInv'
<1>1. /\ oms \in [Msg -> OutboundMessageState] /\ QueueOK
      /\ \A m \in Msg : oms[m].frags \in {{}, Fragments(m)}
      /\ sendingMsg \in Msg \cup {NoMsg}
  BY DEF WholeInv, SenderOK
<1>2. ASSUME NEW m \in Msg, SendDataBegin(m) PROVE WholeInv'
  <2>1. UNCHANGED <<oms, tasks, net, receiver>> /\ sendingMsg' = m
    BY <1>2 DEF SendDataBegin
  <2>2. QueueOK'
    BY <1>1, <2>1 DEF QueueOK
  <2> QED  BY <1>1, <2>1, <2>2, SenderKeeps
<1>3. ASSUME NEW m \in Msg, TimerExpires(m) PROVE WholeInv'
  <2>1. UNCHANGED <<oms, sendingMsg, net, receiver>> /\ tasks' = Append(tasks, Task("timer", m))
    BY <1>3, Zenon DEF TimerExpires
  <2>2. QueueOK'
    BY <1>1, <2>1, Posted, Zenon DEF Task
  <2> QED  BY <1>1, <2>1, <2>2, SenderKeeps
<1>4. ASSUME NEW a, AckArrives(a) PROVE WholeInv'
  <2>1. UNCHANGED <<oms, sendingMsg, net, receiver>> /\ tasks' = Append(tasks, AckTask(a))
    BY <1>4, Zenon DEF AckArrives
  <2>2. QueueOK'
    BY <1>1, <2>1, Posted, Zenon DEF AckTask
  <2> QED  BY <1>1, <2>1, <2>2, SenderKeeps
<1>5. CASE SendDataEnd
  <2>1. PICK m \in Msg : sendingMsg = m
    BY <1>1, <1>5 DEF SendDataEnd
  <2>2. /\ UNCHANGED <<net, receiver>> /\ sendingMsg' = NoMsg
        /\ oms' = [oms EXCEPT ![m] = NewOutbound]
        /\ tasks' = Append(tasks, Task("send", m))
    BY <1>5, <2>1, Zenon DEF SendDataEnd
  <2>3. QueueOK'
    BY <1>1, <2>2, Posted, Zenon DEF Task
  <2>4. /\ oms' \in [Msg -> OutboundMessageState]
        /\ \A j \in Msg : oms'[j].frags \in {{}, Fragments(j)}
    BY <1>1, <2>2, EmptyHolds, Zenon
  <2> QED  BY <2>2, <2>3, <2>4, SenderKeeps
<1> QED  BY <1>2, <1>3, <1>4, <1>5

\* sendDataCallback sends a fragment of its message.
LEMMA SendKeeps ==
  ASSUME FragmentSizeAssumption, TransferAssumption, WholeInv, Send
  PROVE  WholeInv'
<1>1. /\ oms \in [Msg -> OutboundMessageState] /\ QueueOK
      /\ \A j \in Msg : oms[j].frags \in {{}, Fragments(j)}
      /\ sendingMsg' \in Msg \cup {NoMsg} /\ UNCHANGED receiver
      /\ tasks # <<>> /\ Head(tasks).op = "send"
  BY Zenon DEF WholeInv, SenderOK, Send, Running
<1>2. PICK S : tasks \in Seq(S)
  BY <1>1 DEF QueueOK
<1>3. PICK m \in Msg : Head(tasks).msgId = m
  <2>1. Head(tasks) = tasks[1] /\ 1 \in 1..Len(tasks)
    BY <1>1, <1>2
  <2> QED  BY <1>1, <2>1 DEF QueueOK
<1>4. SendDataCallback(m)
  BY <1>3 DEF Send
<1>5. PICK s : s = Fragment(m, oms[m])
  OBVIOUS
<1>6. s \in OutboundMessageState /\ s.frags = Fragments(m)
  <2>1. CASE oms[m].frags = {}
    <3>1. s = [oms[m] EXCEPT !.frags = Fragments(m)]
      BY <1>5, <2>1 DEF Fragment
    <3>2. Fragments(m) \in SUBSET Nat
      BY FragmentNumbers
    <3> QED  BY <1>1, <3>1, <3>2, ZenonT(40) DEF OutboundMessageState
  <2>2. CASE oms[m].frags # {}
    <3>1. s = oms[m] /\ oms[m].frags = Fragments(m)
      BY <1>1, <1>5, <2>2 DEF Fragment
    <3> QED  BY <1>1, <3>1, Zenon
  <2> QED  BY <2>1, <2>2
<1>7. CASE /\ tasks' = Tail(tasks) /\ UNCHANGED <<oms, net>>
  <2>1. QueueOK'
    BY <1>1, <1>7, Done, Zenon
  <2> QED  BY <1>1, <1>7, <2>1, SenderKeeps
<1>8. CASE /\ Unsent(s) # {}
           /\ oms' = [oms EXCEPT ![m] = [s EXCEPT !.sent = @ \cup {First(Unsent(s))}]]
           /\ net' = net \cup {FragmentPacket(m, First(Unsent(s)))}
           /\ \/ tasks' = Tail(tasks) \o <<>>
              \/ tasks' = Tail(tasks) \o <<Task("send", m)>>
  <2>1. PICK i : i = First(Unsent(s))
    OBVIOUS
  <2>2. i \in Fragments(m) /\ i \in Nat
    <3>1. Unsent(s) \in SUBSET Fragments(m) /\ Unsent(s) \in SUBSET Nat
      BY <1>6, FragmentNumbers DEF Unsent
    <3>2. i \in Unsent(s)
      BY <1>8, <2>1, <3>1, Least
    <3> QED  BY <3>1, <3>2, Zenon
  <2>3. PICK sent \in SUBSET Nat : sent = s.sent \cup {i}
    BY <1>6, <2>2, Zenon DEF OutboundMessageState
  <2>4. PICK u : u = [s EXCEPT !.sent = sent]
    BY Zenon
  <2>5. u \in OutboundMessageState /\ u.frags = Fragments(m)
    BY <1>6, <2>4 DEF OutboundMessageState
  <2>6. oms' = [oms EXCEPT ![m] = u] /\ net' = net \cup {FragmentPacket(m, i)}
    BY <1>8, <2>1, <2>3, <2>4, Zenon
  <2>7. /\ oms' \in [Msg -> OutboundMessageState]
        /\ \A j \in Msg : oms'[j].frags \in {{}, Fragments(j)}
    BY <1>1, <2>5, <2>6
  <2>8. QueueOK'
    <3>1. CASE tasks' = Tail(tasks) \o <<>>
      <4>1. Tail(tasks) \in Seq(S)
        BY <1>1, <1>2
      <4>2. tasks' = Tail(tasks)
        BY <3>1, <4>1
      <4> QED  BY <1>1, <4>2, Done, Zenon
    <3>2. CASE tasks' = Tail(tasks) \o <<Task("send", m)>>
      <4>1. Task("send", m).msgId \in Msg
        BY DEF Task
      <4> QED  BY <1>1, <3>2, <4>1, DonePosted
    <3> QED  BY <1>8, <3>1, <3>2
  <2> QED  BY <1>1, <2>2, <2>6, <2>7, <2>8, SenderKeeps
<1> QED  BY <1>4, <1>5, <1>7, <1>8, Zenon DEF SendDataCallback

\* timerCallback sends one again, or gives the message up.
LEMMA TimerKeeps ==
  ASSUME FragmentSizeAssumption, TransferAssumption, WholeInv, Timer
  PROVE  WholeInv'
<1>1. /\ oms \in [Msg -> OutboundMessageState] /\ QueueOK
      /\ \A j \in Msg : oms[j].frags \in {{}, Fragments(j)}
      /\ sendingMsg' \in Msg \cup {NoMsg} /\ UNCHANGED receiver
      /\ tasks # <<>> /\ Head(tasks).op = "timer" /\ tasks' = Tail(tasks)
  BY Zenon DEF WholeInv, SenderOK, Timer, Running
<1>2. QueueOK' /\ Head(tasks).msgId \in Msg
  BY <1>1, Done
<1>3. PICK m \in Msg : TimerCallback(m)
  BY <1>2, Zenon DEF Timer
<1>4. CASE UNCHANGED <<oms, net>>
  BY <1>1, <1>2, <1>4, SenderKeeps, Zenon
<1>5. CASE oms' = [oms EXCEPT ![m] = NoOutbound] /\ UNCHANGED net
  <2>1. /\ oms' \in [Msg -> OutboundMessageState]
        /\ \A j \in Msg : oms'[j].frags \in {{}, Fragments(j)}
    BY <1>1, <1>5, EmptyHolds, Zenon
  <2> QED  BY <1>1, <1>2, <1>5, <2>1, SenderKeeps
<1>6. ASSUME Unackd(oms[m]) # {}, NEW i, i = First(Unackd(oms[m])),
             oms' = [oms EXCEPT ![m].sent = @ \cup {i}, ![m].tries = @ + 1],
             net' = net \cup {FragmentPacket(m, i)}
      PROVE  WholeInv'
  <2>1. oms[m] \in OutboundMessageState /\ oms[m].frags \in {{}, Fragments(m)}
    BY <1>1
  <2>2. i \in Fragments(m) /\ i \in Nat
    <3>1. Unackd(oms[m]) \in SUBSET Fragments(m) /\ Unackd(oms[m]) \in SUBSET Nat
      BY <2>1, FragmentNumbers DEF Unackd
    <3>2. i \in Unackd(oms[m])
      BY <1>6, <3>1, Least
    <3> QED  BY <3>1, <3>2
  <2>3. PICK sent \in SUBSET Nat : sent = oms[m].sent \cup {i}
    BY <2>1, <2>2, Zenon DEF OutboundMessageState
  <2>4. PICK tries \in Nat : tries = oms[m].tries + 1
    BY <2>1 DEF OutboundMessageState
  <2>5. PICK u : u = [oms[m] EXCEPT !.sent = sent, !.tries = tries]
    OBVIOUS
  <2>6. u \in OutboundMessageState /\ u.frags = oms[m].frags
    BY <2>1, <2>5, Zenon DEF OutboundMessageState
  <2>7. oms' = [oms EXCEPT ![m] = u]
    BY <1>1, <1>6, <2>1, <2>3, <2>4, <2>5, Zenon DEF OutboundMessageState
  <2>8. /\ oms' \in [Msg -> OutboundMessageState]
        /\ \A j \in Msg : oms'[j].frags \in {{}, Fragments(j)}
    BY <1>1, <2>6, <2>7
  <2> QED  BY <1>1, <1>2, <1>6, <2>2, <2>8, SenderKeeps
<1> QED  BY <1>3, <1>4, <1>5, <1>6, Zenon DEF TimerCallback

\* An acknowledgement marks fragments or removes messages.
LEMMA AckKeeps ==
  ASSUME WholeInv, HandleAck
  PROVE  WholeInv'
<1>1. /\ oms \in [Msg -> OutboundMessageState] /\ QueueOK
      /\ \A j \in Msg : oms[j].frags \in {{}, Fragments(j)}
      /\ sendingMsg' \in Msg \cup {NoMsg} /\ UNCHANGED <<net, receiver>>
      /\ tasks # <<>> /\ tasks' = Tail(tasks)
  BY DEF WholeInv, SenderOK, HandleAck, Running
<1>2. QueueOK'
  BY <1>1, Done, Zenon
<1>3. PICK a, gone :
        oms' = [m \in Msg |-> IF m \in gone THEN NoOutbound
                              ELSE IF oms[m].live /\ m \in DOMAIN a.partial
                              THEN Marked(oms[m], a.partial[m]) ELSE oms[m]]
  BY Zenon DEF HandleAck
<1>4. ASSUME NEW m \in Msg, NEW bytes
      PROVE  /\ Marked(oms[m], bytes) \in OutboundMessageState
             /\ Marked(oms[m], bytes).frags = oms[m].frags
  <2>1. oms[m] \in OutboundMessageState
    BY <1>1
  <2>2. PICK ackd \in SUBSET Nat : ackd = oms[m].ackd \cup (DecodeAck(bytes) \cap oms[m].frags)
    BY <2>1, Zenon DEF OutboundMessageState
  <2>3. Marked(oms[m], bytes) = [oms[m] EXCEPT !.ackd = ackd]
    BY <2>2, Zenon DEF Marked
  <2> QED  BY <2>1, <2>3, Zenon DEF OutboundMessageState
<1>5. /\ oms' \in [Msg -> OutboundMessageState]
      /\ \A j \in Msg : oms'[j].frags \in {{}, Fragments(j)}
  BY <1>1, <1>3, <1>4, EmptyHolds
<1> QED  BY <1>1, <1>2, <1>5, SenderKeeps, Zenon

-----------------------------------------------------------------------------
(* The theorem                                                               *)

LEMMA InitWhole ==
  ASSUME Init
  PROVE  WholeInv
<1>1. QueueOK
  <2>1. tasks = <<>> /\ tasks \in Seq({}) /\ Len(tasks) = 0
    BY DEF Init
  <2> QED  BY <2>1 DEF QueueOK
<1>2. SenderOK
  BY EmptyHolds DEF Init, SenderOK
<1>3. NetOK /\ DeliveredWhole
  BY DEF Init, NetOK, DeliveredWhole
<1>4. ReceiverOK
  BY EmptyHolds DEF Init, ReceiverOK
<1> QED  BY <1>1, <1>2, <1>3, <1>4 DEF WholeInv

LEMMA NextWhole ==
  ASSUME FragmentSizeAssumption, TransferAssumption, WholeInv, [Next]_vars
  PROVE  WholeInv'
<1>1. CASE \E m \in Msg : SendDataBegin(m) \/ TimerExpires(m)
  BY <1>1, PostingKeeps
<1>2. CASE SendDataEnd \/ \E a \in acks : AckArrives(a)
  BY <1>2, PostingKeeps
<1>3. CASE SenderThread
  BY <1>3, SendKeeps, TimerKeeps, AckKeeps DEF SenderThread
<1>4. CASE \E p \in net : ReceiveFragment(p)
  BY <1>4, ReceiveKeeps
<1>5. CASE \E m \in Msg : InboundTimerExpires(m) \/ InboundTimerCallback(m)
  BY <1>5, ReceiverKeeps
<1>6. CASE FlushAck \/ Disconnect \/ \E a \in acks : LoseAck(a)
  BY <1>6, ReceiverKeeps, Zenon
<1>7. CASE UNCHANGED vars
  BY <1>7 DEF vars, sender, receiver, WholeInv, QueueOK, SenderOK, NetOK, ReceiverOK,
              DeliveredWhole, Holds
<1> QED  BY <1>1, <1>2, <1>3, <1>4, <1>5, <1>6, <1>7 DEF Next

\* Whatever is lost, repeated, reordered or expired on the way, for any messages
\* and sizes, InboundMessageFragments hands the router whole messages only.
THEOREM WholeMessages == Spec => []DeliveredWhole
<1>1. Init => WholeInv
  BY InitWhole
<1>2. WholeInv /\ [Next]_vars => WholeInv'
  BY FragmentSizeAssumption, TransferAssumption, NextWhole
<1>3. WholeInv => DeliveredWhole
  BY DEF WholeInv
<1> QED  BY <1>1, <1>2, <1>3, PTL DEF Spec

-----------------------------------------------------------------------------
(* The bitfield of a partial acknowledgement                                 *)

\* A bit the decoder finds set is one of the vector.
LEMMA BitIsReceived ==
  ASSUME NEW v, NEW b \in Nat, NEW more, NEW j \in 0..6, Bit(AckByte(v, b, more), 6 - j)
  PROVE  Received(v, 7 * b + j) = 1
<1> DEFINE r(i) == Received(v, 7 * b + i)
<1>1. \A i \in 0..6 : r(i) \in {0, 1}
  BY DEF Received
<1>2. PICK h \in {0, 128} : h = IF more THEN 128 ELSE 0
  OBVIOUS
<1>3. PICK byte : byte = AckByte(v, b, more)
  OBVIOUS
<1>4. Received(v, 7 * b) = r(0)
  <2>1. 7 * b + 0 = 7 * b
    OBVIOUS
  <2> QED  BY <2>1
<1>5. byte = h + 64 * r(0) + 32 * r(1) + 16 * r(2) + 8 * r(3) + 4 * r(4) + 2 * r(5) + r(6)
  BY <1>2, <1>3, <1>4, Zenon DEF AckByte
<1> HIDE DEF r
<1>6. /\ (byte \div 64) % 2 = r(0) /\ (byte \div 32) % 2 = r(1)
      /\ (byte \div 16) % 2 = r(2) /\ (byte \div 8) % 2 = r(3)
      /\ (byte \div 4) % 2 = r(4) /\ (byte \div 2) % 2 = r(5) /\ (byte \div 1) % 2 = r(6)
  <2>1. /\ r(0) \in {0, 1} /\ r(1) \in {0, 1} /\ r(2) \in {0, 1} /\ r(3) \in {0, 1}
        /\ r(4) \in {0, 1} /\ r(5) \in {0, 1} /\ r(6) \in {0, 1}
    BY <1>1
  <2>b0. PICK b0 \in {0, 1} : b0 = r(0)
    BY <2>1
  <2>b1. PICK b1 \in {0, 1} : b1 = r(1)
    BY <2>1
  <2>b2. PICK b2 \in {0, 1} : b2 = r(2)
    BY <2>1
  <2>b3. PICK b3 \in {0, 1} : b3 = r(3)
    BY <2>1
  <2>b4. PICK b4 \in {0, 1} : b4 = r(4)
    BY <2>1
  <2>b5. PICK b5 \in {0, 1} : b5 = r(5)
    BY <2>1
  <2>b6. PICK b6 \in {0, 1} : b6 = r(6)
    BY <2>1
  <2>3. byte = h + 64 * b0 + 32 * b1 + 16 * b2 + 8 * b3 + 4 * b4 + 2 * b5 + b6
    BY <1>5, <2>b0, <2>b1, <2>b2, <2>b3, <2>b4, <2>b5, <2>b6
  <2>2. /\ h \in {0, 128} /\ b0 \in {0, 1} /\ b1 \in {0, 1} /\ b2 \in {0, 1} /\ b3 \in {0, 1}
        /\ b4 \in {0, 1} /\ b5 \in {0, 1} /\ b6 \in {0, 1}
    BY <1>2, <2>b0, <2>b1, <2>b2, <2>b3, <2>b4, <2>b5, <2>b6, Zenon
  <2>4. /\ (byte \div 64) % 2 = b0 /\ (byte \div 32) % 2 = b1
        /\ (byte \div 16) % 2 = b2 /\ (byte \div 8) % 2 = b3
        /\ (byte \div 4) % 2 = b4 /\ (byte \div 2) % 2 = b5 /\ (byte \div 1) % 2 = b6
    BY <2>2, <2>3
  <2> QED  BY <2>b0, <2>b1, <2>b2, <2>b3, <2>b4, <2>b5, <2>b6, <2>4
<1>7. /\ 2^6 = 64 /\ 2^5 = 32 /\ 2^4 = 16 /\ 2^3 = 8 /\ 2^2 = 4 /\ 2^1 = 2 /\ 2^0 = 1
  OBVIOUS
<1>8. (byte \div 2^(6 - j)) % 2 = r(j)
  <2>1. CASE j = 0
    <3>1. 6 - j = 6
      BY <2>1
    <3> QED  BY <1>6, <1>7, <2>1, <3>1, Zenon
  <2>2. CASE j = 1
    <3>1. 6 - j = 5
      BY <2>2
    <3> QED  BY <1>6, <1>7, <2>2, <3>1, Zenon
  <2>3. CASE j = 2
    <3>1. 6 - j = 4
      BY <2>3
    <3> QED  BY <1>6, <1>7, <2>3, <3>1, Zenon
  <2>4. CASE j = 3
    <3>1. 6 - j = 3
      BY <2>4
    <3> QED  BY <1>6, <1>7, <2>4, <3>1, Zenon
  <2>5. CASE j = 4
    <3>1. 6 - j = 2
      BY <2>5
    <3> QED  BY <1>6, <1>7, <2>5, <3>1, Zenon
  <2>6. CASE j = 5
    <3>1. 6 - j = 1
      BY <2>6
    <3> QED  BY <1>6, <1>7, <2>6, <3>1, Zenon
  <2>7. CASE j = 6
    <3>1. 6 - j = 0
      BY <2>7
    <3> QED  BY <1>6, <1>7, <2>7, <3>1, Zenon
  <2> QED  BY <2>1, <2>2, <2>3, <2>4, <2>5, <2>6, <2>7
<1>9. r(j) = 1
  BY <1>3, <1>8, Zenon DEF Bit
<1> QED  BY <1>9 DEF r

\* The vector ends with a fragment that was received.
LEMMA VectorEnds ==
  ASSUME FragmentSizeAssumption, TransferAssumption, NEW m \in Msg,
         NEW s, s.got \subseteq Fragments(m), s.got # {}
  PROVE  /\ VectorSize(s) \in Nat \ {0} /\ VectorSize(s) - 1 \in s.got
         /\ \A j \in s.got : j <= VectorSize(s) - 1
<1>1. PICK c \in Nat : Fragments(m) = 0..c
  BY FragmentNumbers
<1> DEFINE x == CHOOSE i \in s.got : \A j \in s.got : j <= i
<1>2. \E i \in s.got : \A j \in s.got : j <= i
  <2>0. \A i \in s.got : i \in 0..c /\ c - i \in Nat
    BY <1>1
  <2>1. PICK T : T = {c - i : i \in s.got}
    BY Zenon
  <2>2. First(T) \in T /\ \A t \in T : First(T) <= t
    <3>1. T \in SUBSET Nat /\ T # {}
      BY <2>0, <2>1
    <3> QED  BY <3>1, Least
  <2>3. PICK i \in s.got : First(T) = c - i
    BY <2>1, <2>2, Zenon
  <2>4. ASSUME NEW j \in s.got PROVE j <= i
    <3>1. c - j \in T
      BY <2>1
    <3>2. c - i <= c - j
      BY <2>2, <2>3, <3>1
    <3> QED  BY <1>1, <3>2
  <2> QED  BY <2>4
<1>3. x \in s.got /\ \A j \in s.got : j <= x
  BY <1>2
<1>4. VectorSize(s) = 1 + x
  BY DEF VectorSize
<1> HIDE DEF x
<1>5. x \in Nat
  BY <1>1, <1>3
<1> QED  BY <1>3, <1>4, <1>5

\* What the sender reads from a partial acknowledgement are fragments that the
\* receiver holds.
LEMMA DecodedWasReceived ==
  ASSUME FragmentSizeAssumption, TransferAssumption, NEW m \in Msg,
         NEW s, s.got \subseteq Fragments(m), s.got # {}
  PROVE  DecodeAck(EncodeAck(FragmentsReceived(s))) \subseteq s.got
<1>1. PICK n \in Nat : n = VectorSize(s)
  BY VectorEnds
<1>2. PICK v : v = FragmentsReceived(s)
  OBVIOUS
<1>3. v = [i \in 1..n |-> i - 1 \in s.got]
  BY <1>1, <1>2 DEF FragmentsReceived
<1>4. v \in Seq(BOOLEAN) /\ Len(v) = n
  BY <1>3
<1>5. PICK steps \in Nat : steps = (Len(v) + 6) \div 7
  BY <1>4
<1>6. PICK bytes : bytes = [b \in 1..steps |-> AckByte(v, b - 1, b < steps)]
  BY Zenon
<1>7. bytes = EncodeAck(v)
  BY <1>5, <1>6, Zenon DEF EncodeAck
<1>8. Len(bytes) = steps
  BY <1>6
<1>9. ASSUME NEW k \in DecodeAck(bytes) PROVE k \in s.got
  <2>1. PICK x \in (1..Len(bytes)) \X (0..6) :
          k = 7 * (x[1] - 1) + x[2] /\ Bit(bytes[x[1]], 6 - x[2])
    BY Zenon DEF DecodeAck
  <2>2. PICK b \in 1..steps : b = x[1]
    BY <1>8, <2>1
  <2>2a. PICK j \in 0..6 : j = x[2]
    BY <2>1
  <2>3. PICK c \in Nat : c = b - 1
    BY <2>2
  <2>4. Bit(AckByte(v, c, b < steps), 6 - j)
    BY <1>6, <2>1, <2>2, <2>2a, <2>3
  <2>5. Received(v, 7 * c + j) = 1
    BY <2>2a, <2>3, <2>4, BitIsReceived, Zenon
  <2>6. k = 7 * c + j /\ k \in Nat
    <3>1. k = 7 * (b - 1) + j
      BY <2>1, <2>2, <2>2a
    <3>2. k = 7 * c + j
      BY <2>3, <3>1, Zenon
    <3>3. 7 * c + j \in Nat
      BY <2>2a, <2>3
    <3> QED  BY <3>2, <3>3, Zenon
  <2>7. k < Len(v) /\ v[k + 1]
    BY <2>5, <2>6 DEF Received
  <2>8. k + 1 \in 1..n
    BY <1>4, <2>6, <2>7
  <2>9. v[k + 1] = (k \in s.got)
    <3>1. PICK i \in 1..n : i = k + 1
      BY <2>8
    <3>2. v[i] = (i - 1 \in s.got)
      BY <1>3, Zenon
    <3>3. i - 1 = k
      BY <2>6, <3>1
    <3> QED  BY <3>1, <3>2, <3>3
  <2> QED  BY <2>7, <2>9, Zenon
<1> QED  BY <1>2, <1>7, <1>9, Zenon

-----------------------------------------------------------------------------
(* What is acknowledged, and what is sent next                               *)

\* The fragments of a message that ever went out.
Seen(m) == {i \in Fragments(m) : FragmentPacket(m, i) \in net}

\* The fragments an acknowledgement names.
Decoded(a, m) == IF m \in DOMAIN a.partial THEN DecodeAck(a.partial[m]) ELSE {}

\* The acknowledgements under way and in the queue.
Heard == acks \cup {tasks[i].ack : i \in {j \in 1..Len(tasks) : tasks[j].op = "ack"}}

\* The receiver has neither handed the message over nor dropped it.
Pending(m) == delivered[m] = {} /\ m \notin expired

\* An acknowledgement names fragments that went out and, of a message that is
\* still pending, only such as the receiver still holds.
AckOK(a) ==
  \A m \in Msg :
    /\ Decoded(a, m) \subseteq Seen(m)
    /\ m \in DOMAIN a.partial => Seen(m) # {}
    /\ m \in a.complete => delivered[m] # {}
    /\ Pending(m) => Decoded(a, m) \subseteq ims[m].got

HeardOK == \A a \in Heard : AckOK(a)

\* What the receiver holds went out; a complete message was handed over; a
\* flagged last fragment is remembered.
Receives(m) ==
  /\ ims[m].live <=> ims[m].got # {}
  /\ ims[m].got \subseteq Seen(m)
  /\ AllFragmentsReceived(ims[m]) => delivered[m] # {}
  /\ Size[m] % MaxFragmentSize # 0 /\ FragmentCount(Size[m]) - 1 \in ims[m].got
       => ims[m].gotLast

GotOK == \A m \in Msg : Receives(m)

\* The sender knows what went out, and takes nothing for acknowledged that did
\* not; before sendData is through with a message nothing of it has gone out.
Sends(m) ==
  /\ oms[m].live =>
       /\ oms[m].sent = Seen(m) /\ oms[m].sent \subseteq oms[m].frags
       /\ oms[m].ackd \subseteq oms[m].sent
       /\ Pending(m) => oms[m].ackd \subseteq ims[m].got
  /\ m \notin started \/ m = sendingMsg => Seen(m) = {} /\ ~oms[m].live

SentOK ==
  /\ sendingMsg \in started \cup {NoMsg} /\ acked \subseteq Msg
  /\ \A m \in Msg : Sends(m)

\* A posted sendDataCallback is the only one of its message.
Alone(i) ==
  /\ tasks[i].msgId \in started /\ tasks[i].msgId # sendingMsg
  /\ \A j \in 1..Len(tasks) :
       tasks[j].op = "send" /\ tasks[j].msgId = tasks[i].msgId => j = i

\* The fragments 0 .. n - 1 were sent, not all, and n - 1 is neither
\* acknowledged nor acknowledged by what is queued before place i.
SentUpTo(i, m, n) ==
  /\ oms[m].sent = 0..(n - 1) /\ n - 1 \notin oms[m].ackd
  /\ \A j \in 1..(i - 1) :
       tasks[j].op = "ack" => n - 1 \notin Decoded(tasks[j].ack, m)

InOrder(i, m) ==
  oms[m].live /\ oms[m].frags # {} =>
    \E n \in 1..(FragmentCount(Size[m]) - 1) : SentUpTo(i, m, n)

OrderOK ==
  \A i \in 1..Len(tasks) :
    tasks[i].op = "send" => Alone(i) /\ InOrder(i, tasks[i].msgId)

\* The inductive invariant.
AckInv == WholeInv /\ HeardOK /\ GotOK /\ SentOK /\ OrderOK /\ AckSound

\* A step takes back nothing that was sent, delivered or dropped, and the
\* receiver forgets nothing of a pending message.
Forward ==
  /\ \A m \in Msg : Seen(m) \subseteq Seen(m)'
  /\ \A m \in Msg : delivered[m] # {} => delivered'[m] # {}
  /\ expired \subseteq expired'
  /\ \A m \in Msg : Pending(m)' => Pending(m) /\ ims[m].got \subseteq ims'[m].got

\* Acknowledgements stay true.
LEMMA AckStays ==
  ASSUME NEW a, AckOK(a), Forward
  PROVE  AckOK(a)'
<1> SUFFICES ASSUME NEW m \in Msg
             PROVE  /\ Decoded(a, m) \subseteq Seen(m)'
                    /\ m \in DOMAIN a.partial => Seen(m)' # {}
                    /\ m \in a.complete => delivered'[m] # {}
                    /\ Pending(m)' => Decoded(a, m) \subseteq ims'[m].got
  BY Zenon DEF AckOK, Decoded
<1>1. /\ Decoded(a, m) \subseteq Seen(m)
      /\ m \in DOMAIN a.partial => Seen(m) # {}
      /\ m \in a.complete => delivered[m] # {}
      /\ Pending(m) => Decoded(a, m) \subseteq ims[m].got
  BY DEF AckOK
<1>2. /\ Seen(m) \subseteq Seen(m)'
      /\ delivered[m] # {} => delivered'[m] # {}
      /\ Pending(m)' => Pending(m) /\ ims[m].got \subseteq ims'[m].got
  BY DEF Forward
<1> QED  BY <1>1, <1>2, Zenon

LEMMA HeardStays ==
  ASSUME HeardOK, Forward, \A a \in Heard' : a \in Heard \/ AckOK(a)'
  PROVE  HeardOK'
  BY AckStays DEF HeardOK

\* A fragment goes out.
LEMMA SeenGrows ==
  ASSUME FragmentSizeAssumption, TransferAssumption, NEW k \in Msg, NEW i \in Fragments(k),
         net' = net \cup {FragmentPacket(k, i)}
  PROVE  \A m \in Msg : Seen(m)' = IF m = k THEN Seen(m) \cup {i} ELSE Seen(m)
<1> SUFFICES ASSUME NEW m \in Msg
             PROVE  Seen(m)' = IF m = k THEN Seen(m) \cup {i} ELSE Seen(m)
  OBVIOUS
<1>1. ASSUME NEW j \in Fragments(m), FragmentPacket(m, j) = FragmentPacket(k, i)
      PROVE  m = k /\ j = i
  <2>1. FragmentPacket(m, j).msgId = m /\ FragmentPacket(m, j).info = FragInfo(Size[m], j)
    BY DEF FragmentPacket
  <2>2. FragmentPacket(k, i).msgId = k /\ FragmentPacket(k, i).info = FragInfo(Size[k], i)
    BY Zenon DEF FragmentPacket
  <2>3. m = k /\ FragInfo(Size[k], j) = FragInfo(Size[k], i)
    BY <1>1, <2>1, <2>2, Zenon
  <2>4. /\ DecodeFragNum(FragInfo(Size[k], i)) = i
        /\ DecodeFragNum(FragInfo(Size[m], j)) = j
    BY FragmentHeaders
  <2> QED  BY <2>3, <2>4
<1>2. Seen(m)' = {j \in Fragments(m) : FragmentPacket(m, j) \in net'}
  BY DEF Seen, Fragments, FragmentPacket
<1>3. CASE m = k
  BY <1>1, <1>2, <1>3 DEF Seen
<1>4. CASE m # k
  BY <1>1, <1>2, <1>4 DEF Seen
<1> QED  BY <1>3, <1>4

-----------------------------------------------------------------------------
(* The receiver's steps                                                      *)

\* The sender, its queue and what went out are left alone.
LEMMA ReceiverSide ==
  ASSUME AckInv, WholeInv', UNCHANGED <<sender, net>>, Forward, GotOK', HeardOK'
  PROVE  AckInv'
<1>0. UNCHANGED <<oms, started, sendingMsg, tasks, acked, net>>
  BY DEF sender
<1>1. \A m \in Msg : Seen(m)' = Seen(m)
  BY <1>0 DEF Seen
<1>2. SentOK'
  <2>1. sendingMsg' \in started' \cup {NoMsg} /\ acked' \subseteq Msg
    BY <1>0, Zenon DEF AckInv, SentOK
  <2>2. ASSUME NEW m \in Msg PROVE Sends(m)'
    <3>1. Sends(m) /\ Seen(m)' = Seen(m)
      BY <1>1 DEF AckInv, SentOK
    <3>2. Pending(m)' => Pending(m) /\ ims[m].got \subseteq ims'[m].got
      BY Zenon DEF Forward
    <3> QED  BY <1>0, <3>1, <3>2 DEF Sends
  <2> QED  BY <2>1, <2>2 DEF SentOK
<1>3. OrderOK'
  BY <1>0, Zenon DEF AckInv, OrderOK, Alone, InOrder, SentUpTo, Decoded
<1>4. AckSound'
  <2> SUFFICES ASSUME NEW m \in acked
               PROVE  delivered'[m] # {} \/ m \in expired' \/ Size[m] % MaxFragmentSize = 0
    BY <1>0, Zenon DEF AckSound
  <2>1. delivered[m] # {} \/ m \in expired \/ Size[m] % MaxFragmentSize = 0
    BY DEF AckInv, AckSound
  <2>2. m \in Msg
    BY DEF AckInv, SentOK
  <2> QED  BY <2>1, <2>2, Zenon DEF Forward
<1> QED  BY <1>2, <1>3, <1>4 DEF AckInv

\* Without a change to what is held the receiver's invariant stays.
LEMMA HoldsAsBefore ==
  ASSUME AckInv, Forward, UNCHANGED <<ims, delivered>>
  PROVE  GotOK'
<1> SUFFICES ASSUME NEW m \in Msg PROVE Receives(m)'
  BY DEF GotOK
<1>1. Receives(m) /\ Seen(m) \subseteq Seen(m)'
  BY Zenon DEF AckInv, GotOK, Forward
<1> QED  BY <1>1, Zenon DEF Receives, AllFragmentsReceived, VectorSize

\* A message's state is dropped, or a complete one is forgotten.
LEMMA Forgets ==
  ASSUME AckInv, UNCHANGED <<net, delivered>>, expired \subseteq expired',
         ims' \in [Msg -> InboundMessageState],
         \A m \in Msg : \/ ims'[m] = ims[m]
                        \/ /\ ims'[m] = NoInbound
                           /\ \/ m \in expired' \/ ims[m].got = {}
                              \/ AllFragmentsReceived(ims[m])
  PROVE  Forward /\ GotOK'
<1>1. \A m \in Msg : Seen(m)' = Seen(m)
  BY DEF Seen
<1>2. Forward
  <2> SUFFICES ASSUME NEW m \in Msg, Pending(m)'
               PROVE  Pending(m) /\ ims[m].got \subseteq ims'[m].got
    BY <1>1, Zenon DEF Forward
  <2>1. Pending(m) /\ m \notin expired' /\ delivered[m] = {}
    BY Zenon DEF Pending
  <2>2. ~ AllFragmentsReceived(ims[m])
    BY <2>1, Zenon DEF AckInv, GotOK, Receives
  <2>3. ims'[m] = ims[m] \/ ims[m].got = {}
    BY <2>1, <2>2, Zenon
  <2> QED  BY <2>1, <2>3, Zenon
<1>3. ASSUME NEW m \in Msg PROVE Receives(m)'
  <2>1. Receives(m)
    BY Zenon DEF AckInv, GotOK
  <2>2. CASE ims'[m] = ims[m]
    BY <1>1, <2>1, <2>2 DEF Receives, AllFragmentsReceived, VectorSize
  <2>3. CASE ims'[m] = NoInbound
    <3>1. ims'[m].live = FALSE /\ ims'[m].got = {}
      BY <2>3 DEF NoInbound
    <3>2. ~ AllFragmentsReceived(ims[m])'
      BY <3>1 DEF AllFragmentsReceived
    <3> QED  BY <3>1, <3>2, Zenon DEF Receives
  <2> QED  BY <2>2, <2>3
<1> QED  BY <1>2, <1>3, Zenon DEF GotOK

\* The receiver's timers, and the end of the session.
LEMMA ReceiverTimers ==
  ASSUME AckInv, WholeInv',
         \/ \E m \in Msg : InboundTimerExpires(m) \/ InboundTimerCallback(m)
         \/ Disconnect \/ \E a \in acks : LoseAck(a)
  PROVE  AckInv'
<1>1. /\ UNCHANGED <<sender, net, delivered>> /\ expired \subseteq expired'
      /\ acks' \subseteq acks /\ tasks' = tasks
  BY DEF InboundTimerExpires, InboundTimerCallback, Disconnect, LoseAck, receiver, sender
<1>2. ims \in [Msg -> InboundMessageState] /\ ims' \in [Msg -> InboundMessageState]
  BY DEF AckInv, WholeInv, ReceiverOK
<1>3. \A m \in Msg : \/ ims'[m] = ims[m]
                     \/ ims'[m] = NoInbound /\ (m \in expired' \/ ims[m].got = {})
  <2>1. CASE ims' = ims
    BY <2>1, Zenon
  <2>2. ASSUME NEW k \in Msg, InboundTimerCallback(k)
        PROVE  \A m \in Msg : \/ ims'[m] = ims[m]
                              \/ ims'[m] = NoInbound /\ (m \in expired' \/ ims[m].got = {})
    <3>1. /\ ims' = [ims EXCEPT ![k] = NoInbound]
          /\ expired' = IF ims[k].live THEN expired \cup {k} ELSE expired
      BY <2>2, Zenon DEF InboundTimerCallback
    <3>2. ims[k].live <=> ims[k].got # {}
      BY Zenon DEF AckInv, GotOK, Receives
    <3> QED  BY <1>2, <3>1, <3>2
  <2> QED  BY <2>1, <2>2, Zenon DEF InboundTimerExpires, Disconnect, LoseAck, receiver
<1>4. Forward /\ GotOK'
  BY <1>1, <1>2, <1>3, Forgets, Zenon
<1>5. Heard' \subseteq Heard
  BY <1>1 DEF Heard
<1>6. HeardOK'
  BY <1>4, <1>5, HeardStays DEF AckInv
<1> QED  BY <1>1, <1>4, <1>6, ReceiverSide, Zenon

\* flushAckCallback acknowledges what is held, and the complete messages were
\* handed over before.
LEMMA FlushAcks ==
  ASSUME FragmentSizeAssumption, TransferAssumption, AckInv, WholeInv', FlushAck
  PROVE  AckInv'
<1> DEFINE held == {m \in Msg : ims[m].live}
           complete == {m \in held : AllFragmentsReceived(ims[m])}
<1>0. PICK a : a = AckPacket(complete, held \ complete)
  BY Zenon
<1>1. /\ UNCHANGED <<sender, net, delivered, expired>> /\ tasks' = tasks
  BY DEF FlushAck, sender
<1>2. ims \in [Msg -> InboundMessageState] /\ ims' \in [Msg -> InboundMessageState]
  BY Zenon DEF AckInv, WholeInv, ReceiverOK
<1>3. \A m \in Msg : \/ ims'[m] = ims[m]
                     \/ m \in complete /\ ims'[m] = NoInbound
  BY <1>2, Zenon DEF FlushAck
<1>4. Forward /\ GotOK'
  BY <1>1, <1>2, <1>3, Forgets, Zenon
<1>5. acks' \subseteq acks \cup {a}
  BY <1>0, Zenon DEF FlushAck
<1>6. AckOK(a)'
  <2> SUFFICES ASSUME NEW m \in Msg
               PROVE  /\ Decoded(a, m) \subseteq Seen(m)'
                      /\ m \in DOMAIN a.partial => Seen(m)' # {}
                      /\ m \in a.complete => delivered'[m] # {}
                      /\ Pending(m)' => Decoded(a, m) \subseteq ims'[m].got
    BY Zenon DEF AckOK, Decoded
  <2>1. a.complete = complete /\ DOMAIN a.partial = held \ complete
    BY <1>0 DEF AckPacket
  <2>2. Receives(m) /\ Seen(m)' = Seen(m)
    BY <1>1, Zenon DEF AckInv, GotOK, Seen
  <2>3. CASE m \notin held \ complete
    <3>1. Decoded(a, m) = {} /\ m \notin DOMAIN a.partial
      BY <2>1, <2>3, Zenon DEF Decoded
    <3>2. m \in complete => delivered'[m] # {}
      BY <1>1, <2>2, Zenon DEF Receives
    <3> QED  BY <2>1, <3>1, <3>2, Zenon
  <2>4. CASE m \in held \ complete
    <3>1. a.partial[m] = EncodeAck(FragmentsReceived(ims[m]))
      BY <1>0, <2>4 DEF AckPacket
    <3>2. ims[m].got # {} /\ ims[m].got \subseteq Seen(m) /\ m \notin complete
      BY <2>2, <2>4, Zenon DEF Receives
    <3>3. Decoded(a, m) \subseteq ims[m].got
      <4>1. ims[m].got \subseteq Fragments(m)
        BY Zenon DEF AckInv, WholeInv, ReceiverOK, Holds
      <4> QED  BY <2>1, <2>4, <3>1, <3>2, <4>1, DecodedWasReceived, Zenon DEF Decoded
    <3>4. ims'[m] = ims[m]
      BY <1>3, <3>2, Zenon
    <3>5. Seen(m)' # {}
      BY <2>2, <3>2, Zenon
    <3> QED  BY <2>1, <2>2, <3>2, <3>3, <3>4, <3>5, Zenon
  <2> QED  BY <2>3, <2>4, Zenon
<1>7. \A b \in Heard' : b \in Heard \/ b = a
  BY <1>1, <1>5 DEF Heard
<1>8. HeardOK'
  BY <1>4, <1>6, <1>7, HeardStays DEF AckInv
<1> QED  BY <1>1, <1>4, <1>8, ReceiverSide

=============================================================================
