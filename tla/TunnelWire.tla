------------------------------- MODULE TunnelWire -------------------------------
(***************************************************************************)
(* What travels inside tunnels: the fragments of a message, the tunnel     *)
(* messages that carry them, and the records of a tunnel build.  Flags are *)
(* bits of a byte, so a byte has its 256 values here.                      *)
(***************************************************************************)
EXTENDS Integers, Sequences, SequencesExt

CONSTANTS BodyLen,   \* bytes of a tunnel message after its IV: 1008
          ToLen,     \* bytes of the hash of a router: 32
          SecretLen  \* bytes of a session key: 32 (an IV has 16)

LOCAL B == INSTANCE Wire WITH Base <- 256
LOCAL D(n, w) == B!Digits(n, w)

\* checksum, a zero, and the rest is for fragments: 1003 bytes
MaxSize == BodyLen - 5

-----------------------------------------------------------------------------
(* FirstFragment [first, mode, fragmented, tunnelId, to, msgId, payload]   *)
(* and FollowOnFragment [first, msgId, num, last, payload].                *)

LocalMode == 0
TunnelMode == 1
RouterMode == 2

CompileFirst(f) ==
  <<f.mode * 32 + (IF f.fragmented THEN 8 ELSE 0)>>
  \o (IF f.mode = TunnelMode THEN D(f.tunnelId, 4) \o f.to ELSE <<>>)
  \o (IF f.fragmented THEN D(f.msgId, 4) ELSE <<>>)
  \o D(Len(f.payload), 2) \o f.payload

\* Delivery to the local router is not handled.
ParseFirst(b, at) ==
  LET mode == (b[at] \div 32) % 4
      fragmented == (b[at] \div 8) % 2 = 1
      id(p) == IF mode = TunnelMode THEN B!ParseUint(b, p, 4) ELSE B!Parsed(0, p)
      msg(p) == IF fragmented THEN B!ParseUint(b, p, 4) ELSE B!Parsed(0, p)
  IN  IF mode \notin {TunnelMode, RouterMode} THEN B!Thrown
      ELSE B!Then(id(at + 1), LAMBDA t :
             B!Then(B!Take(b, t.at, ToLen), LAMBDA h :
               B!Then(msg(h.at), LAMBDA m :
                 B!Then(B!ParseSized(b, m.at, 2), LAMBDA p :
                   B!Parsed([first |-> TRUE, mode |-> mode, fragmented |-> fragmented,
                             tunnelId |-> t.v, to |-> h.v, msgId |-> m.v, payload |-> p.v],
                            p.at)))))

CompileFollowOn(f) ==
  <<128 + 2 * f.num + (IF f.last THEN 1 ELSE 0)>>
  \o D(f.msgId, 4) \o D(Len(f.payload), 2) \o f.payload

\* Wrong fragment number: the last flag is not masked.
ParseFollowOnUnmasked(b, at) ==
  B!Then(B!ParseUint(b, at + 1, 4), LAMBDA m :
    B!Then(B!ParseSized(b, m.at, 2), LAMBDA p :
      B!Parsed([first |-> FALSE, msgId |-> m.v, num |-> b[at] % 128,
                last |-> b[at] % 2 = 1, payload |-> p.v], p.at)))

ParseFollowOn(b, at) ==
  B!Then(B!ParseUint(b, at + 1, 4), LAMBDA m :
    B!Then(B!ParseSized(b, m.at, 2), LAMBDA p :
      B!Parsed([first |-> FALSE, msgId |-> m.v, num |-> (b[at] % 128) \div 2,
                last |-> b[at] % 2 = 1, payload |-> p.v], p.at)))

CompileFragment(f) == IF f.first THEN CompileFirst(f) ELSE CompileFollowOn(f)

ParseFragment(b, at) ==
  IF B!Left(b, at) < 3 THEN B!Thrown
  ELSE IF b[at] >= 128 THEN ParseFollowOn(b, at) ELSE ParseFirst(b, at)

HeaderSize(mode, fragmented) ==
  (IF mode = LocalMode THEN 3 ELSE 7 + ToLen) + (IF fragmented THEN 4 ELSE 0)
FollowOnHeader == 7

\* desiredSize is a uint16_t
MustFragment(size) == HeaderSize(LocalMode, FALSE) + (size % 65536) > MaxSize

\* setPayload: as many of the bytes from `from` on as the fragment holds
Payload(data, from, header) ==
  LET n == IF header + Len(data) - from > MaxSize THEN MaxSize - header ELSE Len(data) - from
  IN  SubSeq(data, from + 1, from + n)

\* fragmentMessage: <<>> when a fragment number would pass 63 (an exception).
FragmentMessage(data, id) ==
  LET cut == MustFragment(Len(data))
      first == [first |-> TRUE, mode |-> LocalMode, fragmented |-> cut, tunnelId |-> 0,
                to |-> <<>>, msgId |-> IF cut THEN id ELSE 0,
                payload |-> Payload(data, 0, HeaderSize(LocalMode, cut))]
      rest == Len(data) - Len(first.payload)
      room == MaxSize - FollowOnHeader
      count == IF cut THEN (rest + room - 1) \div room ELSE 0
      start(k) == Len(first.payload) + (k - 1) * room
      followOn(k) == [first |-> FALSE, msgId |-> id, num |-> k, last |-> k = count,
                      payload |-> Payload(data, start(k), FollowOnHeader)]
  IN  IF count > 63 THEN <<>> ELSE <<first>> \o [k \in 1 .. count |-> followOn(k)]

-----------------------------------------------------------------------------
(* Tunnel::Message: checksum, padding without zeros, a zero, fragments.    *)

\* four bytes of SHA-256 over the fragments and the IV
Digest(b, iv) == D(FoldLeft(LAMBDA x, d : (31 * x + d + 1) % 65521, iv, b), 4)

\* The constructor throws (<<>>) when the fragments are too large.
CompileMessage(fragments, iv) ==
  LET b == FlattenSeq([n \in 1 .. Len(fragments) |-> CompileFragment(fragments[n])])
  IN  IF Len(b) > MaxSize THEN <<>>
      ELSE Digest(b, iv) \o [n \in 1 .. MaxSize - Len(b) |-> 255] \o <<0>> \o b

\* where the first fragment begins: after the first zero past the checksum
FirstAt(b) == 1 + Min({n \in 5 .. Len(b) : b[n] = 0})

VerifyChecksum(b, iv) == SubSeq(b, 1, 4) = Digest(SubSeq(b, FirstAt(b), Len(b)), iv)

\* Message::parse: fragments until the end, or an exception
ParseMessage(b, iv) ==
  LET rest[p \in 1 .. Len(b) + 1] ==
        IF p = Len(b) + 1 THEN B!Parsed(<<>>, p)
        ELSE B!Then(ParseFragment(b, p), LAMBDA f :
               B!Then(rest[f.at], LAMBDA r : B!Parsed(<<f.v>> \o r.v, r.at)))
  IN  IF ~VerifyChecksum(b, iv) THEN B!Thrown ELSE rest[FirstAt(b)]

-----------------------------------------------------------------------------
(* BuildRequestRecord, and the ElGamal layer of a BuildRecord.             *)

SetType(flags, type) ==
  CASE type = "gateway" -> flags \cup {7}
    [] type = "endpoint" -> flags \cup {6}
    [] type = "participant" -> {}

GetType(flags) ==
  IF 7 \in flags THEN "gateway" ELSE IF 6 \in flags THEN "endpoint" ELSE "participant"

\* std::bitset<8>::to_ulong
FlagByte(flags) == (IF 7 \in flags THEN 128 ELSE 0) + (IF 6 \in flags THEN 64 ELSE 0)
Flags(byte) == {k \in 6 .. 7 : (byte \div 2^k) % 2 = 1}

CompileRequest(r) ==
  D(r.tunnelId, 4) \o r.localHash \o D(r.nextTunnelId, 4) \o r.nextHash
  \o r.layerKey \o r.ivKey \o r.replyKey \o r.replyIV
  \o <<FlagByte(r.flags)>> \o D(r.requestTime, 4) \o D(r.nextMsgId, 4)

ParseRequest(b) ==
  LET at(n) == 1 + n                    \* dataItr after n bytes
      num(n) == B!ParseUint(b, at(n), 4).v
      part(n, len) == SubSeq(b, at(n), n + len)
      keys == 8 + 2 * ToLen
      end == keys + 4 * SecretLen
  IN  [tunnelId |-> num(0), localHash |-> part(4, ToLen),
       nextTunnelId |-> num(4 + ToLen), nextHash |-> part(8 + ToLen, ToLen),
       layerKey |-> part(keys, SecretLen), ivKey |-> part(keys + SecretLen, SecretLen),
       replyKey |-> part(keys + 2 * SecretLen, SecretLen),
       replyIV |-> part(keys + 3 * SecretLen, SecretLen),
       flags |-> Flags(b[at(end)]), requestTime |-> num(end + 1), nextMsgId |-> num(end + 5)]

\* The text of an ElGamal block: 0xFF, a hash of the data, the data.
EncryptRecord(data, key) == [key |-> key, text |-> <<255>> \o Digest(data, 0) \o data]

\* The key that opens the block is another router's private key otherwise,
\* and the hash does not match what comes out: an exception (<<>>).
DecryptRecord(block, key) ==
  LET data == SubSeq(block.text, 6, Len(block.text))
  IN  IF block.key # key \/ SubSeq(block.text, 2, 5) # Digest(data, 0) THEN <<>> ELSE data
=============================================================================
