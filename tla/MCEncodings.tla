------------------------------ MODULE MCEncodings ------------------------------
(***************************************************************************)
(* Every form in which data is cut up, written and read back: a value of   *)
(* one kind grows step by step, and each state checks what comes out of    *)
(* its round trip.                                                         *)
(***************************************************************************)
EXTENDS DataPacket, I2NP, TunnelWire, Handshake, Deflate, Armour, FiniteSets

CONSTANTS MaxMessage,   \* bound: bytes of an SSU message
          MaxVector,    \* bound: fragments of a vector of received flags
          MaxGrowth,    \* bound: parts added to a RouterInfo
          MaxData,      \* bound: bytes of a message for a tunnel
          MaxText,      \* bound: bytes that are encoded in base 64
          MaxPieces,    \* bound: pieces of a compressed stream
          MaxExponent,  \* bound: private DH values
          MaxPayload,   \* bound: bytes of a certificate in a handshake
          MaxOffered    \* bound: parameters of an offer

VARIABLES kind, val

-----------------------------------------------------------------------------
(* Where the values start.  Strings has the separators, the empty string   *)
(* and the longest string that a size byte can count.                      *)

Strings == {<<>>, <<Equal, Semicolon>>, <<0, 0, 0, 0>>, <<4, 4, 4, 4>>}

Address == [cost |-> 1, expiration |-> 0, transport |-> <<1>>, options |-> <<>>]

Info == [identity |-> [key |-> <<1>>, signing |-> <<2>>,
                       certificate |-> [type |-> 0, payload |-> <<>>]],
         published |-> 3124, addresses |-> <<Address>>, options |-> <<>>,
         signature |-> <<>>]

Request == [tunnelId |-> 1, localHash |-> <<1, 2>>, nextTunnelId |-> 256, nextHash |-> <<3, 4>>,
            layerKey |-> <<5>>, ivKey |-> <<6>>, replyKey |-> <<7>>, replyIV |-> <<8>>,
            flags |-> {}, requestTime |-> 16777217, nextMsgId |-> 65535]

\* Addresses of both sizes, and ports with and without a sign bit.
Endpoints == {[ip |-> <<10, 0, 0, 1>>, port |-> 65535],
              [ip |-> <<10, 0, 0, 2>>, port |-> 258],
              [ip |-> [n \in 1 .. 16 |-> n], port |-> 258]}

Identity(k, payload) ==
  [key |-> [n \in 1 .. 256 |-> k], signing |-> [n \in 1 .. 128 |-> k],
   certificate |-> [type |-> 1, payload |-> [n \in 1 .. payload |-> n]]]

Settings ==
  LET windows == {SetC2SMaxWindowBits(SetS2CMaxWindowBits(Disabled, b, l), c, k) :
                    b \in {8, 12, 15}, c \in {7, 10, 15}, l \in Modes, k \in Modes}
  IN  windows \cup {EnableS2CNoContextTakeover(Disabled), EnableC2SNoContextTakeover(Disabled)}

\* 264 is 8 once it is a uint8_t.
Parameters ==
  [name : {"s2c_no_context_takeover", "c2s_no_context_takeover"}, value : {Empty, 1}]
  \cup [name : {"s2c_max_window_bits", "c2s_max_window_bits"}, value : {Empty, 8, 11, 15, 16, 264}]

Message(t, x) == [type |-> t, msgId |-> 0, x |-> x]

Messages ==
  {Message("DeliveryStatus", [msgId |-> 624, timestamp |-> 0]),
   Message("DatabaseStore", [key |-> <<1, 2>>, type |-> RouterInfoType, replyToken |-> 0, data |-> <<>>]),
   Message("TunnelData", [tunnelId |-> 3, data |-> <<1, 2, 3>>]),
   Message("TunnelGateway", [tunnelId |-> 624, data |-> <<>>]),
   Message("VariableTunnelBuild", [records |-> <<>>]),
   Message("VariableTunnelBuildReply", [records |-> <<>>])}

Init ==
  \/ kind = "message" /\ val = 1
  \/ kind = "ack" /\ val \in {<<TRUE>>, <<FALSE>>}
  \/ kind = "info" /\ val = [r |-> Info, n |-> 0]
  \/ kind = "i2np" /\ val \in Messages
  \/ kind = "search" /\ val = <<>>
  \/ kind = "data" /\ val = 0
  \/ kind = "request" /\ val = Request
  \/ kind = "text" /\ val = <<>>
  \/ kind = "key" /\ val = <<>>
  \/ /\ kind = "session"
     /\ val \in [x : {1}, y : {1}, payload : {0}, bob : Endpoints, alice : Endpoints]
  \/ kind = "deflate" /\ val \in [s : Settings, offer : {<<>>}]
  \/ kind = "gzip" /\ val = << <<>> >>

-----------------------------------------------------------------------------
(* How they grow.                                                          *)

GrowNumber ==
  /\ \/ kind = "message" /\ val < MaxMessage
     \/ kind = "data" /\ val < MaxData
  /\ val' = val + 1

GrowVector == kind = "ack" /\ Len(val) < MaxVector /\ \E bit \in BOOLEAN : val' = Append(val, bit)

GrowInfo ==
  /\ kind = "info" /\ val.n < MaxGrowth
  /\ \E r \in
       {[val.r EXCEPT !.options = (k :> v) @@ @] : k \in Strings, v \in Strings}
       \cup {[val.r EXCEPT !.addresses[1].options = (k :> v) @@ @] : k \in Strings, v \in Strings}
       \cup {[val.r EXCEPT !.addresses[1].transport = s] : s \in Strings}
       \cup {[val.r EXCEPT !.identity.certificate.payload = @ \o s] : s \in Strings}
       \cup {[val.r EXCEPT !.addresses = Append(@, Address)]} :
       val' = [r |-> r, n |-> val.n + 1]

GrowMessage ==
  /\ kind = "i2np"
  /\ \/ val.msgId = 0 /\ val' = [val EXCEPT !.msgId = 624]
     \/ /\ val.type \in {"DatabaseStore", "TunnelGateway"} /\ Len(val.x.data) < Base^2
        /\ val' = [val EXCEPT !.x.data = Append(@, Len(@) % Base)]
     \/ /\ val.type \in {"VariableTunnelBuild", "VariableTunnelBuildReply"}
        /\ Len(val.x.records) < Base
        /\ val' = [val EXCEPT !.x.records = Append(@, <<Len(@), 1>>)]

GrowSearch == kind = "search" /\ Len(val) < Base - 1 /\ val' = Append(val, <<1, Len(val)>>)

GrowRequest ==
  /\ kind = "request"
  /\ \E t \in {"gateway", "endpoint", "participant"} :
       val' = [val EXCEPT !.flags = SetType(@, t), !.tunnelId = (@ * 256 + 7) % 2^24]

GrowSession ==
  /\ kind = "session"
  /\ \/ val.x < MaxExponent /\ val' = [val EXCEPT !.x = @ + 1]
     \/ val.y < MaxExponent /\ val' = [val EXCEPT !.y = @ + 1]
     \/ val.payload < MaxPayload /\ val' = [val EXCEPT !.payload = @ + 1]

GrowOffer ==
  /\ kind = "deflate" /\ Len(val.offer) < MaxOffered
  /\ \E p \in Parameters : val' = [val EXCEPT !.offer = Append(@, p)]

GrowBytes ==
  /\ \/ kind = "text" /\ Len(val) < MaxText
     \/ kind = "key" /\ Len(val) < KeySize
  /\ \E byte \in {0, 1, 2, 63, 64, 128, 129, 254, 255} : val' = Append(val, byte)

\* A piece is added to the last write, or begins the next one.
GrowStream ==
  /\ kind = "gzip" /\ Len(FlattenSeq(val)) < MaxPieces
  /\ End \notin Range(FlattenSeq(val))
  /\ \E piece \in {End, <<>>, <<1>>, <<2, 3, 4>>} :
       \/ val' = [val EXCEPT ![Len(val)] = Append(@, piece)]
       \/ val' = Append(val, <<piece>>)

Next ==
  /\ \/ GrowNumber \/ GrowVector \/ GrowInfo \/ GrowMessage \/ GrowSearch \/ GrowRequest
     \/ GrowSession \/ GrowOffer
     \/ GrowBytes \/ GrowStream
  /\ UNCHANGED kind

Spec == Init /\ [][Next]_<<kind, val>>

-----------------------------------------------------------------------------
\* The bits that reach the sender are the fragments that were received, for every
\* number of bytes the bitfield of buildData takes.
AckRoundTrip ==
  kind = "ack" => DecodeAck(EncodeAck(val)) = {i - 1 : i \in {k \in 1..Len(val) : val[k]}}

\* The fragments read back from the wire make up the message: they are numbered
\* from 0 without gaps, none is empty, their sizes add up (all but the final one
\* are full), and only the final one may carry the flag isLast.
Reassembles ==
  kind = "message" =>
  LET n == FragmentCount(val)
      Piece(i) == FragInfo(val, i)
  IN  /\ \A i \in 0..(n - 1) :
           /\ DecodeFragNum(Piece(i)) = i
           /\ DecodeFragSize(Piece(i)) > 0
           /\ i < n - 1 => DecodeFragSize(Piece(i)) = MaxFragmentSize
           /\ DecodeIsLast(Piece(i)) => i = n - 1
      /\ (n - 1) * MaxFragmentSize + DecodeFragSize(Piece(n - 1)) = val

\* The two codings of a data packet, of the fragments and of the bits that
\* acknowledge them, are undone by the receiver's reading of it.
DataPacketsSurvive == Reassembles /\ AckRoundTrip

\* A RouterInfo that is signed, serialised and parsed again is the same one, and
\* verifySignature accepts it: for every list of addresses, options and
\* certificate whose sizes their size fields can count, whatever bytes the
\* strings hold.
InfoSurvives ==
  kind = "info" =>
  LET r == Sign(val.r)
      p == ParseInfo(InfoBytes(r), 1)
      fits(m) == Len(MappingBytes(m)) - 2 < Base^2
  IN  /\ Len(r.addresses) < Base /\ Len(r.identity.certificate.payload) < Base^2
      /\ fits(r.options) /\ fits(r.addresses[1].options)
      => p.at # 0 /\ p.v = r /\ VerifySignature(p.v)

\* A lookup as its receiver reads it, and a reply as its sender writes it: the code
\* has no other side for the two.
LookupHashes(b) ==
  LET n == 2 * HashLen + (IF b[2 * HashLen + 1] = 1 THEN 7 ELSE 3)
  IN  [k \in 1 .. (Len(b) - n) \div HashLen |-> SubSeq(b, n + 1 + (k - 1) * HashLen, n + k * HashLen)]
ReplyBytes(hashes) == <<1, 1, Len(hashes)>> \o FlattenSeq(hashes) \o <<2, 2>>

\* toBytes and fromBytes agree, with both headers, on every message that both
\* compile() and parse() know: the content comes back, and the id does when the
\* header has it.  The hashes of a lookup and of a search reply come out in order.
I2npSurvives ==
  /\ kind = "i2np" =>
       \A standard \in BOOLEAN :
         LET b == ToBytes(val, standard, 3)
             p == FromBytes(9, b, standard)
             counted == IF "records" \in DOMAIN val.x THEN Len(val.x.records) < Base
                        ELSE Len(Compile(val.type, val.x)) < Base^2
         IN  counted => /\ p.at # 0 /\ p.v.type = val.type /\ p.v.x = val.x
                        /\ p.v.msgId = IF standard THEN val.msgId ELSE 9
  /\ kind = "search" =>
       /\ \A to \in {0, 5} :
            LookupHashes(LookupBytes([key |-> <<1, 1>>, from |-> <<2, 2>>, sendReplyTo |-> to,
                                      excluded |-> val])) = val
       /\ ParseSearchReply(ReplyBytes(val), 1).v = [key |-> <<1, 1>>, hashes |-> val, from |-> <<2, 2>>]

\* What the router stores and what it sends of the network's data comes back
\* from its bytes.
MessagesSurvive == InfoSurvives /\ I2npSurvives

\* fragmentMessage loses nothing: the payloads make up the data, every fragment
\* is read back from the tunnel message it travels in, alone or with another one,
\* and only a message that needs a 64th follow-on fragment is refused.
FragmentsRebuild ==
  kind = "data" =>
  LET data == [n \in 1 .. val |-> n % 251]
      fs == FragmentMessage(data, 77)
      last == fs[Len(fs)]
      comesBack(s) == LET b == CompileMessage(s, 3)
                      IN  Len(b) = BodyLen /\ ParseMessage(b, 3).v = s
  IN  /\ fs = <<>> <=> val > 64 * (MaxSize - 7)
      /\ fs # <<>> =>
           /\ FlattenSeq([k \in 1 .. Len(fs) |-> fs[k].payload]) = data
           /\ Len(CompileFragment(fs[1])) <= MaxSize
           /\ LET f == [fs[1] EXCEPT !.mode = TunnelMode, !.tunnelId = 5, !.to = <<6, 7>>]
              IN  ParseFragment(CompileFragment(f), 1).v = f
           /\ \A k \in 2 .. Len(fs) :
                comesBack(<<fs[k]>>) /\ fs[k].num = k - 1 /\ (fs[k].last <=> k = Len(fs))
           /\ Len(fs) > 1 /\ 2 * (7 + Len(last.payload)) <= MaxSize => comesBack(<<last, last>>)

\* The hop that a record is meant for reads what the creator of the tunnel wrote,
\* and its type is the one set last or the gateway; no other hop opens the record.
RequestOpens ==
  kind = "request" =>
  LET data == CompileRequest(val)
      block == EncryptRecord(data, "hop")
      r == ParseRequest(DecryptRecord(block, "hop"))
  IN  /\ r = val /\ (GetType(r.flags) = "participant" <=> r.flags = {})
      /\ DecryptRecord(block, "other") = <<>>

\* What a tunnel carries, and the requests that build one, come back from the
\* bytes of the tunnel messages and build records.
TunnelDataSurvives == FragmentsRebuild /\ RequestOpens

\* Of a handshake without losses, the router that connects always takes the session
\* for established, and the two have the same keys and know each other, whatever
\* addresses they see: but the other one accepts the confirmation, and with it the
\* session, only when the certificate of the identity is of whole blocks, since it
\* looks for the signature where the padding of the packet is.  The late answer to
\* an earlier request is a packet with the right MAC, and ends the attempt.
SessionsAgree ==
  kind = "session" =>
  LET alice == Identity(1, val.payload)
      bob == Identity(2, 0)
      request(x) == SendRequest(Outbound(alice, x, val.bob, bob), 1, 1000)
      answer(x) == ProcessRequest(HandleSessionRequest(Inbound(bob, val.y, val.alice),
                                                       request(x).packet), 2, 2000)
      created(old, new) ==
        ProcessCreated(HandleSessionCreated(request(new).es, answer(old).packet), 3, 3000)
      a == created(val.x, val.x)
      b == HandleSessionConfirmed(answer(val.x).es, a.packet)
  IN  /\ a.es.at = "CONFIRMED_SENT" /\ b.at = "CONFIRMED_RECEIVED"
      /\ a.es.sessionKey = b.sessionKey /\ a.es.macKey = b.macKey
      /\ a.es.myEp = val.alice /\ b.myEp = val.bob /\ b.peer = alice
      /\ ProcessConfirmed(b).at = "ESTABLISHED" <=> val.payload % Block = 0
      /\ \A old \in 1 .. val.x - 1 : created(old, val.x).es.at = "FAILURE"

\* An offer that is accepted is one the two sides agree about: the windows that zlib
\* is given are those that the client reads in the response, the server's is within
\* what the client offered last (unless the server declines, which the response does
\* not tell), and no context is taken over where the client asked for that.  A
\* limit for the client is in the response although the client offered none exactly
\* when the server prefers one.  An offer that is refused does not enable anything.
NegotiationAgrees ==
  kind = "deflate" =>
  LET r == Negotiate(val.s, val.offer)
      answer == GenerateResponse(r.s)
      told(bits) == IF bits = Empty THEN DefaultBits ELSE bits
      at(name) == {n \in DOMAIN val.offer : val.offer[n].name = name}
      last(name) == val.offer[Max(at(name))].value
  IN  /\ r.ok = r.s.enabled
      /\ r.ok =>
           /\ InitZlib(r.s) = [deflate |-> told(answer.s2c), inflate |-> told(answer.c2s)]
           /\ at("s2c_max_window_bits") # {} /\ val.s.s2cMode # "decline"
              => InitZlib(r.s).deflate <= last("s2c_max_window_bits")
           /\ at("s2c_no_context_takeover") # {} => answer.s2cAnew
           /\ at("c2s_no_context_takeover") # {} => answer.c2sAnew
           /\ at("c2s_max_window_bits") = {} => (answer.c2s # Empty <=> val.s.c2s < DefaultBits)

\* Base64::decode undoes Base64::encode, with every number of padding characters.
Base64RoundTrip == kind = "text" => Decode(Encode(val)) = val /\ Len(Encode(val)) % 4 = 0

\* The bucket of a key is one less than the logarithm of its distance to the
\* reference, the first bytes being the high ones; distances 0 and 1 share the
\* bucket past the end that the subtraction wraps to.
BucketIsLogarithm ==
  kind = "key" /\ Len(val) = KeySize =>
  LET d == FoldLeft(LAMBDA x, byte : 256 * x + byte, 0, val)
      bits == {n \in 0 .. 8 * KeySize - 1 : 2^n <= d}
  IN  GetBucket(val, [n \in 1 .. KeySize |-> 0]) = IF bits = {} THEN -1 ELSE Cardinality(bits) - 2

\* The gzip filters send on exactly what was compressed, however the stream is
\* cut into writes and however small the buffer; a stream without its end throws.
GzipWhole ==
  kind = "gzip" =>
  LET stream == FlattenSeq(val)
      whole == stream # <<>> /\ stream[Len(stream)] = End
      text == SelectSeq(stream, LAMBDA p : p # End)
      f == Decompress(val)
      plain == [n \in 1 .. Len(val) |-> FlattenSeq(SelectSeq(val[n], LAMBDA p : p # End))]
  IN  /\ IF whole THEN ~f.thrown /\ f.z.out = FlattenSeq(text)
         ELSE f.thrown <=> stream # <<>>
      /\ Decompress(<<Compress(plain)>>).z.out = FlattenSeq(plain)

\* The armour around stored and fetched data is exact: text and streams come back
\* as they were, and a key is in the bucket its distance says.
ArmourExact == Base64RoundTrip /\ BucketIsLogarithm /\ GzipWhole
=============================================================================
