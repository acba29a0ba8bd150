------------------------------- MODULE Handshake -------------------------------
(***************************************************************************)
(* The bytes of an SSU handshake: the packets that PacketBuilder makes,    *)
(* the envelope that Packet puts them in, and what an EstablishmentState   *)
(* keeps, signs and verifies.  Establishment has the control around it.    *)
(*                                                                         *)
(* A state is a record                                                     *)
(*   [me, peer: identities; secret: the private DH value; theirDH,         *)
(*    theirEp, myEp, relayTag, ts, signature, iv, dhSecret,                *)
(*    sessionKey, macKey, at: the state of the establishment]              *)
(* and an endpoint is [ip, port].                                          *)
(***************************************************************************)
EXTENDS Integers, Sequences, SequencesExt

CONSTANTS Prime,       \* the DH group: modp/ietf/2048
          Generator,
          DhLen,       \* bytes of a value of the group: 256
          SessionLen   \* bytes of a session key or a MAC key: 32

LOCAL B == INSTANCE Wire WITH Base <- 256
LOCAL T == INSTANCE Datatypes WITH Base <- 256, KeyLen <- 256, SigningLen <- 128, SigLen <- 40
LOCAL D(n, w) == B!Digits(n, w)

Block == 16
SignatureLen == 40
NoIdentity == [key |-> <<>>, signing |-> <<>>, certificate |-> [type |-> 0, payload |-> <<>>]]

-----------------------------------------------------------------------------
(* What the library computes.                                              *)

\* SHA-256 of an identity, ideally: enough of it to tell identities apart.
Hash(identity) == SubSeq(identity.key, 1, SessionLen)

Power(b, e) == LET p[n \in 0 .. e] == IF n = 0 THEN 1 ELSE (p[n - 1] * b) % Prime IN p[e]

\* DSA over SHA-1, ideally: bytes that depend on the signer and on all of the data.
DsaSignature(identity, data) ==
  LET byte(n) == IF n <= Len(data) THEN data[n] ELSE 0
  IN  [n \in 1 .. SignatureLen |->
         (identity.signing[1] + byte(n) + 3 * byte(n + SignatureLen) + 5 * Len(data)) % 256]

\* A cipher in place of AES: whole blocks, and the text depends on key, IV and place.
Stream(key, iv, n) == 7 * B!Number(key) + 13 * iv + n * n
Aes(key, iv, text) == [n \in 1 .. Len(text) |-> (text[n] + Stream(key, iv, n)) % 256]
AesOpen(key, iv, text) == [n \in 1 .. Len(text) |-> (text[n] - Stream(key, iv, n)) % 256]

\* The MAC of I2PHMAC tells its key and what it was computed over.
Hmac(key, data) == [key |-> key, data |-> data]

-----------------------------------------------------------------------------
(* Packet: [mac, iv, data].                                                *)

Padded(b) ==
  LET pad == Block - (Len(b) % Block)
  IN  IF pad < Block THEN b \o [n \in 1 .. pad |-> pad] ELSE b

PacketMac(c, iv, mk) == Hmac(mk, [cipher |-> c, iv |-> iv, size |-> D(Len(c), 2)])

Encrypt(b, iv, sk, mk) ==
  LET c == Aes(sk, iv, Padded(b)) IN [mac |-> PacketMac(c, iv, mk), iv |-> iv, data |-> c]

VerifyPacket(p, mk) == p.mac = PacketMac(p.data, p.iv, mk)

Decrypt(p, sk) == AesOpen(sk, p.iv, p.data)

-----------------------------------------------------------------------------
(* EstablishmentState.                                                     *)

MyDH(es) == D(Power(Generator, es.secret), DhLen)

\* Who connects knows the other router; who is connected to takes its own hash as key.
Outbound(me, secret, ep, peer) ==
  [me |-> me, peer |-> peer, secret |-> secret, theirDH |-> <<>>, theirEp |-> ep, myEp |-> ep,
   relayTag |-> 0, ts |-> 0, signature |-> <<>>, iv |-> 0, dhSecret |-> <<>>,
   sessionKey |-> Hash(peer), macKey |-> Hash(peer), at |-> "UNKNOWN"]

Inbound(me, secret, ep) ==
  [Outbound(me, secret, ep, me) EXCEPT !.peer = NoIdentity]

EndpointBytes(ep) == ep.ip \o D(ep.port, 2)

SignedData(dh1, dh2, ep1, ep2, tag, ts) ==
  dh1 \o dh2 \o EndpointBytes(ep1) \o EndpointBytes(ep2) \o D(tag, 4) \o D(ts, 4)

\* Both signatures cover the values of the router that connects first.
CreationSignature(es, ts) ==
  Aes(SubSeq(es.dhSecret, 1, SessionLen), es.iv,
      Padded(DsaSignature(es.me, SignedData(es.theirDH, MyDH(es), es.theirEp, es.myEp,
                                            es.relayTag, ts))))

ConfirmationSignature(es, ts) ==
  DsaSignature(es.me, SignedData(MyDH(es), es.theirDH, es.myEp, es.theirEp, es.relayTag, ts))

\* Wrong check: the addresses are taken in the order of the confirmation.
VerifyCreationSwapped(es) ==
  LET sig == AesOpen(SubSeq(es.dhSecret, 1, SessionLen), es.iv, es.signature)
  IN  SubSeq(sig, 1, Len(sig) - 8)
      = DsaSignature(es.peer, SignedData(MyDH(es), es.theirDH, es.theirEp, es.myEp, es.relayTag, es.ts))

\* The padding that makes the signature whole blocks is cut off again.
VerifyCreation(es) ==
  LET sig == AesOpen(SubSeq(es.dhSecret, 1, SessionLen), es.iv, es.signature)
  IN  SubSeq(sig, 1, Len(sig) - 8)
      = DsaSignature(es.peer, SignedData(MyDH(es), es.theirDH, es.myEp, es.theirEp, es.relayTag, es.ts))

VerifyConfirmation(es) ==
  es.signature
  = DsaSignature(es.peer, SignedData(es.theirDH, MyDH(es), es.theirEp, es.myEp, es.relayTag, es.ts))

\* A first byte with its high bit set gets a zero before it.
CalculateDHSecret(es) ==
  LET s == D(Power(B!Number(es.theirDH), es.secret), DhLen)
  IN  [es EXCEPT !.dhSecret = IF s[1] >= 128 THEN <<0>> \o s ELSE s]

\* The keys of the session, from the secret.
Rekey(es) ==
  [es EXCEPT !.sessionKey = SubSeq(es.dhSecret, 1, SessionLen),
             !.macKey = SubSeq(es.dhSecret, SessionLen + 1, 2 * SessionLen)]

-----------------------------------------------------------------------------
(* PacketBuilder.  now is the clock.                                       *)

REQUEST == 0
CREATED == 1
CONFIRMED == 2

BuildHeader(type, now) == <<type * 16>> \o D(now, 4)

SizedEndpoint(ep) == D(Len(ep.ip), 1) \o EndpointBytes(ep)

BuildSessionRequest(es, now) ==
  BuildHeader(REQUEST, now) \o MyDH(es) \o SizedEndpoint(es.theirEp)

BuildSessionCreated(es, now) ==
  BuildHeader(CREATED, now) \o MyDH(es) \o SizedEndpoint(es.theirEp)
  \o D(es.relayTag, 4) \o D(now, 4) \o CreationSignature(es, now)

\* Nine bytes of filler make this whole blocks for an identity of 387 bytes.
BuildSessionConfirmed(es, now) ==
  LET id == T!IdentityBytes(es.me)
  IN  BuildHeader(CONFIRMED, now) \o <<1>> \o D(Len(id), 2) \o id \o D(now, 4)
      \o [n \in 1 .. 9 |-> 0] \o ConfirmationSignature(es, now)

-----------------------------------------------------------------------------
(* EstablishmentManager and PacketHandler.  Sending gives the state and    *)
(* the packet; a packet whose MAC is wrong, whose type is not the one      *)
(* awaited or that cannot be parsed leaves the state as it is.             *)

SendRequest(es, iv, now) ==
  [es |-> [es EXCEPT !.at = "REQUEST_SENT"],
   packet |-> Encrypt(BuildSessionRequest(es, now), iv, es.sessionKey, es.macKey)]

\* [ep, at]: an address has 4 or 16 bytes.
ParseEndpoint(b, at) ==
  B!Then(B!ParseSized(b, at, 1), LAMBDA ip :
    IF Len(ip.v) \notin {4, 16} THEN B!Thrown
    ELSE B!Then(B!ParseUint(b, ip.at, 2), LAMBDA port :
           B!Parsed([ip |-> ip.v, port |-> port.v], port.at)))

\* What follows the flag and the time, when the packet is of that type.
Body(es, p, type) ==
  LET b == Decrypt(p, es.sessionKey)
  IN  IF VerifyPacket(p, es.macKey) /\ b[1] \div 16 = type
      THEN SubSeq(b, 6, Len(b)) ELSE <<>>

HandleSessionRequest(es, p) ==
  LET b == Body(es, p, REQUEST)
      ep == ParseEndpoint(b, DhLen + 1)
      s == [es EXCEPT !.theirDH = SubSeq(b, 1, DhLen)]
  IN  IF b = <<>> THEN es
      ELSE IF ep.at = 0 THEN s
      ELSE [s EXCEPT !.myEp = ep.v, !.relayTag = 0, !.at = "REQUEST_RECEIVED"]

\* The router that connects keeps the IV of every packet whose MAC is right.
HandleSessionCreated(es, p) ==
  LET b == Body(es, p, CREATED)
      ep == ParseEndpoint(b, DhLen + 1)
      num(at) == B!ParseUint(b, at, 4).v
      i == IF VerifyPacket(p, es.macKey) THEN [es EXCEPT !.iv = p.iv] ELSE es
      s == [i EXCEPT !.theirDH = SubSeq(b, 1, DhLen)]
  IN  IF b = <<>> \/ es.at # "REQUEST_SENT" THEN i
      ELSE IF ep.at = 0 THEN s
      ELSE [s EXCEPT !.myEp = ep.v, !.relayTag = num(ep.at), !.ts = num(ep.at + 4),
                     !.signature = SubSeq(b, ep.at + 8, ep.at + 55), !.at = "CREATED_RECEIVED"]

\* The signature is what the decrypted packet ends with.
HandleSessionConfirmed(es, p) ==
  LET b == Body(es, p, CONFIRMED)
      id == T!ParseIdentity(b, 4)
  IN  IF b = <<>> \/ es.at # "CREATED_SENT" \/ id.at = 0 THEN es
      ELSE [es EXCEPT !.peer = id.v, !.ts = B!ParseUint(b, id.at, 4).v,
                      !.signature = SubSeq(b, Len(b) - SignatureLen + 1, Len(b)),
                      !.at = "CONFIRMED_RECEIVED"]

\* The IV of the signature is also that of the packet, which goes out under the old keys.
ProcessRequest(es, iv, now) ==
  LET s == [CalculateDHSecret(es) EXCEPT !.iv = iv]
  IN  [es |-> [Rekey(s) EXCEPT !.at = "CREATED_SENT"],
       packet |-> Encrypt(BuildSessionCreated(s, now), iv, s.sessionKey, s.macKey)]

ProcessCreated(es, iv, now) ==
  LET s == CalculateDHSecret(es)
      k == Rekey(s)
  IN  IF VerifyCreation(s)
      THEN [es |-> [k EXCEPT !.at = "CONFIRMED_SENT"],
            packet |-> Encrypt(BuildSessionConfirmed(k, now), iv, k.sessionKey, k.macKey)]
      ELSE [es |-> [s EXCEPT !.at = "FAILURE"], packet |-> Encrypt(<<>>, iv, <<>>, <<>>)]

ProcessConfirmed(es) ==
  [es EXCEPT !.at = IF VerifyConfirmation(es) THEN "ESTABLISHED" ELSE "FAILURE"]
=============================================================================
