---------------------------------- MODULE I2NP ----------------------------------
(***************************************************************************)
(* I2NP messages on the wire: Message::toBytes and fromBytes with their    *)
(* two headers, and compile and parse of every message type.  Half of the  *)
(* types are only written or only read: DatabaseLookup is never parsed,    *)
(* DatabaseSearchReply never compiled, Garlic neither.                     *)
(***************************************************************************)
EXTENDS Datatypes

CONSTANTS HashLen,    \* bytes of a hash: 32
          RecordLen,  \* bytes of a BuildRecord: 16 + 512
          BlockLen    \* bytes of a tunnel message: 1024

Types == {"DatabaseStore", "DatabaseLookup", "DatabaseSearchReply", "DeliveryStatus", "Garlic",
          "TunnelData", "TunnelGateway", "VariableTunnelBuild", "VariableTunnelBuildReply"}

\* Message::Type
Code(type) ==
  CASE type = "DatabaseStore" -> 1
    [] type = "DatabaseLookup" -> 2
    [] type = "DatabaseSearchReply" -> 3
    [] type = "DeliveryStatus" -> 10
    [] type = "Garlic" -> 11
    [] type = "TunnelData" -> 18
    [] type = "TunnelGateway" -> 19
    [] type = "VariableTunnelBuild" -> 23
    [] type = "VariableTunnelBuildReply" -> 24

-----------------------------------------------------------------------------
(* The payloads.  x is the content of the message, a record.               *)

StatusBytes(x) == Digits(x.msgId, 4) \o DateBytes(x.timestamp)

ParseStatus(b, at) ==
  Then(ParseUint(b, at, 4), LAMBDA m :
    Then(ParseDate(b, m.at), LAMBDA d : Parsed([msgId |-> m.v, timestamp |-> d.v], d.at)))

LookupBytes(x) ==
  x.key \o x.from
  \o (IF x.sendReplyTo # 0 THEN <<1>> \o Digits(x.sendReplyTo, 4) ELSE <<0>>)
  \o Digits(Len(x.excluded), 2) \o FlattenSeq(x.excluded)

RouterInfoType == 0

\* The tunnel and the gateway that a reply token asks for are not written,
\* and a LeaseSet gets no size.
StoreBytes(x) ==
  x.key \o <<x.type>> \o Digits(x.replyToken, 4)
  \o (IF x.type = RouterInfoType THEN Digits(Len(x.data), 2) ELSE <<>>) \o x.data

ParseStore(b, at) ==
  Then(Take(b, at, HashLen), LAMBDA k :
    Then(ParseUint(b, k.at, 1), LAMBDA t :
      Then(ParseUint(b, t.at, 4), LAMBDA token :
        LET reply == IF token.v = 0 THEN 0 ELSE 4 + HashLen
        IN  Then(ParseSized(b, token.at + reply, 2), LAMBDA d :
              Parsed([key |-> k.v, type |-> t.v, replyToken |-> token.v, data |-> d.v], d.at)))))

ParseSearchReply(b, at) ==
  LET Hash(c, p) == Take(c, p, HashLen)
  IN  Then(Hash(b, at), LAMBDA k :
        Then(ParseUint(b, k.at, 1), LAMBDA n :
          Then(ParseMany(b, n.at, n.v, Hash), LAMBDA h :
            Then(Hash(b, h.at), LAMBDA f :
              Parsed([key |-> k.v, hashes |-> h.v, from |-> f.v], f.at)))))

BuildBytes(x) == Digits(Len(x.records), 1) \o FlattenSeq(x.records)

ParseRecord(b, at) == Take(b, at, RecordLen)

ParseBuild(b, at) ==
  Then(ParseUint(b, at, 1), LAMBDA n :
    Then(ParseMany(b, n.at, n.v, ParseRecord), LAMBDA r : Parsed([records |-> r.v], r.at)))

BuildReplyBytes(x) == Digits(Len(x.records), 1) \o FlattenSeq(x.records)

ParseBuildReply(b, at) ==
  Then(ParseUint(b, at, 1), LAMBDA n :
    Then(ParseMany(b, n.at, n.v, ParseRecord), LAMBDA r : Parsed([records |-> r.v], r.at)))

DataBytes(x) == Digits(x.tunnelId, 4) \o x.data

ParseData(b, at) ==
  IF Left(b, at) < 4 + BlockLen THEN Thrown
  ELSE Then(ParseUint(b, at, 4), LAMBDA t :
         Then(Take(b, t.at, BlockLen), LAMBDA d :
           Parsed([tunnelId |-> t.v, data |-> d.v], d.at)))

GatewayBytes(x) == Digits(x.tunnelId, 4) \o Digits(Len(x.data), 2) \o x.data

ParseGateway(b, at) ==
  Then(ParseUint(b, at, 4), LAMBDA t :
    Then(ParseSized(b, t.at, 2), LAMBDA d : Parsed([tunnelId |-> t.v, data |-> d.v], d.at)))

Compile(type, x) ==
  CASE type = "DatabaseStore" -> StoreBytes(x)
    [] type = "DatabaseLookup" -> LookupBytes(x)
    [] type = "DeliveryStatus" -> StatusBytes(x)
    [] type = "TunnelData" -> DataBytes(x)
    [] type = "TunnelGateway" -> GatewayBytes(x)
    [] type = "VariableTunnelBuild" -> BuildBytes(x)
    [] type = "VariableTunnelBuildReply" -> BuildReplyBytes(x)
    [] OTHER -> <<>>

ParsePayload(type, b, at) ==
  CASE type = "DatabaseStore" -> ParseStore(b, at)
    [] type = "DatabaseSearchReply" -> ParseSearchReply(b, at)
    [] type = "DeliveryStatus" -> ParseStatus(b, at)
    [] type = "TunnelData" -> ParseData(b, at)
    [] type = "TunnelGateway" -> ParseGateway(b, at)
    [] type = "VariableTunnelBuild" -> ParseBuild(b, at)
    [] type = "VariableTunnelBuildReply" -> ParseBuildReply(b, at)
    [] OTHER -> Parsed(<<>>, at)

-----------------------------------------------------------------------------
\* The first byte of SHA-256; no one verifies it.
Checksum(b) == FoldLeft(LAMBDA x, d : (x + d) % Base, 0, b)

\* [type, msgId, x].  The short header has an expiration and no id.
ToBytes(m, standard, now) ==
  LET b == Compile(m.type, m.x)
  IN  <<Code(m.type)>>
      \o (IF standard
          THEN Digits(m.msgId, 4) \o DateBytes(now) \o Digits(Len(b), 2) \o <<Checksum(b)>>
          ELSE Digits(now + 60, 4))
      \o b

\* Wrong header: the checksum is not skipped.
HeaderUnchecked(b) ==
  Then(ParseUint(b, 2, 4), LAMBDA m :
    Then(ParseDate(b, m.at), LAMBDA d :
      Then(ParseUint(b, d.at, 2), LAMBDA n :
        IF Left(b, n.at) # n.v THEN Thrown ELSE Parsed(m.v, n.at))))

\* The standard header: the message id, and where the payload begins.
Header(b) ==
  Then(ParseUint(b, 2, 4), LAMBDA m :
    Then(ParseDate(b, m.at), LAMBDA d :
      Then(ParseUint(b, d.at, 2), LAMBDA n :
        IF Left(b, n.at + 1) # n.v THEN Thrown ELSE Parsed(m.v, n.at + 1))))

\* A type that is not known gives no message.
NoMessage == Parsed("null", 0)

FromBytes(msgId, b, standard) ==
  LET known == {t \in Types : Code(t) = b[1]}
      type == CHOOSE t \in known : TRUE
      h == IF standard THEN Header(b)
           ELSE Then(ParseUint(b, 2, 4), LAMBDA e : Parsed(msgId, e.at))
  IN  Then(h, LAMBDA m :
        IF known = {} THEN NoMessage
        ELSE Then(ParsePayload(type, b, m.at), LAMBDA p :
               Parsed([type |-> type, msgId |-> m.v, x |-> p.v], p.at)))
=============================================================================
