----------------------------- MODULE WsProcessor -----------------------------
(***************************************************************************)
(* The protocol processors of websocketpp: hybi13 (also used for 7 and 8)  *)
(* and hybi00.  A processor turns a stream of bytes, in whatever pieces it *)
(* comes, into messages, and messages into frames.                         *)
(***************************************************************************)
EXTENDS WsFrame

CONSTANT MaxMessageSize     \* config::max_message_size

\* A message being read: no message has the opcode 16.
NoMsg == [op |-> 16, payload |-> <<>>, key |-> <<>>, utf |-> 0]
NewMsg(op, key) == [op |-> op, payload |-> <<>>, key |-> PrepareMaskingKey(key), utf |-> 0]

\* hybi13::reset_headers
ResetHeaders(p) == [p EXCEPT !.state = "HEADER_BASIC", !.needed = 2, !.hdr = <<>>, !.ext = <<>>]

\* The constructors.  cur says which of the two messages m_current_msg is.
NewProcessor(version, server) ==
    LET p == [version |-> version, server |-> server, state |-> "HEADER", needed |-> 1,
              hdr |-> <<>>, ext |-> <<>>, data |-> NoMsg, ctl |-> NoMsg, cur |-> "data"]
    IN  IF version = 0 THEN p ELSE ResetHeaders(p)

(***************************************************************************)
(* Reading                                                                 *)
(***************************************************************************)

\* validate_incoming_basic_header; permessage_deflate is disabled.
ValidateIncomingBasicHeader(h, server, newMsg) ==
    LET op == GetOpcode(h)
    IN  CASE IsControl(op) /\ GetBasicSize(h) > PayloadSizeBasic -> "control_too_big"
          [] GetRsv1(h) \/ GetRsv2(h) \/ GetRsv3(h) -> "invalid_rsv_bit"
          [] Reserved(op) -> "invalid_opcode"
          [] IsControl(op) /\ ~GetFin(h) -> "fragmented_control"
          [] newMsg /\ op = CONTINUATION -> "invalid_continuation"
          [] ~newMsg /\ ~IsControl(op) /\ op # CONTINUATION -> "invalid_continuation"
          [] server /\ ~GetMasked(h) -> "masking_required"
          [] ~server /\ GetMasked(h) -> "masking_forbidden"
          [] OTHER -> "none"

\* validate_incoming_extended_header
ValidateIncomingExtendedHeader(h, e) ==
    IF \/ GetBasicSize(h) = Code16 /\ GetPayloadSize(h, e) <= PayloadSizeBasic
       \/ GetBasicSize(h) = Code64 /\ GetPayloadSize(h, e) <= PayloadSizeExtended
    THEN "non_minimal_encoding" ELSE "none"

\* A call of consume is at s: the processor, the bytes left and the error.
At(p, buf, ec) == [p |-> p, buf |-> buf, ec |-> ec]
Left(buf, n) == SubSeq(buf, n + 1, Len(buf))
Least(a, b) == IF a < b THEN a ELSE b

\* copy_basic_header_bytes and the branch of consume that calls it
ConsumeBasicHeader(s) ==
    LET n == Least(s.p.needed, Len(s.buf))
        p == [s.p EXCEPT !.hdr = @ \o SubSeq(s.buf, 1, n), !.needed = @ - n]
        ec == ValidateIncomingBasicHeader(p.hdr, p.server, p.data = NoMsg)
        rest == Left(s.buf, n)
    IN  IF p.needed > 0 THEN At(p, rest, "none")
        ELSE IF ec # "none" THEN At(p, rest, ec)
        ELSE At([p EXCEPT !.state = "HEADER_EXTENDED", !.needed = GetHeaderLen(p.hdr) - 2],
                rest, "none")

\* Wrong: a frame that continues a message starts it over.
StartPayloadAnew(p, size) ==
    LET op == GetOpcode(p.hdr)
        key == GetMaskingKey(p.hdr, p.ext)
    IN  IF IsControl(op) THEN [p EXCEPT !.ctl = NewMsg(op, key), !.cur = "ctl"]
        ELSE [p EXCEPT !.data = [NewMsg(op, key) EXCEPT !.op = IF p.data = NoMsg THEN op ELSE p.data.op],
                       !.cur = "data"]

\* The end of a header: a control message, a new data message or the next
\* part of the one that is open.
StartPayload(p, size) ==
    LET op == GetOpcode(p.hdr)
        key == GetMaskingKey(p.hdr, p.ext)
    IN  IF IsControl(op) THEN [p EXCEPT !.ctl = NewMsg(op, key), !.cur = "ctl"]
        ELSE IF p.data = NoMsg THEN [p EXCEPT !.data = NewMsg(op, key), !.cur = "data"]
        ELSE [p EXCEPT !.data.key = PrepareMaskingKey(key), !.cur = "data"]

\* copy_extended_header_bytes and the branch of consume that calls it
ConsumeExtendedHeader(s) ==
    LET n == Least(s.p.needed, Len(s.buf))
        p == [s.p EXCEPT !.ext = @ \o SubSeq(s.buf, 1, n), !.needed = @ - n]
        size == GetPayloadSize(p.hdr, p.ext)
        ec == ValidateIncomingExtendedHeader(p.hdr, p.ext)
        q == [p EXCEPT !.state = "APPLICATION", !.needed = size]
        held == IF q.data = NoMsg THEN 0 ELSE Len(q.data.payload)
        rest == Left(s.buf, n)
    IN  IF p.needed > 0 THEN At(p, rest, "none")
        ELSE IF ec # "none" THEN At(p, rest, ec)
        ELSE IF ~IsControl(GetOpcode(q.hdr)) /\ held + size > MaxMessageSize
        THEN At(q, rest, "message_too_big")
        ELSE At(StartPayload(q, size), rest, "none")

\* process_payload_bytes on the message that is being read
ProcessPayloadBytes(p, bytes) ==
    LET m == IF p.cur = "ctl" THEN p.ctl ELSE p.data
        un == IF GetMasked(p.hdr) THEN WordMaskCirc(bytes, m.key) ELSE [out |-> bytes, key |-> m.key]
        utf == IF m.op = TEXT THEN Utf8Decode(m.utf, un.out) ELSE m.utf
        done == [m EXCEPT !.payload = @ \o un.out, !.key = un.key, !.utf = utf]
        q == IF p.cur = "ctl" THEN [p EXCEPT !.ctl = done] ELSE [p EXCEPT !.data = done]
    IN  IF utf = 1 THEN [p |-> q, ec |-> "invalid_utf8"]
        ELSE [p |-> [q EXCEPT !.needed = @ - Len(bytes)], ec |-> "none"]

\* The branch of consume for the payload.  A text message of several frames
\* ends with a frame of type CONTINUATION, whose end is not checked.
ConsumePayload(s) ==
    LET n == Least(s.p.needed, Len(s.buf))
        r == IF n > 0 THEN ProcessPayloadBytes(s.p, SubSeq(s.buf, 1, n)) ELSE [p |-> s.p, ec |-> "none"]
        m == IF r.p.cur = "ctl" THEN r.p.ctl ELSE r.p.data
        rest == Left(s.buf, n)
    IN  IF r.ec # "none" THEN At(r.p, s.buf, r.ec)
        ELSE IF r.p.needed > 0 THEN At(r.p, rest, "none")
        ELSE IF ~GetFin(r.p.hdr) THEN At(ResetHeaders(r.p), rest, "none")
        ELSE IF GetOpcode(r.p.hdr) = TEXT /\ m.utf # 0 THEN At(r.p, rest, "invalid_utf8")
        ELSE At([r.p EXCEPT !.state = "READY"], rest, "none")

\* hybi13::consume, one turn of its loop
ConsumeTurn13(s) ==
    CASE s.p.state = "HEADER_BASIC" -> ConsumeBasicHeader(s)
      [] s.p.state = "HEADER_EXTENDED" -> ConsumeExtendedHeader(s)
      [] OTHER -> ConsumePayload(s)

\* hybi00::consume, one turn: a message is what lies between 0x00 and 0xff.
ConsumeTurn00(s) ==
    LET ends == {i \in DOMAIN s.buf : s.buf[i] = 255}
        n == IF ends = {} THEN Len(s.buf) ELSE CHOOSE i \in ends : \A j \in ends : i <= j
        body == IF ends = {} THEN s.buf ELSE SubSeq(s.buf, 1, n - 1)
        q == [s.p EXCEPT !.data.payload = @ \o body]
    IN  IF s.p.state = "HEADER"
        THEN IF Head(s.buf) = 0
             THEN At([s.p EXCEPT !.state = "PAYLOAD", !.data = [NoMsg EXCEPT !.op = TEXT]],
                     Tail(s.buf), "none")
             ELSE At([s.p EXCEPT !.state = "FATAL_ERROR"], s.buf, "protocol_violation")
        ELSE At(IF ends = {} THEN q ELSE [q EXCEPT !.state = "READY"], Left(s.buf, n), "none")

\* The processor's consume: until a message is ready, an error is met or more
\* bytes are needed.
RECURSIVE ConsumeFrom(_)
ConsumeFrom(s) ==
    IF \/ s.ec # "none" \/ s.p.state \in {"READY", "FATAL_ERROR"}
       \/ s.buf = <<>> /\ (s.p.version = 0 \/ s.p.needed > 0)
    THEN s
    ELSE ConsumeFrom(IF s.p.version = 0 THEN ConsumeTurn00(s) ELSE ConsumeTurn13(s))

Consume(p, buf) == ConsumeFrom(At(p, buf, "none"))

\* get_message: the message and the processor without it
GetMessage(p) ==
    LET m == IF p.cur = "ctl" THEN p.ctl ELSE p.data
        q == IF p.cur = "ctl" THEN [p EXCEPT !.ctl = NoMsg] ELSE [p EXCEPT !.data = NoMsg]
    IN  [msg |-> [op |-> m.op, payload |-> m.payload],
         p |-> IF p.version = 0 THEN [q EXCEPT !.state = "HEADER"] ELSE ResetHeaders(q)]

(***************************************************************************)
(* Writing                                                                 *)
(***************************************************************************)

Prepared(ec, bytes) == [ec |-> ec, bytes |-> bytes]

\* masked_copy and the headers, as prepare_data_frame and prepare_control do
Prepare(server, op, payload, fin, key) ==
    LET h == BasicHeader(op, Len(payload), fin, ~server, FALSE)
    IN  IF server THEN PrepareHeader(h, ExtendedHeader(Len(payload), <<>>)) \o payload
        ELSE PrepareHeader(h, ExtendedHeader(Len(payload), key)) \o WordMaskExact(payload, key)

\* prepare_data_frame of hybi13 and of hybi00
PrepareDataFrame(version, server, op, payload, fin, key) ==
    IF version = 0
    THEN IF op # TEXT THEN Prepared("invalid_opcode", <<>>)
         ELSE IF ~Utf8Validate(payload) THEN Prepared("invalid_payload", <<>>)
         ELSE Prepared("none", <<0>> \o payload \o <<255>>)
    ELSE IF IsControl(op) THEN Prepared("invalid_opcode", <<>>)
    ELSE IF op = TEXT /\ ~Utf8Validate(payload) THEN Prepared("invalid_payload", <<>>)
    ELSE Prepared("none", Prepare(server, op, payload, fin, key))

\* prepare_control
PrepareControl(server, op, payload, key) ==
    IF ~IsControl(op) THEN Prepared("invalid_opcode", <<>>)
    ELSE IF Len(payload) > PayloadSizeBasic THEN Prepared("control_too_big", <<>>)
    ELSE Prepared("none", Prepare(server, op, payload, TRUE, key))
=============================================================================
