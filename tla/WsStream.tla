------------------------------- MODULE WsStream -------------------------------
(***************************************************************************)
(* A WebSocket connection as two streams of bytes, which the transport     *)
(* hands over in pieces of any size: the request and the response of the   *)
(* opening handshake, then frames.  Either end may be another              *)
(* implementation.  WsConnection models the same handlers with their       *)
(* timers, their closing and their failures; here are the bytes.           *)
(***************************************************************************)
EXTENDS WsProcessor, WsHttp

CONSTANTS
    Requests,   \* what a client asks, with the choices the server's application
                \* may make, the answers a foreign server may give and whether
                \* frames follow: [kind, old, raw, uri, protocols, key, choices,
                \* answers, talk]
    Frames,     \* frames that may be sent once a connection is open
    MaxFrames,  \* bound: frames on one connection
    Key3Len     \* bytes after a request of version 0, 8 in the code

VARIABLES
    req,        \* the request of this connection
    choice,     \* the subprotocol the server's application would like
    reader,     \* what each end has made of what it has read
    pipe,       \* bytes on their way to each end
    hist,       \* the bytes each end has read
    sent,       \* the frames that have been sent, by talker
    talker
vars == <<req, choice, reader, pipe, hist, sent, talker>>

Ends == {"client", "server"}
Other(e) == IF e = "client" THEN "server" ELSE "client"

\* stage: the handshake, frames, refused (by this end) or foreign.
NewReader(http) ==
    [stage |-> "http", http |-> http, proc |-> NewProcessor(13, FALSE), got |-> <<>>, ec |-> "none",
     reply |-> <<>>, uri |-> NoUri, protocols |-> <<>>, subprotocol |-> <<>>]

\* connection::handle_read_frame: consume until the bytes are used up or one of
\* them is refused.
RECURSIVE HandleReadFrame(_, _), Consumed(_, _)
HandleReadFrame(r, bytes) == IF bytes = <<>> THEN r ELSE Consumed(r, Consume(r.proc, bytes))
Consumed(r, c) ==
    LET g == GetMessage(c.p)
    IN  IF c.ec # "none" THEN [r EXCEPT !.stage = "refused", !.proc = c.p, !.ec = c.ec]
        ELSE IF c.p.state = "READY"
        THEN HandleReadFrame([r EXCEPT !.proc = g.p, !.got = Append(@, g.msg)], c.buf)
        ELSE HandleReadFrame([r EXCEPT !.proc = c.p], c.buf)

\* select_subprotocol
SelectSubprotocol(requested, wanted) ==
    IF \E i \in DOMAIN requested : requested[i] = wanted THEN wanted ELSE <<>>

\* send_http_response and send_http_response_error
SendHttpResponse(r, res) ==
    [r EXCEPT !.reply = RawResponse(ReplaceHeader([res EXCEPT !.version = <<HTTP11>>], ServerName, <<1041>>)),
              !.stage = IF res.status = 101 THEN "frames" ELSE "refused"]

Status(code) == [NewResponse EXCEPT !.status = code]

\* process_handshake_request: a request that is no handshake is answered as
\* plain HTTP; what an application wants is taken if the client asked for it.
AnswerHandshake(r, m, version, uri, requested, wanted) ==
    LET chosen == SelectSubprotocol(requested, wanted)
        q == [r EXCEPT !.uri = uri, !.protocols = requested, !.subprotocol = chosen,
                       !.proc = NewProcessor(version, TRUE)]
    IN  IF ~IsWebsocketHandshake(m) THEN SendHttpResponse(r, Status(IF uri.valid THEN 426 ELSE 400))
        ELSE IF \/ ~ValidateHandshake(m, version)
                \/ version # 0 /\ ~GetHeaderAsPlist(m, SecExtensions).ok
                \/ ~uri.valid
        THEN SendHttpResponse(r, Status(400))
        ELSE IF version = 0 THEN SendHttpResponse(q, ProcessHandshake00(m, chosen, Status(101)))
        ELSE SendHttpResponse(q, ProcessHandshake13(m, chosen, Status(101)))

ProcessHandshakeRequest(r, m, wanted) ==
    AnswerHandshake(r, m, GetWebsocketVersion(m), GetUriFromHost(m, FALSE),
                    IF GetWebsocketVersion(m) = 0 THEN <<>> ELSE ExtractSubprotocols(m), wanted)

\* handle_send_http_response: an end that is open reads on.
ReadOn(r, rest) == IF r.stage = "frames" THEN HandleReadFrame(r, rest) ELSE r

\* handle_read_handshake, with initialize_processor.  The bytes that follow
\* the request are frames, or first the third key of version 0.
RequestRead(r, c, wanted) ==
    LET q == [r EXCEPT !.http = c.m]
        ws == IsWebsocketHandshake(c.m)
        version == GetWebsocketVersion(c.m)
        old == ws /\ version = 0
        m == IF old THEN ReplaceHeader(c.m, SecKey3, SubSeq(c.rest, 1, Key3Len)) ELSE c.m
    IN  IF c.m.threw # 0 THEN SendHttpResponse(q, Status(c.m.threw))
        ELSE IF c.m.state # "DONE" THEN q
        ELSE IF ws /\ version \notin VersionsSupported THEN SendHttpResponse(q, Status(400))
        ELSE IF old /\ Len(c.rest) < Key3Len THEN SendHttpResponse(q, Status(500))
        ELSE ReadOn(ProcessHandshakeRequest(q, m, wanted), IF old THEN Drop(c.rest, Key3Len) ELSE c.rest)

HandleReadHandshake(r, chunk, wanted) == RequestRead(r, RequestConsume(r.http, chunk), wanted)

\* handle_read_http_response: the rest of the bytes are frames.
ResponseRead(r, c, asked) ==
    LET q == [r EXCEPT !.http = c.m, !.subprotocol = GetHeader(c.m, SecProtocol)]
    IN  IF c.m.threw # 0 THEN [q EXCEPT !.stage = "refused"]
        ELSE IF ~HeadersReady(c.m) THEN [r EXCEPT !.http = c.m]
        ELSE IF ~ValidateServerHandshakeResponse(asked, c.m) THEN [q EXCEPT !.stage = "refused"]
        ELSE HandleReadFrame([q EXCEPT !.stage = "frames"], c.rest)

HandleReadHttpResponse(r, chunk, asked) == ResponseRead(r, ResponseConsume(r.http, chunk), asked)

\* The request of websocketpp's client
Asked(q) == ClientHandshakeRequest(q.uri, q.protocols, q.key)

Feed(e, r, chunk) ==
    CASE r.stage = "frames" -> HandleReadFrame(r, chunk)
      [] r.stage = "http" /\ e = "server" -> HandleReadHandshake(r, chunk, choice)
      [] r.stage = "http" /\ e = "client" -> HandleReadHttpResponse(r, chunk, Asked(req))
      [] OTHER -> r

\* The bytes of a frame: the library prepares its own; another
\* implementation may set any flag and any form of the length.
Bytes(f, server) ==
    CASE f.by = "library" /\ IsControl(f.op) -> PrepareControl(server, f.op, f.payload, f.key)
      [] f.by = "library" /\ ~IsControl(f.op) ->
            PrepareDataFrame(IF req.old THEN 0 ELSE 13, server, f.op, f.payload, f.fin, f.key)
      [] f.by = "foreign" /\ req.old ->
            Prepared("none", <<0>> \o f.payload \o <<255>>)
      [] OTHER ->
            LET mask == server = f.odd
                code == CASE f.code = "least" -> BasicHeader(0, Len(f.payload), TRUE, FALSE, FALSE)[2]
                          [] f.code = "16" -> Code16
                          [] OTHER -> Code64
                h == <<128 * Bit(f.fin) + 16 * f.rsv + f.op, 128 * Bit(mask) + code>>
                size == CASE code = Code16 -> Digits(Len(f.payload), 2)
                          [] code = Code64 -> Digits(Len(f.payload), 8)
                          [] OTHER -> <<>>
            IN  Prepared("none", h \o size \o (IF mask THEN f.key \o WordMaskExact(f.payload, f.key)
                                               ELSE f.payload))

Lengths == [i \in DOMAIN sent |-> Len(Bytes(sent[i], talker = "server").bytes)]
Total(lengths) == FoldLeft(LAMBDA a, b : a + b, 0, lengths)

\* The sizes a read may have.  Bound: with frames behind it, a handshake is
\* torn only at its last two bytes; without, anywhere.
Pieces(e) ==
    LET shake == IF sent = <<>> \/ e = talker THEN 1 ELSE Len(pipe[e]) - Total(Lengths) - 1
    IN  {n \in 1 .. Len(pipe[e]) : n >= shake}

\* The transport delivers some of the bytes that are there.
Read(e) ==
    /\ reader[e].stage \in {"http", "frames"}
    /\ \E n \in Pieces(e) :
          LET reply == IF reader[e].reply = <<>> THEN reader'[e].reply ELSE <<>>
          IN  /\ reader' = [reader EXCEPT ![e] = Feed(e, @, SubSeq(pipe[e], 1, n))]
              /\ hist' = [hist EXCEPT ![e] = @ \o SubSeq(pipe[e], 1, n)]
              /\ pipe' = [pipe EXCEPT ![e] = Drop(@, n), ![Other(e)] = @ \o reply]
    /\ UNCHANGED <<req, choice, sent, talker>>

\* What RFC 6455 allows after the messages and the open message of st.
Lawful(st, f) ==
    LET text == (IF st.open = <<>> THEN f.op ELSE st.open[1].op) = TEXT
        whole == (IF st.open = <<>> THEN <<>> ELSE st.open[1].payload) \o f.payload
    IN  /\ f.rsv = 0 /\ f.op \in {CONTINUATION, TEXT, BINARY, CLOSE, PING, PONG}
        /\ ~f.odd
        /\ f.code = "16" => Len(f.payload) > PayloadSizeBasic
        /\ f.code = "64" => Len(f.payload) > PayloadSizeExtended
        /\ IF IsControl(f.op) THEN f.fin /\ f.code = "least" /\ Len(f.payload) <= PayloadSizeBasic
           ELSE /\ f.op = CONTINUATION <=> st.open # <<>>
                /\ Len(whole) <= MaxMessageSize
                /\ text => Utf8Decode(0, whole) # 1 /\ (f.fin => Utf8Validate(whole))

\* The messages a sequence of frames makes up, up to the first unlawful one.
Reference(fs) ==
    FoldLeft(LAMBDA st, f :
                IF st.bad \/ ~Lawful(st, f) THEN [st EXCEPT !.bad = TRUE]
                ELSE IF IsControl(f.op)
                THEN [st EXCEPT !.got = Append(@, [op |-> f.op, payload |-> f.payload])]
                ELSE LET m == IF st.open = <<>> THEN [op |-> f.op, payload |-> f.payload]
                              ELSE [st.open[1] EXCEPT !.payload = @ \o f.payload]
                     IN  IF f.fin THEN [st EXCEPT !.got = Append(@, m), !.open = <<>>]
                         ELSE [st EXCEPT !.open = <<m>>],
             [open |-> <<>>, got |-> <<>>, bad |-> FALSE], fs)

\* The end that talks sends a frame, before the other end reads on: reads take
\* any part of what is there, so frames sent later make no other reads.  Bound:
\* its first unlawful frame is its last.
Send ==
    /\ req.talk /\ Len(sent) < MaxFrames /\ ~Reference(sent).bad
    /\ reader[talker].stage \in {"frames", "foreign"}
    /\ hist[Other(talker)] = IF req.kind = "library" /\ talker = "client" THEN RawRequest(Asked(req)) ELSE <<>>
    /\ \E f \in Frames :
          LET b == Bytes(f, talker = "server")
          IN  /\ f.by = "foreign" <=> reader[talker].stage = "foreign"
              /\ b.ec = "none"
              /\ sent' = Append(sent, f)
              /\ pipe' = [pipe EXCEPT ![Other(talker)] = @ \o b.bytes]
    /\ UNCHANGED <<req, choice, reader, hist, talker>>

Foreign == [NewReader(NewRequest) EXCEPT !.stage = "foreign"]

\* A client of the library, of another implementation, or one of the library
\* that another server answers.
Init ==
    /\ req \in Requests
    /\ choice \in req.choices
    /\ talker \in IF req.kind = "foreignClient" THEN {"client"}
                  ELSE IF req.kind = "foreignServer" THEN {"server"} ELSE Ends
    /\ reader = [client |-> IF req.kind = "foreignClient" THEN Foreign ELSE NewReader(NewResponse),
                 server |-> IF req.kind = "foreignServer" THEN Foreign ELSE NewReader(NewRequest)]
    /\ \E a \in req.answers :
          pipe = [client |-> a,
                  server |-> CASE req.kind = "library" -> RawRequest(Asked(req))
                               [] req.kind = "foreignClient" -> req.raw
                               [] OTHER -> <<>>]
    /\ hist = [client |-> <<>>, server |-> <<>>]
    /\ sent = <<>>

Next == (\E e \in Ends : Read(e)) \/ Send

Spec == Init /\ [][Next]_vars

(***************************************************************************)
(* Properties                                                              *)
(***************************************************************************)

\* Nothing is read that was not sent, and an end that has refused says why or
\* has answered.
TypeOK ==
    /\ req \in Requests /\ talker \in Ends /\ Len(sent) <= MaxFrames
    /\ \A e \in Ends :
          LET r == reader[e]
          IN  /\ r.stage \in {"http", "frames", "refused", "foreign"}
              /\ r.ec # "none" => r.stage = "refused"
              /\ e = "server" /\ r.stage = "refused" => r.reply # <<>>
              /\ r.proc.needed \in Nat /\ r.http.read \in Nat

\* What two readers have made of the same bytes.
SameReader(r, whole) ==
    /\ r.stage = whole.stage
    /\ r.stage # "refused" => r.proc = whole.proc
    /\ r.got = whole.got /\ r.ec = whole.ec /\ r.reply = whole.reply
    /\ r.http.headers = whole.http.headers

\* An end whose bytes are fed to it in pieces is in the state it would be in
\* had they come at once: no header line, length, key, mask, character or
\* message is torn by the end of a read (the consume methods of request,
\* response and the processors).  Version 0 wants its third key in the read
\* that ends the request, a header is only limited in each read, and of a
\* response that announces a body only what came with the header is body.
ChunkingIrrelevant ==
    \A e \in Ends :
        /\ reader[e].stage # "foreign"
        /\ Len(hist[e]) <= MaxHeaderSize
        /\ ~req.old
        /\ GetHeader(reader["client"].http, ContentLength) = <<>>
        /\ hist[e] # <<>>
        => SameReader(reader[e],
                      Feed(e, NewReader(IF e = "server" THEN NewRequest ELSE NewResponse), hist[e]))

\* Two ends of the library agree: once all is read either both or neither
\* consider the connection open, and then the server knows the URI and the
\* subprotocols that the client was given, and the client the one the server
\* chose, which it had asked for.
HandshakeAgrees ==
    req.kind = "library" =>
        /\ reader["client"].stage = "frames" =>
              /\ reader["server"].reply # <<>>
              /\ reader["server"].uri = req.uri
              /\ reader["server"].protocols = req.protocols
              /\ reader["client"].subprotocol = reader["server"].subprotocol
              /\ reader["client"].subprotocol \in {<<>>} \cup {req.protocols[i] : i \in DOMAIN req.protocols}
        /\ sent = <<>> /\ (\A e \in Ends : pipe[e] = <<>>) =>
              (reader["client"].stage = "frames" <=> reader["server"].stage = "frames")

\* The messages an end has been given are those the frames it has read make
\* up, whole and in order, control messages between the parts of a data
\* message included; it refuses a frame only if that frame is unlawful, and
\* an unlawful one it has read it has refused.
FramesAsSent ==
    LET e == Other(talker)
        r == reader[e]
        read == Total(Lengths) - Len(pipe[e])
        whole == Max({0} \cup {i \in DOMAIN sent : Total(SubSeq(Lengths, 1, i)) <= read})
        ref == Reference(SubSeq(sent, 1, whole))
        more == Reference(SubSeq(sent, 1, Least(whole + 1, Len(sent))))
    IN  sent # <<>> /\ (r.stage = "frames" \/ r.ec # "none") =>
            IF req.old
            THEN r.got = [i \in 1 .. whole |-> [op |-> TEXT, payload |-> sent[i].payload]]
            ELSE /\ r.got = ref.got
                 /\ ref.bad => r.stage = "refused"
                 /\ r.stage = "refused" => more.bad

\* Every text message that is delivered is valid UTF-8 to its end.
TextEndsOnCodePoint ==
    \A e \in Ends : \A i \in DOMAIN reader[e].got :
        reader[e].got[i].op = TEXT => Utf8Validate(reader[e].got[i].payload)
=============================================================================
