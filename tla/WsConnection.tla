---------------------------- MODULE WsConnection ----------------------------
(***************************************************************************)
(* A WebSocket connection of the console front end: the state machine of   *)
(* websocketpp/impl/connection_impl.hpp at both ends of one TCP stream,    *)
(* over the transport of WsTransport, with the console server of           *)
(* frontends/console/Server.cpp registering it and sending it statistics.  *)
(*                                                                         *)
(* Either end may be a foreign implementation, which sends units the       *)
(* library has to cope with.  The network loses nothing while it is up; it *)
(* may go silent or be reset at any time.                                  *)
(*                                                                         *)
(* A unit on the wire is a record [op, arg, n].  A request or a response is a *)
(* "head" and an "end" unit, so that it may arrive in two reads; a frame   *)
(* is one unit, "data", "ping", "pong", "close" or "bad" (one the          *)
(* processor refuses).                                                     *)
(***************************************************************************)
EXTENDS WsTransport, FiniteSets, SequencesExt

CONSTANTS
    Kinds,        \* who talks: subset of {"library", "foreignClient", "foreignServer"}
    Proxies,      \* subset of BOOLEAN: whether the client goes through a proxy
    MaxSend,      \* messages an application sends at one end
    MaxForeign,   \* units a foreign end sends
    ForeignUnits, \* ForeignUnits[e]: the units it chooses from at end e
    MaxFaults,    \* disturbances of one behaviour (see Disturb)
    Senders, Pingers, Pausers,  \* the kinds in which the client's application
                  \* sends, pings, and pauses and resumes reading
    CloseCodes    \* CloseCodes[e]: codes the application at e may close with

VARIABLES
    kind,     \* element of Kinds
    conn,     \* the record of each end
    wire,     \* wire[e]: units sent to e that e has not read
    link,     \* "up", "silent" (nothing passes any more) or "reset"
    tcp,      \* "none", "established" (in the listen backlog) or "accepted"
    crashed,  \* an exception left the server's service thread
    faults    \* number of disturbances so far

vars == <<kind, conn, wire, link, tcp, crashed, faults>>

Ends == {"server", "client"}
Other(e) == IF e = "server" THEN "client" ELSE "server"
Foreign == CASE kind = "foreignClient" -> "client"
             [] kind = "foreignServer" -> "server"
             [] OTHER -> "none"

Unit(op, arg) == [op |-> op, arg |-> arg, n |-> 0]
Data(n) == [op |-> "data", arg |-> "", n |-> n]
Frames == {"data", "ping", "pong", "close"}

(***************************************************************************)
(* close.hpp                                                               *)
(***************************************************************************)

\* close::status::terminal
Terminal(code) == code \in {"protocol_error", "policy_violation"}

\* prepare_close refuses codes that may not be sent.
Sendable(code) == code \notin {"abnormal", "invalid"}

(***************************************************************************)
(* Ending a connection                                                     *)
(***************************************************************************)

\* m_handshake_timer->cancel(); m_handshake_timer.reset()
CancelHandshakeTimer(x) ==
    IF x.handshakeTimer = <<>> THEN x
    ELSE [CancelTimer(x, x.handshakeTimer) EXCEPT !.handshakeTimer = <<>>]

\* Server::on_close, the close handler of the console server.
OnClose(x) == [x EXCEPT !.registered = FALSE]

\* handle_terminate: the fail or the close handler is called.
HandleTerminate(x) ==
    LET y == [x EXCEPT !.report = <<x.ec, x.local, x.remote>>]
    IN  IF x.tstat = "failed"
        THEN [y EXCEPT !.fails = @ + 1]
        ELSE OnClose([y EXCEPT !.shuts = @ + 1])

\* handle_async_shutdown.  The plain socket shuts down at once, so the handler
\* runs inside async_shutdown; if the clock has meanwhile passed the fresh
\* deadline it returns, and the expired timer's handler will call back.
HandleAsyncShutdown(x) ==
    IF x.stalled
    THEN Expire(x, <<"shutdown", 1>>)
    ELSE HandleTerminate(CancelTimer(x, <<"shutdown", 1>>))

\* handle_async_shutdown_timeout
HandleAsyncShutdownTimeout(x) == HandleTerminate(CancelOp(x))

\* async_shutdown
AsyncShutdown(x) == HandleAsyncShutdown(SetTimer(DropHandlers(x), <<"shutdown", 1>>))

\* Wrong: a connection already closed is terminated again.
TerminateAgain(x, ec) ==
    AsyncShutdown([CancelHandshakeTimer(x) EXCEPT
        !.ec = ec, !.state = "closed",
        !.tstat = IF x.state = "connecting" THEN "failed" ELSE "closed"])

Terminate(x, ec) ==
    LET y == CancelHandshakeTimer(x)
        z == IF ec = "none" THEN y ELSE [y EXCEPT !.ec = ec, !.local = "abnormal"]
    IN  IF x.state = "closed" THEN z
        ELSE AsyncShutdown([z EXCEPT
                 !.state = "closed",
                 !.tstat = IF x.state = "connecting" THEN "failed" ELSE "closed"])

\* atomic_state_check and atomic_state_change throw an error_code when the
\* internal state is not the one required.
Throw(x) == [x EXCEPT !.threw = "state"]

(***************************************************************************)
(* Writing                                                                 *)
(***************************************************************************)

\* write_push, and the dispatch of write_frame if nothing is being written.
\* A terminal message ends the connection once it has been written.
WritePush(x, u, terminal) ==
    LET y == [x EXCEPT !.queue = Append(@, [unit |-> u, terminal |-> terminal])]
    IN  IF y.writeFlag THEN y ELSE Dispatch(y, "write_frame")

\* handle_write_frame
HandleWriteFrame(x, ec) ==
    LET terminal == x.current[1].terminal
        y == [x EXCEPT !.current = <<>>]
        z == [y EXCEPT !.writeFlag = FALSE]
    IN  IF ec # "none" THEN Terminate(y, ec)
        ELSE IF terminal THEN Terminate(y, "none")
        ELSE IF z.queue # <<>> THEN Dispatch(z, "write_frame")
        ELSE z

\* Wrong: the write flag is not looked at; the message stays in the queue;
\* the transport is used after its shutdown.
WriteFrameAnyway(x) ==
    IF x.queue = <<>> \/ ~x.open THEN x
    ELSE AsyncWrite([x EXCEPT !.current = <<Head(x.queue)>>, !.queue = Tail(@), !.writeFlag = TRUE],
                    <<Head(x.queue).unit>>, "frame")
WriteFramePeek(x) ==
    IF x.writeFlag \/ x.queue = <<>> \/ ~x.open THEN x
    ELSE AsyncWrite([x EXCEPT !.current = <<Head(x.queue)>>, !.writeFlag = TRUE],
                    <<Head(x.queue).unit>>, "frame")
WriteFrameLate(x) ==
    IF x.writeFlag \/ x.queue = <<>> THEN x
    ELSE AsyncWrite([x EXCEPT !.current = <<Head(x.queue)>>, !.queue = Tail(@), !.writeFlag = TRUE],
                    <<Head(x.queue).unit>>, "frame")

\* write_frame, with write_pop: one frame at a time is handed to the transport.
\* After a shutdown the transport calls the handler back with an error at once.
WriteFrame(x) ==
    LET y == [x EXCEPT !.current = <<Head(x.queue)>>, !.queue = Tail(@), !.writeFlag = TRUE]
    IN  IF x.writeFlag \/ x.queue = <<>> THEN x
        ELSE IF ~x.open THEN HandleWriteFrame(y, "action_after_shutdown")
        ELSE AsyncWrite(y, <<Head(x.queue).unit>>, "frame")

(***************************************************************************)
(* Closing                                                                 *)
(***************************************************************************)

\* Wrong: no timer waits for the answer.
SendCloseFrameUntimed(x, code, ack, terminal) ==
    WritePush([x EXCEPT !.state = "closing", !.wasClean = @ \/ ack, !.closes = @ + 1],
              Unit("close", "normal"), terminal)

\* send_close_frame.  An acknowledgement without a code of its own echoes the
\* peer's; m_local_close_code is set even if the frame is then refused.  The
\* close timer replaces m_handshake_timer without cancelling what it held.
SendCloseFrame(x, code, ack, terminal) ==
    LET local == IF code # "blank" THEN code
                 ELSE IF ~ack THEN "no_status"
                 ELSE IF x.remote = "no_status" THEN "normal"
                 ELSE x.remote
        y == [x EXCEPT !.local = local]
        t == <<"close", x.closes + 1>>
    IN  IF ~Sendable(local) THEN y
        ELSE WritePush(SetTimer([y EXCEPT !.state = "closing",
                                          !.wasClean = @ \/ ack,
                                          !.closes = @ + 1,
                                          !.handshakeTimer = t], t),
                       Unit("close", local), terminal)

SendCloseAck(x, e, code) == SendCloseFrame(x, code, TRUE, e = "server")

\* close: only an open connection.
Close(x, code) ==
    IF x.state # "open" THEN x ELSE SendCloseFrame(x, code, FALSE, Terminal(code))

\* pong and ping: only an open connection.
Pong(x) == IF x.state # "open" THEN x ELSE WritePush(x, Unit("pong", ""), FALSE)
Ping(x) == IF x.state # "open" THEN x ELSE WritePush(x, Unit("ping", ""), FALSE)

\* process_control_frame
ProcessControlFrame(x, e, u) ==
    LET y == [x EXCEPT !.remote = IF u.arg = "short" THEN "protocol_error" ELSE u.arg]
    IN  IF x.state = "closed" \/ (u.op # "close" /\ x.state # "open") THEN x
        ELSE IF u.op = "ping" THEN Pong(x)
        ELSE IF u.op = "pong" THEN x
        ELSE IF u.arg \in {"invalid", "short"} THEN SendCloseAck(y, e, "protocol_error")
        ELSE IF x.state = "open" THEN SendCloseAck(y, e, "blank")
        ELSE IF x.wasClean THEN y
        ELSE IF e = "server" THEN Terminate([y EXCEPT !.wasClean = TRUE], "none")
        ELSE [y EXCEPT !.wasClean = TRUE]

(***************************************************************************)
(* Reading frames                                                          *)
(***************************************************************************)

\* read_frame.  After a shutdown the transport calls handle_read_frame back
\* with an error at once, which terminates again.
ReadFrame(x) ==
    IF ~x.readFlag THEN x
    ELSE IF ~x.open THEN Terminate(x, "action_after_shutdown")
    ELSE AsyncRead(x, "frame")

\* One turn of the loop of handle_read_frame: consume one unit and dispatch
\* it.  A unit the processor refuses ends the loop and no read is posted.
ConsumeFrame(e, s, u) ==
    IF s.done THEN s
    ELSE IF u.op \notin Frames
    THEN [x |-> IF s.x.state # "open" THEN Terminate(s.x, "invalid_state")
                ELSE Close(s.x, "protocol_error"),
          done |-> TRUE]
    ELSE IF u.op = "data"
    THEN [s EXCEPT !.x.got = IF s.x.state = "open" THEN Append(@, u.n) ELSE @]
    ELSE [s EXCEPT !.x = ProcessControlFrame(s.x, e, u)]

\* handle_read_frame with n units in m_buf.
HandleReadFrame(x, e, ec, n) ==
    LET step(s, u) == ConsumeFrame(e, s, u)
        end == FoldLeft(step, [x |-> x, done |-> FALSE], SubSeq(x.buf, 1, n))
    IN  IF x.istate # "PROCESS_CONNECTION" THEN Throw(x)
        ELSE IF ec = "eof" /\ x.state = "closed" THEN x
        ELSE IF ec = "eof" /\ x.state = "closing" /\ e = "client" THEN Terminate(x, "none")
        ELSE IF ec # "none" THEN Terminate(x, ec)
        ELSE IF end.done THEN end.x
        ELSE ReadFrame(end.x)

(***************************************************************************)
(* The opening handshake                                                   *)
(***************************************************************************)

\* parser::consume on what has been read: everything up to the "end" unit
\* belongs to the message; anything that is not HTTP is refused.
ConsumeHttp(units) ==
    LET others == {i \in DOMAIN units : units[i].op # "head"}
        i == CHOOSE k \in others : \A j \in others : k <= j
    IN  IF others = {} THEN [result |-> "partial", arg |-> "none", rest |-> <<>>]
        ELSE IF units[i].op # "end" THEN [result |-> "error", arg |-> "none", rest |-> <<>>]
        ELSE [result |-> "ready", arg |-> units[i].arg,
              rest |-> SubSeq(units, i + 1, Len(units))]

HttpMessage(arg) == <<Unit("head", ""), Unit("end", arg)>>

\* Server::on_open, the open handler of the console server, which knows the
\* connection as a client of /stats from now on.
OnOpen(x, e) == [x EXCEPT !.opens = @ + 1, !.registered = (e = "server")]

\* The connection becomes open, the open handler runs, and what was read
\* beyond the handshake is handled as frames.
Opened(x, e) ==
    LET y == OnOpen([x EXCEPT !.istate = "PROCESS_CONNECTION", !.state = "open"], e)
    IN  IF x.state # "connecting" THEN Throw(x)
        ELSE HandleReadFrame(y, e, "none", Len(y.buf))

SendHttpResponse(x, status) == AsyncWrite([x EXCEPT !.status = status], HttpMessage(status), "response")

\* send_http_response_error
SendHttpResponseError(x, status) ==
    SendHttpResponse([x EXCEPT !.istate = "PROCESS_HTTP_REQUEST"], status)

\* initialize_processor: a WebSocket request needs a version the library has.
InitializeProcessor(arg) == arg # "badversion"

\* process_handshake_request; no http and no validate handler is set.
ProcessHandshakeRequest(arg) ==
    CASE arg = "plain" -> "426" [] arg = "badws" -> "400" [] OTHER -> "101"

\* handle_read_handshake.  Version 0 wants eight more bytes, the "key3" unit,
\* in the same read as the end of the request.
HandleReadHandshake(x, e, ec, n) ==
    LET c == ConsumeHttp(SubSeq(x.buf, 1, n))
        key3 == c.rest # <<>> /\ Head(c.rest).op = "key3"
        rest == IF c.arg = "ws0" THEN Tail(c.rest) ELSE c.rest
    IN  IF x.istate # "READ_HTTP_REQUEST" THEN Throw(x)
        ELSE IF ec = "eof" /\ x.state = "closed" THEN x
        ELSE IF ec # "none" THEN Terminate(x, ec)
        ELSE IF c.result = "error" THEN SendHttpResponseError(x, "400")
        ELSE IF c.result = "partial" THEN AsyncRead(x, "handshake")
        ELSE IF ~InitializeProcessor(c.arg) THEN SendHttpResponseError(x, "400")
        ELSE IF c.arg = "ws0" /\ ~key3 THEN SendHttpResponseError(x, "500")
        ELSE SendHttpResponse([x EXCEPT !.istate = "PROCESS_HTTP_REQUEST", !.buf = rest],
                              ProcessHandshakeRequest(c.arg))

\* handle_send_http_response
HandleSendHttpResponse(x, e, ec) ==
    LET y == CancelHandshakeTimer(x)
    IN  IF x.istate # "PROCESS_HTTP_REQUEST" THEN Throw(x)
        ELSE IF ec # "none" THEN Terminate(x, ec)
        ELSE IF x.status # "101" THEN Terminate(y, "http_connection_ended")
        ELSE Opened(y, e)

OpenTimer == <<"open", 1>>

\* read_handshake
ReadHandshake(x) ==
    AsyncRead([SetTimer(x, OpenTimer) EXCEPT !.handshakeTimer = OpenTimer], "handshake")

\* send_http_request
SendHttpRequest(x) ==
    AsyncWrite([SetTimer(x, OpenTimer) EXCEPT !.handshakeTimer = OpenTimer],
               HttpMessage("ws"), "request")

\* handle_send_http_request
HandleSendHttpRequest(x, ec) ==
    IF x.istate # "WRITE_HTTP_REQUEST" THEN Throw(x)
    ELSE IF ec # "none" THEN Terminate(x, ec)
    ELSE AsyncRead([x EXCEPT !.istate = "READ_HTTP_RESPONSE"], "response")

\* handle_read_http_response
HandleReadHttpResponse(x, e, ec, n) ==
    LET c == ConsumeHttp(SubSeq(x.buf, 1, n))
        y == CancelHandshakeTimer(x)
    IN  IF x.istate # "READ_HTTP_RESPONSE" THEN Throw(x)
        ELSE IF ec # "none" THEN Terminate(x, ec)
        ELSE IF c.result = "error" THEN Terminate(x, "general")
        ELSE IF c.result = "partial" THEN AsyncRead(x, "response")
        ELSE IF c.arg # "101" THEN Terminate(y, "invalid_http_status")
        ELSE Opened([y EXCEPT !.buf = c.rest], e)

\* handle_transport_init
HandleTransportInit(x, e, ec) ==
    IF x.istate # "TRANSPORT_INIT" THEN Throw(x)
    ELSE IF ec # "none" THEN Terminate(x, ec)
    ELSE IF e = "server" THEN ReadHandshake([x EXCEPT !.istate = "READ_HTTP_REQUEST"])
    ELSE SendHttpRequest([x EXCEPT !.istate = "WRITE_HTTP_REQUEST"])

(***************************************************************************)
(* Setting up the transport                                                *)
(***************************************************************************)

\* Wrong: the deadline is not looked at.
HandlePostInitLate(x, e) ==
    HandleTransportInit(IF x.stalled THEN Expire(x, <<"post", 1>>) ELSE x, e, "none")

\* handle_post_init: returns if the clock has passed the fresh deadline.
HandlePostInit(x, e) ==
    IF x.stalled THEN Expire(x, <<"post", 1>>)
    ELSE HandleTransportInit(CancelTimer(x, <<"post", 1>>), e, "none")

\* post_init of the transport; the plain socket's part completes at once.
PostInit(x, e) == HandlePostInit(SetTimer(x, <<"post", 1>>), e)

HandlePostInitTimeout(x, e) == HandleTransportInit(CancelOp(x), e, "timeout")

\* proxy_write
ProxyWrite(x) == [SetTimer(x, <<"proxy", 1>>) EXCEPT !.op = "proxy_write"]

HandleProxyTimeout(x, e) == HandleTransportInit(CancelOp(x), e, "timeout")

\* handle_proxy_write, ending in proxy_read
HandleProxyWrite(x, e, ec) ==
    IF ec = "aborted" \/ Expired(x, <<"proxy", 1>>) THEN x
    ELSE IF ec # "none"
    THEN HandleTransportInit(CancelTimer(x, <<"proxy", 1>>), e, "pass_through")
    ELSE [x EXCEPT !.op = "proxy_read"]

\* handle_proxy_read: the parser throws on an answer that is not HTTP.
HandleProxyRead(x, e, answer) ==
    LET y == CancelTimer(x, <<"proxy", 1>>)
    IN  IF answer = "aborted" \/ Expired(x, <<"proxy", 1>>) THEN x
        ELSE IF answer = "error" THEN HandleTransportInit(y, e, "pass_through")
        ELSE IF answer = "garbage" THEN [y EXCEPT !.threw = "proxy"]
        ELSE IF answer # "200" THEN HandleTransportInit(y, e, "proxy_failed")
        ELSE PostInit(y, e)

\* handle_pre_init, after init and the plain socket's pre_init
HandlePreInit(x, e) == IF x.proxy THEN ProxyWrite(x) ELSE PostInit(x, e)

Start(x, e) ==
    IF x.istate # "USER_INIT" THEN Throw(x)
    ELSE HandlePreInit([x EXCEPT !.istate = "TRANSPORT_INIT"], e)

\* async_connect of the endpoint: resolve the peer's, or the proxy's, name.
AsyncConnect(x) == [SetTimer(x, <<"dns", 1>>) EXCEPT !.op = "resolve"]

HandleResolveTimeout(x) == Terminate(CancelOp(x), "timeout")

HandleResolve(x, ec) ==
    LET y == CancelTimer(x, <<"dns", 1>>)
    IN  IF ec = "aborted" \/ Expired(x, <<"dns", 1>>) THEN x
        ELSE IF ec # "none" THEN Terminate(y, "pass_through")
        ELSE [SetTimer(y, <<"con", 1>>) EXCEPT !.op = "connect"]

HandleConnectTimeout(x) == Terminate(CancelOp(x), "timeout")

HandleConnect(x, e, ec) ==
    LET y == CancelTimer(x, <<"con", 1>>)
    IN  IF ec = "aborted" \/ Expired(x, <<"con", 1>>) THEN x
        ELSE IF ec # "none" THEN Terminate(y, "pass_through")
        ELSE Start(y, e)

(***************************************************************************)
(* The io_service                                                          *)
(***************************************************************************)

\* handle_timer with no error, by the handler bound to the timer.
HandleTimer(x, e, t) ==
    CASE t[1] = "dns"      -> HandleResolveTimeout(x)
      [] t[1] = "con"      -> HandleConnectTimeout(x)
      [] t[1] = "proxy"    -> HandleProxyTimeout(x, e)
      [] t[1] = "post"     -> HandlePostInitTimeout(x, e)
      [] t[1] = "shutdown" -> HandleAsyncShutdownTimeout(x)
      [] t[1] = "open"     -> Terminate(x, "open_handshake_timeout")
      [] t[1] = "close"    -> Terminate(x, "close_handshake_timeout")

\* handle_async_read: the handler set last, if any is left.
HandleAsyncRead(x, e, ec, n) ==
    CASE x.onRead = "none"      -> x
      [] x.onRead = "handshake" -> HandleReadHandshake(x, e, ec, n)
      [] x.onRead = "response"  -> HandleReadHttpResponse(x, e, ec, n)
      [] x.onRead = "frame"     -> HandleReadFrame(x, e, ec, n)

\* handle_async_write
HandleAsyncWrite(x, e, ec) ==
    CASE x.onWrite = "none"     -> x
      [] x.onWrite = "response" -> HandleSendHttpResponse(x, e, ec)
      [] x.onWrite = "request"  -> HandleSendHttpRequest(x, ec)
      [] x.onWrite = "frame"    -> HandleWriteFrame(x, ec)

\* handle_pause_reading and handle_resume_reading
HandleDispatched(x, what) ==
    CASE what = "write_frame" -> WriteFrame(x)
      [] what = "pause"       -> [x EXCEPT !.readFlag = FALSE]
      [] what = "resume"      -> ReadFrame([x EXCEPT !.readFlag = TRUE])

Handle(x, e, v) ==
    CASE v.ev = "dispatch"    -> HandleDispatched(x, v.arg)
      [] v.ev = "timer"       -> HandleTimer(x, e, v.t)
      [] v.ev = "read"        -> HandleAsyncRead(x, e, v.arg, v.n)
      [] v.ev = "write"       -> HandleAsyncWrite(x, e, v.arg)
      [] v.ev = "resolve"     -> HandleResolve(x, v.arg)
      [] v.ev = "connect"     -> HandleConnect(x, e, v.arg)
      [] v.ev = "proxy_write" -> HandleProxyWrite(x, e, v.arg)
      [] v.ev = "proxy_read"  -> HandleProxyRead(x, e, v.arg)

Alive(e) == e # Foreign /\ conn[e].threw = "no" /\ ~(e = "server" /\ crashed)
Set(e, x) == conn' = [conn EXCEPT ![e] = x]

\* The peer of e has shut its socket down, or its process is gone.
PeerShut(e) ==
    LET f == Other(e)
    IN  ~conn[f].open \/ conn[f].threw # "no" \/ (f = "server" /\ crashed)

\* Something can still happen without waiting: a handler is queued, a write or
\* a set-up operation is outstanding, or there is something to read.
Busy(e) ==
    LET x == conn[e]
    IN  Alive(e) /\ (\/ x.posted # <<>> \/ x.op # "none"
                     \/ x.writes # <<>> /\ link # "silent"
                     \/ x.reads > 0 /\ link = "up" /\ (wire[e] # <<>> \/ PeerShut(e)))

\* The disturbances that MaxFaults bounds: a deadline that passes although the
\* ends are busy, a clock that jumps, a failing operation, the network.
Disturb == faults < MaxFaults /\ faults' = faults + 1
Calm == UNCHANGED faults

\* The clock may jump past the deadline of a timer that a handler just set.
Stalling(stall) == IF stall THEN Disturb ELSE Calm

\* The io_service runs the handler at the head of its queue.
Run(e) ==
    LET x == conn[e]
        y == [x EXCEPT !.posted = Tail(@)]
    IN  /\ Alive(e) /\ x.posted # <<>>
        /\ \E stall \in BOOLEAN :
               /\ Stalling(stall)
               /\ Set(e, [Handle([y EXCEPT !.stalled = stall], e, Head(x.posted))
                              EXCEPT !.stalled = FALSE])
        /\ UNCHANGED <<kind, wire, link, tcp, crashed>>

ExpireTimer(e, t) ==
    /\ Alive(e) /\ t \in conn[e].armed
    /\ IF \E f \in Ends : Busy(f) THEN Disturb ELSE Calm
    /\ Set(e, Expire(conn[e], t))
    /\ UNCHANGED <<kind, wire, link, tcp, crashed>>

(***************************************************************************)
(* The network                                                             *)
(***************************************************************************)

\* An operation of the connection set-up completes.  The connection is in the
\* server's backlog as soon as the client's connect has succeeded.
CompleteOp ==
    LET x == conn["client"]
    IN  /\ x.op # "none"
        /\ \E ec \in IF x.op = "proxy_read" THEN {"200", "403", "garbage", "error"}
                     ELSE {"none", "error"} :
               /\ Set("client", OpDone(x, ec))
               /\ tcp' = IF x.op = "connect" /\ ec = "none" 
                         THEN IF Foreign = "server" THEN "accepted" ELSE "established"
                         ELSE tcp
               /\ IF ec \in {"none", "200"} THEN Calm ELSE Disturb
        /\ UNCHANGED <<kind, wire, link, crashed>>

\* handle_accept of the server endpoint
Accept ==
    /\ tcp = "established" /\ Foreign # "server" /\ ~crashed
    /\ tcp' = "accepted"
    /\ \/ \E stall \in BOOLEAN :
              /\ Stalling(stall)
              /\ Set("server", [Start([conn["server"] EXCEPT !.stalled = stall], "server")
                                    EXCEPT !.stalled = FALSE])
       \/ Disturb /\ Set("server", Terminate(conn["server"], "pass_through"))
    /\ UNCHANGED <<kind, wire, link, crashed>>

\* A write completes.  What it wrote reaches the peer if the network is up and
\* the peer's socket is; otherwise it may seem to succeed all the same.
WireWrite(e) ==
    LET x == conn[e]
    IN  /\ x.writes # <<>>
        /\ \/ /\ link = "up" /\ ~PeerShut(e)
              /\ wire' = [wire EXCEPT ![Other(e)] = IF Other(e) = Foreign THEN @
                                                   ELSE @ \o Head(x.writes)]
              /\ Set(e, WriteDone(x, "none"))
           \/ /\ link # "up" \/ PeerShut(e)
              /\ \E ec \in {"none", "pass_through"} : Set(e, WriteDone(x, ec))
              /\ UNCHANGED wire
        /\ UNCHANGED <<kind, link, tcp, crashed, faults>>

\* A read completes with some of what is there, at the end of the stream, or
\* because the network was reset.
WireRead(e) ==
    LET x == conn[e]
    IN  /\ x.reads > 0
        /\ \/ /\ link = "up"
              /\ \E n \in 1 .. Len(wire[e]) :
                    /\ Set(e, ReadDone(x, SubSeq(wire[e], 1, n)))
                    /\ wire' = [wire EXCEPT ![e] = SubSeq(@, n + 1, Len(@))]
           \/ /\ link = "up" /\ wire[e] = <<>> /\ PeerShut(e)
              /\ Set(e, ReadFailed(x, "eof"))
              /\ UNCHANGED wire
           \/ /\ link = "reset"
              /\ Set(e, ReadFailed(x, "pass_through"))
              /\ UNCHANGED wire
        /\ UNCHANGED <<kind, link, tcp, crashed, faults>>

Disrupt ==
    /\ Disturb /\ link = "up" /\ tcp = "accepted"
    /\ link' \in {"silent", "reset"}
    /\ UNCHANGED <<kind, conn, wire, tcp, crashed>>

\* A foreign end sends a unit, or shuts down.
ForeignSend ==
    /\ Foreign # "none" /\ tcp # "none" /\ link = "up"
    /\ conn[Foreign].open /\ conn[Foreign].sent < MaxForeign /\ ~PeerShut(Foreign)
    /\ \E u \in ForeignUnits[Foreign] : wire' = [wire EXCEPT ![Other(Foreign)] = Append(@, u)]
    /\ Set(Foreign, [conn[Foreign] EXCEPT !.sent = @ + 1])
    /\ UNCHANGED <<kind, link, tcp, crashed, faults>>

ForeignShut ==
    /\ Foreign # "none" /\ conn[Foreign].open
    /\ Set(Foreign, [conn[Foreign] EXCEPT !.open = FALSE])
    /\ UNCHANGED <<kind, wire, link, tcp, crashed, faults>>

(***************************************************************************)
(* The applications                                                        *)
(***************************************************************************)

\* send: an error unless open, otherwise the message is queued.
Send(x) ==
    IF x.state # "open" THEN x
    ELSE WritePush([x EXCEPT !.sent = @ + 1], Data(x.sent + 1), FALSE)

AppSend ==
    /\ kind \in Senders /\ Alive("client") /\ conn["client"].sent < MaxSend
    /\ conn["client"].state = "open"
    /\ Set("client", Send(conn["client"]))
    /\ UNCHANGED <<kind, wire, link, tcp, crashed, faults>>

AppPing ==
    /\ kind \in Pingers /\ Alive("client") /\ conn["client"].sent < MaxSend
    /\ conn["client"].state = "open"
    /\ Set("client", [Ping(conn["client"]) EXCEPT !.sent = @ + 1])
    /\ UNCHANGED <<kind, wire, link, tcp, crashed, faults>>

AppClose(e) ==
    /\ Alive(e) /\ conn[e].state = "open"
    /\ \E code \in CloseCodes[e] : Set(e, Close(conn[e], code))
    /\ UNCHANGED <<kind, wire, link, tcp, crashed, faults>>

\* pause_reading, and resume_reading once paused; at most two reads overlap.
MaxReads == 2
AppPause ==
    /\ kind \in Pausers /\ Alive("client") /\ conn["client"].state = "open"
    /\ conn["client"].reads < MaxReads
    /\ ~\E i \in DOMAIN conn["client"].posted : conn["client"].posted[i].ev = "dispatch"
    /\ Set("client", Dispatch(conn["client"], IF conn["client"].readFlag THEN "pause" ELSE "resume"))
    /\ UNCHANGED <<kind, wire, link, tcp, crashed, faults>>

\* Server::timerCallback and broadcastStats: the statistics are sent to every
\* registered client.  endpoint::send throws an error_code when send refuses;
\* Server::run catches only std::exception, so the thread dies of it.
StatsTick ==
    LET x == conn["server"]
    IN  /\ Alive("server") /\ x.registered /\ x.sent < MaxSend
        /\ Set("server", Send(x))
        /\ crashed' = (x.state # "open")
        /\ UNCHANGED <<kind, wire, link, tcp, faults>>

(***************************************************************************)
(* The specification                                                       *)
(***************************************************************************)

\* Against a foreign server a client begins by resolving its name; against the
\* console server it begins with the TCP connection made.
Init ==
    /\ kind \in Kinds
    /\ \E proxy \in Proxies :
          conn = [server |-> NewConnection,
                  client |-> CASE kind = "foreignClient" -> NewConnection
                               [] kind = "foreignServer" ->
                                     AsyncConnect([NewConnection EXCEPT !.proxy = proxy])
                               [] OTHER -> Start(NewConnection, "client")]
    /\ wire = [e \in Ends |-> <<>>]
    /\ link = "up"
    /\ tcp = IF kind = "foreignServer" THEN "none" ELSE "established"
    /\ crashed = FALSE /\ faults = 0

Next ==
    \/ \E e \in Ends : Run(e) \/ WireWrite(e) \/ WireRead(e) \/ AppClose(e)
    \/ \E e \in Ends : \E t \in conn[e].armed : ExpireTimer(e, t)
    \/ CompleteOp \/ Accept \/ Disrupt \/ ForeignSend \/ ForeignShut
    \/ AppSend \/ AppPing \/ AppPause \/ StatsTick

\* The service threads run what is queued and the kernel completes what it can,
\* as long as there is any such thing to do; and deadlines pass.  Nothing is
\* assumed of applications, of a foreign end, or of a network gone silent.
Work ==
    \/ \E e \in Ends : Run(e) \/ WireRead(e) \/ (link # "silent" /\ WireWrite(e))
    \/ CompleteOp \/ Accept
Expiry == \E e \in Ends : \E t \in conn[e].armed : ExpireTimer(e, t)
Fairness == WF_vars(Work) /\ WF_vars(Expiry)

Spec == Init /\ [][Next]_vars
FairSpec == Spec /\ Fairness

(***************************************************************************)
(* Properties                                                              *)
(***************************************************************************)

States == {"connecting", "open", "closing", "closed"}
Library == Ends \ {Foreign}

\* Type invariant: the two state variables of a connection stay in step (an
\* open connection processes frames) and the io_service only holds events that
\* some handler takes.
TypeOK ==
    /\ kind \in Kinds /\ link \in {"up", "silent", "reset"} /\ faults \in 0 .. MaxFaults
    /\ \A e \in Ends :
          /\ conn[e].state \in States
          /\ conn[e].state \in {"open", "closing"} => conn[e].istate = "PROCESS_CONNECTION"
          /\ conn[e].reads \in 0 .. MaxReads

\* The close or the fail handler of e is still to come: the shutdown was held
\* up, and its timer will call.
ShutdownPending(e) == <<"shutdown", 1>> \in conn[e].expired /\ conn[e].fails + conn[e].shuts = 0

\* "Either the fail handler or the open handler will be called for each
\* WebSocket connection attempt" and "the close handler will be called exactly
\* once for every connection for which the open handler was called"
\* (connection.hpp), whatever timer, completion or frame ends the connection:
\* terminate is the only way out and lets the first caller through.  So the
\* console server only keeps clients whose connection is not closed; only a
\* shutdown held up by the clock leaves one there until its timer fires.
HandlersOnce ==
    /\ conn["server"].registered => conn["server"].state # "closed" \/ ShutdownPending("server")
    /\ \A e \in Library :
          LET x == conn[e]
          IN  /\ x.opens + x.fails <= 1 /\ x.shuts <= x.opens
              /\ x.state \in {"open", "closing"} => x.opens = 1 /\ x.shuts = 0
              /\ x.state = "closed" /\ ~ShutdownPending(e) => x.fails + x.shuts = 1

\* The library's own state checks never fail: no order of completions, expired
\* timers and cancellations makes a handler run in a state it does not expect,
\* and none starts a connection twice (atomic_state_check and
\* atomic_state_change throw an error_code nobody catches).
AssertionsHold == \A e \in Library : conn[e].threw # "state"

\* While a connection is up there is at most one write at the transport, and
\* m_write_flag is up exactly while it, or its completion, is outstanding: a
\* frame is never handed over twice and the queue is never left standing.
WriteFlagExact ==
    \A e \in Library :
        LET x == conn[e]
            completing == \E i \in DOMAIN x.posted : x.posted[i].ev = "write"
            scheduled == \E i \in DOMAIN x.posted :
                            x.posted[i].ev = "dispatch" /\ x.posted[i].arg = "write_frame"
        IN  /\ Len(x.writes) <= 1
            /\ x.open /\ x.istate = "PROCESS_CONNECTION" =>
                  /\ x.writeFlag <=> (x.writes # <<>> \/ completing)
                  /\ x.queue # <<>> /\ ~x.writeFlag => scheduled

\* Two ends of the library agree on what passed between them.  What the message
\* handler gets is what the peer sent, in order and without repetition, as long
\* as the application never makes two reads overlap; and an end that reports a
\* clean close has sent a close frame and the other end has sent one too.
EndsAgree ==
    kind = "library" =>
        \A e \in Ends :
            /\ ~conn[e].overlapped =>
                  /\ conn[e].got = [i \in 1 .. Len(conn[e].got) |-> i]
                  /\ Len(conn[e].got) <= conn[Other(e)].sent
            /\ conn[e].wasClean => conn[e].closes > 0 /\ conn[Other(e)].closes > 0

\* Nothing comes of a closed connection any more: it stays closed, delivers no
\* message, opens nothing, and hands no frame to the transport.
QuietAfterClose ==
    [][\A e \in Library :
          conn[e].state = "closed" =>
             /\ conn'[e].state = "closed"
             /\ conn'[e].got = conn[e].got /\ conn'[e].opens = conn[e].opens
             /\ conn'[e].writes = <<>>]_vars

\* Nothing is pending at e: a connection attempt has been decided and one that
\* began to close is closed and reported.
Decided(e) ==
    LET x == conn[e]
    IN  /\ e = "client" \/ tcp = "accepted" => x.opens + x.fails = 1
        /\ x.state \in {"closing", "closed"} => x.shuts + x.fails = 1

\* Every connection attempt ends in the open or in the fail handler, and every
\* connection that begins to close is closed and reported, whatever resolving,
\* connecting, a proxy, the peer or the network fail to do: some timer is
\* always there to end it.
Settles == []<>(\A e \in Ends : Alive(e) => Decided(e))

\* The statistics timer never takes the service thread down: Server::run
\* catches and logs what its handlers throw.
ServiceSurvives == ~crashed
=============================================================================
