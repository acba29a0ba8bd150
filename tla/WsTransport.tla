---------------------------- MODULE WsTransport ----------------------------
(***************************************************************************)
(* The asio transport under one end of a WebSocket connection              *)
(* (websocketpp/transport/asio/connection.hpp over the plain socket of     *)
(* security/none.hpp): deadline timers, asynchronous reads and writes,     *)
(* posted handlers and the shutdown that drops the cached handlers.        *)
(*                                                                         *)
(* One end is one record x.  The operators below are the transport's       *)
(* member functions as functions from record to record; WsConnection puts  *)
(* the connection's own members on top and the io_service and the network  *)
(* around them.                                                            *)
(*                                                                         *)
(* The io_service is one queue x.posted.  A completion, an expired timer   *)
(* and a dispatched function are appended to it when they become ready and *)
(* run later in that order, which is what lets a handler run after the     *)
(* thing it reports has been cancelled or overtaken.                       *)
(***************************************************************************)
EXTENDS Integers, Sequences

\* What one end starts from: the members of connection<config> after its
\* constructor and the transport after init_asio.
NewConnection ==
    [ istate |-> "USER_INIT", state |-> "connecting",
      wasClean |-> FALSE, local |-> "abnormal", remote |-> "abnormal", ec |-> "none",
      readFlag |-> TRUE, writeFlag |-> FALSE, queue |-> <<>>, current |-> <<>>,
      handshakeTimer |-> <<>>, closes |-> 0, status |-> "uninitialized",
      open |-> TRUE, onRead |-> "none", reads |-> 0, buf |-> <<>>,
      onWrite |-> "none", writes |-> <<>>, op |-> "none", proxy |-> FALSE,
      armed |-> {}, expired |-> {}, posted |-> <<>>, stalled |-> FALSE, tstat |-> "unknown",
      threw |-> "no", registered |-> FALSE, opens |-> 0, shuts |-> 0, fails |-> 0,
      got |-> <<>>, sent |-> 0, overlapped |-> FALSE, report |-> <<>> ]

\* dispatch and interrupt: post the handler, never run it at once.
Dispatch(x, what) ==
    [x EXCEPT !.posted = Append(@, [ev |-> "dispatch", arg |-> what, n |-> 0, t |-> <<>>])]

\* set_timer: a deadline timer whose wait is outstanding.
SetTimer(x, t) == [x EXCEPT !.armed = @ \cup {t}]

\* deadline_timer::cancel: a wait that is still outstanding completes with
\* operation_aborted, on which every handler of the library returns at once.
\* A wait whose handler is already queued is not affected.
CancelTimer(x, t) == [x EXCEPT !.armed = @ \ {t}]

\* The deadline passes: handle_timer is queued with no error.
Expire(x, t) ==
    [x EXCEPT !.armed = @ \ {t}, !.expired = @ \cup {t},
              !.posted = Append(@, [ev |-> "timer", arg |-> "none", n |-> 0, t |-> t])]

\* timer->expires_from_now().is_negative()
Expired(x, t) == t \in x.expired

\* async_read_at_least while the transport is up: the handler is remembered
\* in m_read_handler, which a second call overwrites.
AsyncRead(x, h) ==
    [x EXCEPT !.onRead = h, !.reads = @ + 1, !.overlapped = @ \/ x.reads > 0]

\* async_write while the transport is up; m_bufs collects the buffers.
AsyncWrite(x, units, h) ==
    [x EXCEPT !.onWrite = h, !.writes = Append(@, units)]

\* The socket has read `units' into m_buf: handle_async_read is queued with
\* their number.  They overwrite what an earlier read left there, whether or
\* not its handler has run.
ReadDone(x, units) ==
    [x EXCEPT !.reads = @ - 1,
              !.buf = IF \E i \in DOMAIN x.posted : x.posted[i].ev = "read"
                      THEN units \o SubSeq(@, Len(units) + 1, Len(@)) ELSE units,
              !.posted = Append(@, [ev |-> "read", arg |-> "none", n |-> Len(units), t |-> <<>>])]

ReadFailed(x, ec) ==
    [x EXCEPT !.reads = @ - 1,
              !.posted = Append(@, [ev |-> "read", arg |-> ec, n |-> 0, t |-> <<>>])]

WriteDone(x, ec) ==
    [x EXCEPT !.writes = Tail(@),
              !.posted = Append(@, [ev |-> "write", arg |-> ec, n |-> 0, t |-> <<>>])]

\* An operation of the connection set-up (resolve, connect, proxy write,
\* proxy read) completes.
OpDone(x, ec) ==
    [x EXCEPT !.op = "none", !.posted = Append(@, [ev |-> x.op, arg |-> ec, n |-> 0, t |-> <<>>])]

\* cancel_socket and resolver::cancel: what is outstanding completes with
\* operation_aborted.
CancelOp(x) == IF x.op = "none" THEN x ELSE OpDone(x, "aborted")

\* async_shutdown up to the socket's own shutdown: the cached handlers go, so
\* that completions still to come find nobody to call, and the socket moves no
\* more bytes.  The peer sees the end of the stream once it has read what was
\* sent.
DropHandlers(x) ==
    [x EXCEPT !.open = FALSE, !.onRead = "none", !.onWrite = "none",
              !.reads = 0, !.writes = <<>>]
=============================================================================
