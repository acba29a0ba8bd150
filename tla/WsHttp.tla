-------------------------------- MODULE WsHttp --------------------------------
(***************************************************************************)
(* The HTTP messages of the opening handshake: websocketpp's streaming     *)
(* parsers for requests and responses, its parameter lists and URIs, and   *)
(* what a processor writes into a request and checks in a response.        *)
(* Text is a sequence of symbols: a separator is the number of its         *)
(* character, a run of other characters is one symbol.                     *)
(***************************************************************************)
EXTENDS Integers, Sequences, SequencesExt, FiniteSets

CONSTANTS
    MaxHeaderSize,  \* http::max_header_size, 16000 in the code
    MaxPort         \* 65535 in the code

CR == 13
LF == 10
SP == 32
QUOTE == 34
COMMA == 44
SLASH == 47
COLON == 58
SEMICOLON == 59
EQUALS == 61
LBRACKET == 91
BACKSLASH == 92
RBRACKET == 93

\* Runs of characters that are not all token characters, and then tokens
HTTP11 == 500
HTTP10 == 501
SchemeWs == 510
SchemeWss == 511
Resource == 520
GET == 1000
POST == 1001
Host == <<1010>>
Upgrade == <<1011>>
Connection == <<1012>>
SecVersion == <<1013>>
SecKey == <<1014>>
SecProtocol == <<1015>>
SecExtensions == <<1016>>
SecAccept == <<1017>>
SecKey1 == <<1018>>
SecKey2 == <<1019>>
SecKey3 == <<1020>>
ContentLength == <<1021>>
UserAgent == <<1022>>
ServerName == <<1023>>
Websocket == 1030
Number(n) == 2000 + n
IsNumber(c) == c >= 2000

\* is_token_char
IsTokenChar(c) == c >= 1000

Drop(s, n) == SubSeq(s, n + 1, Len(s))
Find(s, c) == SelectInSeq(s, LAMBDA x : x = c)

\* extract_all_lws and strip_lws
ExtractAllLws(s) ==
    LET i == SelectInSeq(s, LAMBDA x : x # SP)
    IN  IF i = 0 THEN <<>> ELSE Drop(s, i - 1)
StripLws(s) == Reverse(ExtractAllLws(Reverse(ExtractAllLws(s))))

(***************************************************************************)
(* Parameter lists                                                         *)
(***************************************************************************)

\* extract_token
ExtractToken(s) ==
    LET i == SelectInSeq(s, LAMBDA x : ~IsTokenChar(x))
    IN  IF i = 0 THEN [val |-> s, rest |-> <<>>]
        ELSE [val |-> SubSeq(s, 1, i - 1), rest |-> Drop(s, i - 1)]

\* extract_quoted_string, from after the opening quote
RECURSIVE QuotedFrom(_, _)
QuotedFrom(val, s) ==
    LET i == Find(s, QUOTE)
    IN  IF i = 0 THEN [ok |-> FALSE, val |-> <<>>, rest |-> <<>>]
        ELSE IF i > 1 /\ s[i - 1] = BACKSLASH
        THEN QuotedFrom(val \o SubSeq(s, 1, i - 2) \o <<QUOTE>>, Drop(s, i))
        ELSE [ok |-> TRUE, val |-> val \o SubSeq(s, 1, i - 1), rest |-> Drop(s, i)]

ExtractQuotedString(s) ==
    IF s = <<>> \/ Head(s) # QUOTE THEN [ok |-> FALSE, val |-> <<>>, rest |-> s]
    ELSE QuotedFrom(<<>>, Tail(s))

Attributes(ok, list, rest) == [ok |-> ok, list |-> list, rest |-> rest]

\* extract_attributes: a syntax error is told by returning where it began.
RECURSIVE ExtractAttributes(_, _, _)
ExtractAttributes(s, first, list) ==
    LET t == ExtractAllLws(s)
        name == ExtractToken(ExtractAllLws(IF first THEN t ELSE Tail(t)))
        afterName == ExtractAllLws(name.rest)
        value == ExtractAllLws(Tail(afterName))
        quoted == ExtractQuotedString(value)
        token == ExtractToken(value)
    IN  IF t = <<>> \/ (~first /\ Head(t) # SEMICOLON) THEN Attributes(TRUE, list, t)
        ELSE IF name.val = <<>> THEN Attributes(FALSE, list, s)
        ELSE IF afterName = <<>> \/ Head(afterName) # EQUALS
        THEN ExtractAttributes(afterName, FALSE, Append(list, <<name.val, <<>>>>))
        ELSE IF value = <<>> THEN Attributes(FALSE, list, s)
        ELSE IF quoted.ok
        THEN ExtractAttributes(quoted.rest, FALSE, Append(list, <<name.val, quoted.val>>))
        ELSE IF token.val = <<>> THEN Attributes(FALSE, list, s)
        ELSE ExtractAttributes(token.rest, FALSE, Append(list, <<name.val, token.val>>))

\* extract_parameters; what follows a complete parameter and is no comma is
\* left unread.
RECURSIVE ExtractParameters(_, _), MoreParameters(_, _, _)
ExtractParameters(s, list) ==
    LET t == ExtractAllLws(s)
        name == ExtractToken(t)
        next == ExtractAllLws(name.rest)
    IN  IF t = <<>> THEN [ok |-> TRUE, list |-> list]
        ELSE IF name.val = <<>> THEN [ok |-> FALSE, list |-> list]
        ELSE MoreParameters(list, name.val,
                 IF next = <<>> \/ Head(next) # SEMICOLON THEN Attributes(TRUE, <<>>, next)
                 ELSE IF Tail(next) = <<>> THEN Attributes(FALSE, <<>>, <<>>)
                 ELSE ExtractAttributes(Tail(next), TRUE, <<>>))
MoreParameters(list, name, attrs) ==
    LET all == Append(list, <<name, attrs.list>>)
        rest == ExtractAllLws(attrs.rest)
    IN  IF ~attrs.ok THEN [ok |-> FALSE, list |-> list]
        ELSE IF rest = <<>> \/ Head(rest) # COMMA THEN [ok |-> TRUE, list |-> all]
        ELSE IF Tail(rest) = <<>> THEN [ok |-> FALSE, list |-> all]
        ELSE ExtractParameters(Tail(rest), all)

(***************************************************************************)
(* The parsers                                                             *)
(***************************************************************************)

\* A message under construction; threw is the status of the http::exception.
NewMessage(state) ==
    [state |-> state, method |-> <<>>, uri |-> <<>>, version |-> <<>>, status |-> 0,
     headers |-> <<>>, body |-> <<>>, buf |-> <<>>, read |-> 0, threw |-> 0]
NewRequest == NewMessage("HEADERS")
NewResponse == NewMessage("RESPONSE_LINE")

GetHeader(m, key) == IF key \in DOMAIN m.headers THEN m.headers[key] ELSE <<>>

\* get_header_as_plist; ok is the negation of what the method returns.
GetHeaderAsPlist(m, key) ==
    IF GetHeader(m, key) = <<>> THEN [ok |-> TRUE, list |-> <<>>]
    ELSE ExtractParameters(GetHeader(m, key), <<>>)

\* replace_header and remove_header
ReplaceHeader(m, key, val) ==
    [m EXCEPT !.headers = [k \in DOMAIN @ \cup {key} |-> IF k = key THEN val ELSE m.headers[k]]]
RemoveHeader(m, key) == [m EXCEPT !.headers = [k \in DOMAIN @ \ {key} |-> m.headers[k]]]

\* append_header
AppendHeader(m, key, val) ==
    IF \E i \in DOMAIN key : ~IsTokenChar(key[i]) THEN [m EXCEPT !.threw = 400]
    ELSE IF GetHeader(m, key) = <<>> THEN ReplaceHeader(m, key, val)
    ELSE ReplaceHeader(m, key, GetHeader(m, key) \o <<COMMA, SP>> \o val)

\* process_header
ProcessHeader(m, line) ==
    LET i == Find(line, COLON)
    IN  IF i = 0 THEN [m EXCEPT !.threw = 400]
        ELSE AppendHeader(m, StripLws(SubSeq(line, 1, i - 1)), StripLws(Drop(line, i)))

\* request::process
ProcessRequestLine(m, line) ==
    LET i == Find(line, SP)
        rest == Drop(line, i)
        j == Find(rest, SP)
    IN  IF i = 0 \/ j = 0 \/ (\E k \in 1 .. (i - 1) : ~IsTokenChar(line[k]))
        THEN [m EXCEPT !.threw = 400]
        ELSE [m EXCEPT !.method = SubSeq(line, 1, i - 1), !.uri = SubSeq(rest, 1, j - 1),
                       !.version = Drop(rest, j)]

\* response::process
ProcessResponseLine(m, line) ==
    LET i == Find(line, SP)
        rest == Drop(line, i)
        j == Find(rest, SP)
    IN  IF i = 0 \/ j <= 1 \/ ~IsNumber(rest[1]) THEN [m EXCEPT !.threw = 400]
        ELSE [m EXCEPT !.state = "HEADERS", !.version = SubSeq(line, 1, i - 1),
                       !.status = rest[1] - Number(0)]

\* The first header_delimiter
Delimiter(b) ==
    LET hits == {i \in 1 .. (Len(b) - 1) : b[i] = CR /\ b[i + 1] = LF}
    IN  IF hits = {} THEN 0 ELSE Min(hits)

Parsed(m, rest) == [m |-> m, rest |-> rest]

\* request::consume, its loop over the lines
RECURSIVE RequestLines(_, _)
RequestLines(m, b) ==
    LET i == Delimiter(b)
        line == SubSeq(b, 1, i - 1)
        q == IF m.method = <<>> THEN ProcessRequestLine(m, line) ELSE ProcessHeader(m, line)
    IN  IF i = 0 THEN Parsed([m EXCEPT !.buf = b], <<>>)
        ELSE IF i = 1
        THEN IF m.method = <<>> \/ GetHeader(m, Host) = <<>> THEN Parsed([m EXCEPT !.threw = 400], <<>>)
             ELSE Parsed([m EXCEPT !.state = "DONE", !.buf = <<>>], Drop(b, 2))
        ELSE IF q.threw # 0 THEN Parsed(q, <<>>)
        ELSE RequestLines(q, Drop(b, i + 1))

\* request::consume; the size of what is kept and what is new is limited, not
\* the size of the header.
RequestConsume(m, chunk) ==
    IF m.state = "DONE" THEN Parsed(m, chunk)
    ELSE IF Len(m.buf) + Len(chunk) > MaxHeaderSize THEN Parsed([m EXCEPT !.threw = 431], <<>>)
    ELSE RequestLines(m, m.buf \o chunk)

\* process_body: without a length the rest of the stream is not the body's.
ProcessBody(m, b) ==
    IF m.read = 0 THEN Parsed([m EXCEPT !.state = "DONE"], b)
    ELSE LET n == IF Len(b) >= m.read THEN m.read ELSE Len(b)
         IN  Parsed([m EXCEPT !.state = IF n = m.read THEN "DONE" ELSE "BODY",
                              !.body = @ \o SubSeq(b, 1, n), !.read = @ - n], Drop(b, n))

\* response::consume at the blank line
ResponseBody(m, rest) ==
    LET l == GetHeader(m, ContentLength)
        q == [m EXCEPT !.state = "BODY", !.buf = <<>>, !.read = IF l = <<>> THEN 0 ELSE l[1] - Number(0)]
    IN  IF m.state = "RESPONSE_LINE" \/ (l # <<>> /\ ~IsNumber(l[1]))
        THEN Parsed([m EXCEPT !.threw = 400], <<>>)
        ELSE IF rest = <<>> THEN Parsed(q, <<>>)
        ELSE ProcessBody(q, rest)

\* response::consume, its loop over the lines; len is what this call was given
RECURSIVE ResponseLines(_, _, _)
ResponseLines(m, b, len) ==
    LET i == Delimiter(b)
        line == SubSeq(b, 1, i - 1)
        q == IF m.state = "RESPONSE_LINE" THEN ProcessResponseLine(m, line) ELSE ProcessHeader(m, line)
    IN  IF i = 0 THEN Parsed([m EXCEPT !.buf = b, !.read = @ + len], <<>>)
        ELSE IF i = 1 THEN ResponseBody(m, Drop(b, 2))
        ELSE IF q.threw # 0 THEN Parsed(q, <<>>)
        ELSE ResponseLines(q, Drop(b, i + 1), len)

\* response::consume
ResponseConsume(m, chunk) ==
    CASE m.state = "DONE" -> Parsed(m, chunk)
      [] m.state = "BODY" -> ProcessBody(m, chunk)
      [] OTHER -> IF m.read + Len(chunk) > MaxHeaderSize THEN Parsed([m EXCEPT !.threw = 431], <<>>)
                  ELSE ResponseLines(m, m.buf \o chunk, Len(chunk))

HeadersReady(m) == m.state \in {"BODY", "DONE"}

\* raw_headers, request::raw and response::raw (the status always has a text)
RawHeaders(m) ==
    FlattenSeq([i \in 1 .. Cardinality(DOMAIN m.headers) |->
        LET k == SetToSortSeq(DOMAIN m.headers, LAMBDA a, b : a[1] < b[1])[i]
        IN  k \o <<COLON, SP>> \o m.headers[k] \o <<CR, LF>>])
RawRequest(m) == m.method \o <<SP>> \o m.uri \o <<SP>> \o m.version \o <<CR, LF>>
                 \o RawHeaders(m) \o <<CR, LF>> \o m.body
RawResponse(m) == m.version \o <<SP, Number(m.status), SP>> \o <<CR, LF>>
                  \o RawHeaders(m) \o <<CR, LF>> \o m.body

(***************************************************************************)
(* uri                                                                     *)
(***************************************************************************)

DefaultPort(secure) == IF secure THEN 443 ELSE 80

\* get_port_from_string, which returns 0 for a port it refuses
GetPortFromString(port, secure) ==
    IF port = <<>> THEN DefaultPort(secure)
    ELSE IF ~IsNumber(port[1]) \/ port[1] - Number(0) > MaxPort THEN 0
    ELSE port[1] - Number(0)

\* The constructors from parts
UriOf(secure, host, port, resource) ==
    LET p == GetPortFromString(port, secure)
    IN  [secure |-> secure, host |-> host, port |-> p,
         resource |-> IF resource = <<>> THEN <<SLASH>> ELSE resource, valid |-> p # 0]

NoUri == [secure |-> FALSE, host |-> <<>>, port |-> 0, resource |-> <<>>, valid |-> FALSE]

\* The constructor from a string: the host ends at a colon or a slash, that of
\* an IPv6 literal at its bracket, and loses the brackets.
ParseUri(s) ==
    LET secure == s[1] = SchemeWss
        t == Tail(s)
        literal == t # <<>> /\ t[1] = LBRACKET
        j == IF literal THEN Find(t, RBRACKET)
             ELSE SelectInSeq(t, LAMBDA x : x \in {COLON, SLASH}) - 1
        host == IF literal THEN SubSeq(t, 2, j - 1) ELSE IF j < 0 THEN t ELSE SubSeq(t, 1, j)
        u == IF j < 0 THEN <<>> ELSE Drop(t, j)
        k == Find(u, SLASH)
        port == IF u = <<>> \/ u[1] # COLON THEN <<>>
                ELSE IF k = 0 THEN Tail(u) ELSE SubSeq(u, 2, k - 1)
        resource == <<SLASH>> \o (IF k = 0 THEN <<>> ELSE Drop(u, k))
    IN  IF \/ s[1] \notin {SchemeWs, SchemeWss}
           \/ literal /\ j = 0
           \/ literal /\ u # <<>> /\ u[1] \notin {COLON, SLASH}
        THEN NoUri ELSE UriOf(secure, host, port, resource)

\* Wrong: the port is never named.
GetHostPortBare(u) == u.host

\* get_host_port
GetHostPort(u) ==
    IF u.port = DefaultPort(u.secure) THEN u.host ELSE u.host \o <<COLON, Number(u.port)>>

\* get_uri_from_host, and hybi00::get_uri
GetUriFromHost(m, secure) ==
    LET h == GetHeader(m, Host)
        r == Reverse(h)
        colon == Find(r, COLON)
        bracket == Find(r, RBRACKET)
        i == Len(h) - colon + 1
    IN  IF colon = 0 \/ (bracket # 0 /\ bracket < colon) THEN UriOf(secure, h, <<>>, m.uri)
        ELSE UriOf(secure, SubSeq(h, 1, i - 1), Drop(h, i), m.uri)

(***************************************************************************)
(* The handshake                                                           *)
(***************************************************************************)

\* is_websocket_handshake; the Connection header must name Upgrade
IsWebsocketHandshake(m) ==
    Contains(GetHeader(m, Upgrade), Websocket) /\ Contains(GetHeader(m, Connection), Upgrade[1])

\* get_websocket_version
GetWebsocketVersion(m) ==
    LET v == GetHeader(m, SecVersion)
    IN  IF v = <<>> THEN 0 ELSE IF IsNumber(v[1]) THEN v[1] - Number(0) ELSE -1

\* get_processor
VersionsSupported == {0, 7, 8, 13}

\* process_handshake_key: the accept value of a key, which tells keys apart
Accept(key) == <<1900>> \o key

\* validate_handshake of the two processors
ValidateHandshake(m, version) ==
    /\ m.method = <<GET>>
    /\ m.version = <<HTTP11>>
    /\ IF version = 0 THEN \A k \in {SecKey1, SecKey2, SecKey3} : GetHeader(m, k) # <<>>
       ELSE GetHeader(m, SecKey) # <<>>

\* process_handshake of hybi13
ProcessHandshake13(req, subprotocol, res) ==
    LET a == ReplaceHeader(res, SecAccept, Accept(GetHeader(req, SecKey)))
        b == AppendHeader(AppendHeader(a, Upgrade, <<Websocket>>), Connection, Upgrade)
    IN  IF subprotocol = <<>> THEN b ELSE ReplaceHeader(b, SecProtocol, subprotocol)

\* process_handshake of hybi00; get_raw moves the digest behind the headers.
ProcessHandshake00(req, subprotocol, res) ==
    LET digest == Accept(GetHeader(req, SecKey1) \o GetHeader(req, SecKey2) \o GetHeader(req, SecKey3))
        b == AppendHeader(AppendHeader(res, Upgrade, <<Websocket>>), Connection, Upgrade)
    IN  [b EXCEPT !.body = digest]

\* client_handshake_request, and the user agent that send_http_request adds
ClientHandshakeRequest(u, protocols, key) ==
    LET first == [NewRequest EXCEPT !.method = <<GET>>, !.uri = u.resource, !.version = <<HTTP11>>]
        joined == FlattenSeq([i \in DOMAIN protocols |->
                                 IF i = 1 THEN protocols[i] ELSE <<COMMA, SP>> \o protocols[i]])
        a == AppendHeader(AppendHeader(first, Upgrade, <<Websocket>>), Connection, Upgrade)
        b == ReplaceHeader(ReplaceHeader(a, SecVersion, <<Number(13)>>), Host, GetHostPort(u))
        c == IF protocols = <<>> THEN b ELSE ReplaceHeader(b, SecProtocol, joined)
    IN  ReplaceHeader(ReplaceHeader(c, SecKey, key), UserAgent, <<1040>>)

\* validate_server_handshake_response
ValidateServerHandshakeResponse(req, res) ==
    /\ res.status = 101
    /\ IsWebsocketHandshake(res)
    /\ GetHeader(res, SecAccept) = Accept(GetHeader(req, SecKey))

\* extract_subprotocols: a list with a syntax error counts as empty.
ParameterNames(p) == IF p.ok THEN [i \in DOMAIN p.list |-> p.list[i][1]] ELSE <<>>
ExtractSubprotocols(m) == ParameterNames(GetHeaderAsPlist(m, SecProtocol))
=============================================================================
