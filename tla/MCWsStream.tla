----------------------------- MODULE MCWsStream -----------------------------
(***************************************************************************)
(* Requests, answers and frames for WsStream: lawful ones, and one for     *)
(* each way the parsers and processors tell an unlawful one.               *)
(***************************************************************************)
EXTENDS WsStream

Raw(lines) == FlattenSeq([i \in DOMAIN lines |-> lines[i] \o <<CR, LF>>]) \o <<CR, LF>>
Line(key, val) == key \o <<COLON, SP>> \o val

Key == <<1201>>
P1 == <<1301>>
P2 == <<1302>>
First == <<GET, SP, SLASH, SP, HTTP11>>
HostLine == Line(Host, <<1401, COLON, Number(90)>>)
UpgradeLine == Line(Upgrade, <<Websocket>>)
ConnectionLine == Line(Connection, <<1402>>)
ConnectionLine2 == Connection \o <<COLON, SP, SP>> \o Upgrade \o <<SP>>
VersionLine(n) == Line(SecVersion, <<Number(n)>>)
KeyLine == Line(SecKey, Key)
Base(n) == <<First, HostLine, UpgradeLine, ConnectionLine, ConnectionLine2, VersionLine(n), KeyLine>>
Without(lines, i) == SubSeq(lines, 1, i - 1) \o SubSeq(lines, i + 1, Len(lines))
Instead(lines, i, l) == [lines EXCEPT ![i] = l]

Foreigners ==
    LET b == Base(13) IN
    {Raw(b), Raw(Base(7)), Raw(Base(99)), Raw(Instead(b, 6, Line(SecVersion, <<1403>>)))}
    \cup {Raw(Without(b, i)) : i \in {1, 2, 3, 5, 7}}
    \cup {Raw(Instead(b, 1, l)) : l \in {<<POST, SP, SLASH, SP, HTTP11>>, <<GET, SP, SLASH, SP, HTTP10>>,
                                         <<GET, SP, SLASH>>, <<QUOTE, SP, SLASH, SP, HTTP11>>, <<>>}}
    \cup {Raw(Instead(b, 2, l)) : l \in {Line(Host, <<1401, COLON, Number(0)>>), Line(Host, <<1401, COLON, 1404>>),
                                         Line(Host, <<LBRACKET, COLON, 1405, RBRACKET>>), Host,
                                         Line(<<1010, SP, 1010>>, <<1401>>)}}
    \cup {Raw(Append(b, Line(SecExtensions, v))) :
            v \in {<<1501, SEMICOLON, 1502, EQUALS, QUOTE, 1503, BACKSLASH, QUOTE, QUOTE, SEMICOLON, 1504, COMMA, SP, 1505>>,
                   <<1501, SEMICOLON, 1502, EQUALS, 1503, SEMICOLON, SP, 1504, EQUALS>>,
                   <<1501, SEMICOLON>>, <<1501, COMMA>>, <<COMMA, 1501>>, <<1501, EQUALS>>}}
    \cup {Raw(b \o [i \in 1 .. 14 |-> Line(UserAgent, <<1406>>)])}

Asking(kind, uri, protocols, raw, talk) ==
    [kind |-> kind, old |-> FALSE, answers |-> {<<>>}, uri |-> uri, protocols |-> protocols, key |-> Key, raw |-> raw,
     choices |-> IF protocols = <<>> THEN {<<>>} ELSE {<<>>, P1, P2}, talk |-> talk]

Uris == {ParseUri(u) : u \in {<<SchemeWs, 1401>>, <<SchemeWs, 1401, COLON, Number(90), SLASH, Resource>>,
                              <<SchemeWs, LBRACKET, 1405, RBRACKET, SLASH>>}}

Answer == <<<<HTTP11, SP, Number(101), SP, 1701>>, UpgradeLine, ConnectionLine2, Line(SecAccept, Accept(Key))>>

MCAnswers ==
    {Raw(Answer)}
    \cup {Raw(Without(Answer, i)) : i \in 1 .. 4}
    \cup {Raw(Instead(Answer, 1, l)) : l \in {<<HTTP11, SP, Number(200), SP>>, <<HTTP11, SP, Number(101)>>,
                                              <<HTTP11, SP, 1701, SP>>, <<>>}}
    \cup {Raw(Append(Answer, l)) : l \in {Upgrade, Line(ContentLength, <<1702>>)}}
    \cup {Raw(Append(Answer, Line(ContentLength, <<Number(2)>>))) \o <<7, 8>>}
    \cup {Raw(Answer \o [i \in 1 .. 14 |-> Line(UserAgent, <<1406>>)])}

Old == <<First, HostLine, UpgradeLine, ConnectionLine2, Line(SecKey1, <<1601>>), Line(SecKey2, <<1602>>)>>
Older(raw, talk) == [Asking("foreignClient", NoUri, <<>>, raw, talk) EXCEPT !.old = TRUE]
Answered(answers, talk) ==
    [Asking("foreignServer", ParseUri(<<SchemeWs, 1401>>), <<>>, <<>>, talk) EXCEPT !.answers = answers]

MCRequests ==
    {Asking("library", u, p, <<>>, FALSE) : u \in Uris, p \in {<<>>, <<P1>>, <<P2, P1>>}}
    \cup {Asking("library", ParseUri(<<SchemeWs, 1401>>), <<>>, <<>>, TRUE)}
    \cup {Asking("foreignClient", NoUri, <<>>, r, FALSE) : r \in Foreigners}
    \cup {Older(Raw(Old), FALSE), Older(Raw(Without(Old, 5)) \o <<1, 2>>, FALSE), Older(Raw(Old) \o <<1, 2>>, TRUE)}
    \cup {Asking("foreignClient", NoUri, <<>>, Raw(Base(8)), TRUE)}
    \cup {Answered(MCAnswers, FALSE), Answered({Raw(Answer)}, TRUE)}

Frame(by, op, fin, payload) ==
    [by |-> by, op |-> op, fin |-> fin, payload |-> payload,
     rsv |-> 0, odd |-> FALSE, code |-> "least", key |-> <<1, 2>>]

LibraryFrames ==
    {Frame("library", TEXT, TRUE, <<0, 2, 1>>), Frame("library", BINARY, FALSE, <<3, 1, 2, 0, 1>>),
     Frame("library", CONTINUATION, TRUE, <<3>>), Frame("library", PING, TRUE, <<0, 3>>),
     Frame("library", CLOSE, TRUE, <<>>)}

ForeignFrames ==
    {Frame("foreign", PING, TRUE, <<1>>), Frame("foreign", TEXT, FALSE, <<0, 3>>),
     Frame("foreign", CONTINUATION, FALSE, <<1>>), Frame("foreign", CONTINUATION, TRUE, <<1, 1, 0>>),
     Frame("foreign", TEXT, TRUE, <<2>>), Frame("foreign", BINARY, FALSE, <<0, 0, 0, 1>>),
     Frame("foreign", PING, FALSE, <<>>), Frame("foreign", 3, TRUE, <<>>), Frame("foreign", PING, TRUE, <<0, 0, 0>>),
     [Frame("foreign", BINARY, TRUE, <<>>) EXCEPT !.rsv = 4], [Frame("foreign", BINARY, TRUE, <<>>) EXCEPT !.odd = TRUE],
     [Frame("foreign", BINARY, TRUE, <<1>>) EXCEPT !.code = "16"],
     [Frame("foreign", BINARY, TRUE, <<1, 2, 3>>) EXCEPT !.code = "64"]}

MCFrames == LibraryFrames \cup ForeignFrames

\* A text message in two parts, of which the second is empty
MCTextFrames == {Frame("foreign", TEXT, FALSE, <<2>>), Frame("foreign", CONTINUATION, TRUE, <<>>)}
MCTextRequests == {r \in MCRequests : r.kind = "foreignClient" /\ ~r.old /\ r.talk}
=============================================================================
