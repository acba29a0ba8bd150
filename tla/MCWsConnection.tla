--------------------------- MODULE MCWsConnection ---------------------------
(***************************************************************************)
(* WsConnection with both ends of the library, with a foreign client of    *)
(* the console server, and with a client of a foreign server behind a      *)
(* proxy.                                                                  *)
(***************************************************************************)
EXTENDS WsConnection

\* Enough to make a request whole, in two reads, of every kind the server
\* distinguishes, and to follow it by a frame of every kind that matters.
MCForeignUnits ==
    [client |-> {Unit("head", ""), Unit("end", "ws"), Unit("end", "plain"), Unit("end", "ws0"),
                 Unit("key3", ""), Unit("ping", ""), Unit("close", "normal"), Unit("close", "invalid")},
     server |-> {Unit("head", ""), Unit("end", "101"), Unit("end", "400"),
                 Unit("bad", ""), Unit("close", "no_status")}]

MCCloseCodes == [client |-> {"normal"}, server |-> {"blank"}]
=============================================================================
