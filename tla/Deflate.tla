-------------------------------- MODULE Deflate --------------------------------
(***************************************************************************)
(* The negotiation of permessage-deflate by a server: the settings it      *)
(* begins with, the parameters a client offers, the response, and the      *)
(* windows that zlib is initialised with.  The library has the extension;  *)
(* the console's configuration leaves it disabled.                         *)
(*                                                                         *)
(* The settings are [enabled; s2cAnew, c2sAnew: no context takeover;       *)
(* s2c, c2s: window bits; s2cMode, c2sMode].  A parameter is [name, value],*)
(* and the value is a number, or Empty.                                    *)
(***************************************************************************)
EXTENDS Integers, Sequences

Empty == -1
MinBits == 8
MaxBits == 15
DefaultBits == 15

Modes == {"accept", "decline", "largest", "smallest"}

Disabled ==
  [enabled |-> FALSE, s2cAnew |-> FALSE, c2sAnew |-> FALSE,
   s2c |-> DefaultBits, c2s |-> DefaultBits, s2cMode |-> "accept", c2sMode |-> "accept"]

Settable(bits) == bits \in MinBits .. MaxBits

EnableS2CNoContextTakeover(s) == [s EXCEPT !.s2cAnew = TRUE]
EnableC2SNoContextTakeover(s) == [s EXCEPT !.c2sAnew = TRUE]
SetS2CMaxWindowBits(s, bits, mode) ==
  IF Settable(bits) THEN [s EXCEPT !.s2c = bits, !.s2cMode = mode] ELSE s
SetC2SMaxWindowBits(s, bits, mode) ==
  IF Settable(bits) THEN [s EXCEPT !.c2s = bits, !.c2sMode = mode] ELSE s

\* uint8_t(atoi(value))
Bits(value) == IF value = Empty THEN 0 ELSE value % 256

\* Wrong choice: the largest value of the two is one that only one of them allows.
WindowOver(bits, mine, mode) ==
  CASE mode = "decline" -> DefaultBits
    [] mode = "accept" -> bits
    [] mode = "largest" -> IF bits < mine THEN mine ELSE bits
    [] mode = "smallest" -> MinBits

Window(bits, mine, mode) ==
  CASE mode = "decline" -> DefaultBits
    [] mode = "accept" -> bits
    [] mode = "largest" -> IF bits < mine THEN bits ELSE mine
    [] mode = "smallest" -> MinBits

-----------------------------------------------------------------------------
(* Each gives [ok, s].                                                     *)

NegotiateS2CNoContextTakeover(s, value) ==
  IF value # Empty THEN [ok |-> FALSE, s |-> s] ELSE [ok |-> TRUE, s |-> [s EXCEPT !.s2cAnew = TRUE]]

NegotiateC2SNoContextTakeover(s, value) ==
  IF value # Empty THEN [ok |-> FALSE, s |-> s] ELSE [ok |-> TRUE, s |-> [s EXCEPT !.c2sAnew = TRUE]]

NegotiateS2CMaxWindowBits(s, value) ==
  IF ~Settable(Bits(value)) THEN [ok |-> FALSE, s |-> [s EXCEPT !.s2c = DefaultBits]]
  ELSE [ok |-> TRUE, s |-> [s EXCEPT !.s2c = Window(Bits(value), @, s.s2cMode)]]

\* A client says with an empty value that it would take a limit.
NegotiateC2SMaxWindowBits(s, value) ==
  LET bits == IF value = Empty THEN DefaultBits ELSE Bits(value)
  IN  IF ~Settable(bits) THEN [ok |-> FALSE, s |-> [s EXCEPT !.c2s = DefaultBits]]
      ELSE [ok |-> TRUE, s |-> [s EXCEPT !.c2s = Window(bits, @, s.c2sMode)]]

\* The response tells the limits that are below the default.
GenerateResponse(s) ==
  [s2cAnew |-> s.s2cAnew, c2sAnew |-> s.c2sAnew,
   s2c |-> IF s.s2c < DefaultBits THEN s.s2c ELSE Empty,
   c2s |-> IF s.c2s < DefaultBits THEN s.c2s ELSE Empty]

\* The first parameter that is wrong ends it; what earlier ones changed stays.
Negotiate(s, offer) ==
  LET one(x, p) ==
        CASE p.name = "s2c_no_context_takeover" -> NegotiateS2CNoContextTakeover(x, p.value)
          [] p.name = "c2s_no_context_takeover" -> NegotiateC2SNoContextTakeover(x, p.value)
          [] p.name = "s2c_max_window_bits" -> NegotiateS2CMaxWindowBits(x, p.value)
          [] p.name = "c2s_max_window_bits" -> NegotiateC2SMaxWindowBits(x, p.value)
          [] OTHER -> [ok |-> FALSE, s |-> x]
      upTo[n \in 0 .. Len(offer)] ==
        IF n = 0 THEN [ok |-> TRUE, s |-> s]
        ELSE IF upTo[n - 1].ok THEN one(upTo[n - 1].s, offer[n]) ELSE upTo[n - 1]
      r == upTo[Len(offer)]
  IN  IF r.ok THEN [r EXCEPT !.s.enabled = TRUE] ELSE r

\* The windows of zlib: the server's side, whoever calls.
InitZlib(s) == [deflate |-> s.s2c, inflate |-> s.c2s]
=============================================================================
