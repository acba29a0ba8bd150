--------------------------------- MODULE Armour ---------------------------------
(***************************************************************************)
(* The wrappings of byte strings: the base-64 form of keys and hashes, the *)
(* gzip filters, the envelope of an SSU packet, and the bucket a key of    *)
(* the DHT falls in.                                                       *)
(***************************************************************************)
EXTENDS Integers, Sequences, SequencesExt, Bitwise

CONSTANTS KeySize,     \* bytes of a key of the DHT: 32
          BufferSize   \* bytes of the buffer of the gzip filters

-----------------------------------------------------------------------------
(* Base64.  A character is its index in b64chars; Pad is '='.              *)

Pad == 64

Quad(a) == <<a[1] \div 4, (a[1] % 4) * 16 + (a[2] \div 16),
             (a[2] % 16) * 4 + (a[3] \div 64), a[3] % 64>>

\* Groups of three bytes make four characters; a last group of i bytes is
\* filled with zeros and makes i + 1 characters, padded to four.
Encode(d) ==
  LET full == Len(d) \div 3
      i == Len(d) % 3
      tail == SubSeq(d, 3 * full + 1, Len(d)) \o <<0, 0>>
  IN  FlattenSeq([g \in 1 .. full |-> Quad(SubSeq(d, 3 * g - 2, 3 * g))])
      \o (IF i = 0 THEN <<>> ELSE SubSeq(Quad(tail), 1, i + 1) \o [n \in 1 .. 3 - i |-> Pad])

Triple(c) == <<((c[1] * 4) % 256) + ((c[2] % 64) \div 16),
               ((c[2] % 16) * 16) + ((c[3] % 64) \div 4), (c[3] % 4) * 64 + c[4]>>

\* Decoding stops at the first '='.  The fill of a last group of i
\* characters is not in the alphabet: std::string::npos, as a byte.
Decode(s) ==
  LET stop == {n \in 1 .. Len(s) : s[n] = Pad}
      chars == IF stop = {} THEN s ELSE SubSeq(s, 1, Min(stop) - 1)
      full == Len(chars) \div 4
      i == Len(chars) % 4
      tail == SubSeq(chars, 4 * full + 1, Len(chars)) \o <<255, 255, 255>>
  IN  FlattenSeq([g \in 1 .. full |-> Triple(SubSeq(chars, 4 * g - 3, 4 * g))])
      \o (IF i = 0 THEN <<>> ELSE SubSeq(Triple(tail), 1, i - 1))

-----------------------------------------------------------------------------
(* Kademlia::getBucket.                                                    *)

Log2(v) == CHOOSE n \in 0 .. 7 : 2^n <= v /\ v < 2^(n + 1)

Distance(k, ref) == [n \in 1 .. KeySize |-> k[n] ^^ ref[n]]

\* -1 is the largest size_t.
GetBucket(k, ref) ==
  LET d == Distance(k, ref)
      nonzero == {n \in 1 .. KeySize : d[n] # 0}
      n == Min(nonzero)
  IN  IF nonzero = {} THEN -1 ELSE 8 * KeySize - 1 - 8 * (n - 1) - (8 - Log2(d[n]))

-----------------------------------------------------------------------------
(* The gzip filters.  zlib is external: a compressed stream is a sequence  *)
(* of pieces, each the bytes it inflates to, that ends with End.  A call   *)
(* takes pieces until the output buffer is full: it may have taken the     *)
(* last piece and still hold output back.                                  *)

End == <<-1>>

\* z: [held, over, out], where out is what has been sent so far.
Fresh(out) == [held |-> <<>>, over |-> FALSE, out |-> out, rc |-> "ok", took |-> 0, sent |-> 0]

RECURSIVE Inflate(_, _, _)
Inflate(z, in, room) ==
  IF z.held # <<>> /\ room > 0
  THEN Inflate([z EXCEPT !.held = Tail(@), !.out = Append(@, Head(z.held)), !.sent = @ + 1],
               in, room - 1)
  ELSE IF z.held = <<>> /\ z.over THEN [z EXCEPT !.rc = "stream_end"]
  ELSE IF z.held # <<>> \/ in = <<>>
       THEN [z EXCEPT !.rc = IF z.took + z.sent > 0 THEN "ok" ELSE "buf_error"]
  ELSE Inflate([z EXCEPT !.held = IF Head(in) = End THEN <<>> ELSE Head(in),
                         !.over = Head(in) = End, !.took = @ + 1], Tail(in), room)

Call(z, in) == Inflate([z EXCEPT !.took = 0, !.sent = 0], in, BufferSize)

\* f: a filter, [z, noWrites, thrown].  After the end of a stream the rest
\* of the input is the next stream; clear() sets noWrites.
RECURSIVE InflateWrite(_, _)
InflateWrite(f, in) ==
  IF in = <<>> \/ f.thrown THEN f
  ELSE LET z == Call(f.z, in)
           rest == SubSeq(in, z.took + 1, Len(in))
       IN  IF z.rc = "buf_error" THEN [f EXCEPT !.thrown = TRUE]
           ELSE IF z.rc = "stream_end"
                THEN InflateWrite([f EXCEPT !.z = Fresh(z.out), !.noWrites = TRUE], rest)
                ELSE InflateWrite([f EXCEPT !.z = z], rest)

\* Wrong finish: the output that inflate holds back is not asked for.
InflateEndOnce(f) == LET z == Call(f.z, <<>>)
  IN  IF f.noWrites \/ f.thrown THEN f
      ELSE IF z.rc = "buf_error" THEN [f EXCEPT !.thrown = TRUE] ELSE [f EXCEPT !.z = z]

RECURSIVE InflateEnd(_)
InflateEnd(f) ==
  LET z == Call(f.z, <<>>)
  IN  IF f.noWrites \/ f.thrown THEN f
      ELSE CASE z.rc = "buf_error" -> [f EXCEPT !.thrown = TRUE]
             [] z.rc = "stream_end" -> [f EXCEPT !.z = z]
             [] z.rc = "ok" -> InflateEnd([f EXCEPT !.z = z])

(* Compression: pieces of one byte.  deflate takes all of the input, and   *)
(* gives what it likes of the result: the rest comes when it finishes.     *)
DeflateWrite(c, in) ==
  LET held == c.held \o [n \in 1 .. Len(in) |-> <<in[n]>>]
      k == Min({Len(held), BufferSize})
  IN  IF in = <<>> THEN c
      ELSE [held |-> SubSeq(held, k + 1, Len(held)), out |-> c.out \o SubSeq(held, 1, k)]

RECURSIVE DeflateEnd(_)
DeflateEnd(c) ==
  IF Len(c.held) < BufferSize THEN c.out \o c.held \o <<End>>
  ELSE DeflateEnd([held |-> SubSeq(c.held, BufferSize + 1, Len(c.held)),
                   out |-> c.out \o SubSeq(c.held, 1, BufferSize)])

Compress(writes) ==
  DeflateEnd(FoldLeft(DeflateWrite, [held |-> <<>>, out |-> <<>>], writes))

\* start_msg, the writes, end_msg
Decompress(writes) ==
  LET start == [z |-> Fresh(<<>>), noWrites |-> TRUE, thrown |-> FALSE]
      write(f, in) == InflateWrite([f EXCEPT !.noWrites = @ /\ in = <<>>], in)
  IN  InflateEnd(FoldLeft(write, start, writes))
=============================================================================
