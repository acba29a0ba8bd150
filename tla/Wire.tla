---------------------------------- MODULE Wire ----------------------------------
(***************************************************************************)
(* Byte arrays, and the iterators that parsers move over them.             *)
(*                                                                         *)
(* A byte is a digit in base Base: 256 in the code.  A small base brings   *)
(* the sizes at which a length field overflows within reach.               *)
(***************************************************************************)
EXTENDS Integers, Sequences, SequencesExt

CONSTANT Base

\* n in w bytes, high byte first: what does not fit is cut off.
Digits(n, w) == [k \in 1 .. w |-> (n \div Base^(w - k)) % Base]

Number(digits) == FoldLeft(LAMBDA x, d : x * Base + d, 0, digits)

(***************************************************************************)
(* A parser gives its value and the position after it; position 0 is an    *)
(* exception.  A read past the end gives no value either.                  *)
(***************************************************************************)
Parsed(v, at) == [v |-> v, at |-> at]
Thrown == Parsed(<<>>, 0)

Then(r, Next(_)) == IF r.at = 0 THEN Thrown ELSE Next(r)

\* std::distance(begin, end)
Left(b, at) == Len(b) + 1 - at

Take(b, at, n) ==
  IF Left(b, at) < n THEN Thrown ELSE Parsed(SubSeq(b, at, at + n - 1), at + n)

\* parseUint16, parseUint32, and the single bytes
ParseUint(b, at, w) == Then(Take(b, at, w), LAMBDA r : Parsed(Number(r.v), r.at))

\* a size in w bytes, and that many bytes
ParseSized(b, at, w) == Then(ParseUint(b, at, w), LAMBDA n : Take(b, n.at, n.v))

\* n values of the parser P, one after the other
ParseMany(b, at, n, P(_, _)) ==
  LET first[k \in 0 .. n] ==
        IF k = 0 THEN Parsed(<<>>, at)
        ELSE Then(first[k - 1], LAMBDA r :
               Then(P(b, r.at), LAMBDA x : Parsed(Append(r.v, x.v), x.at)))
  IN  first[n]
=============================================================================
