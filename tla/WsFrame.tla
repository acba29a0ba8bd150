------------------------------- MODULE WsFrame -------------------------------
(***************************************************************************)
(* The frames of RFC 6455 as websocketpp's frame.hpp builds and reads      *)
(* them, and the streaming UTF-8 validator.  A byte of a header is a       *)
(* number; a byte of a payload is 0..3 and stands for the type that the    *)
(* validator's table gives it (a single byte character, a continuation,    *)
(* the lead of two bytes, the lead of three).                              *)
(***************************************************************************)
EXTENDS Integers, Sequences, SequencesExt, Bitwise

CONSTANTS
    PayloadSizeBasic,   \* limits::payload_size_basic, 125 in the code
    LenBase,            \* values of a byte of a length field, 256 in the code
    KeyLen,             \* bytes of a masking key, 4 in the code
    WordSize            \* sizeof(size_t), a multiple of KeyLen

ASSUME WordAssumption == KeyLen > 0 /\ WordSize % KeyLen = 0

\* opcode::value
CONTINUATION == 0
TEXT == 1
BINARY == 2
CLOSE == 8
PING == 9
PONG == 10

Reserved(op) == op \in 3 .. 7 \/ op \in 11 .. 15
IsControl(op) == op >= 8

\* limits::payload_size_extended and the two codes of the 7-bit size
PayloadSizeExtended == LenBase * LenBase - 1
Code16 == PayloadSizeBasic + 1
Code64 == PayloadSizeBasic + 2

Bit(b) == IF b THEN 1 ELSE 0

\* basic_header(op, size, fin, mask, rsv1)
BasicHeader(op, size, fin, mask, rsv1) ==
    LET code == IF size <= PayloadSizeBasic THEN size
                ELSE IF size <= PayloadSizeExtended THEN Code16
                ELSE Code64
    IN  <<128 * Bit(fin) + 64 * Bit(rsv1) + op, 128 * Bit(mask) + code>>

GetFin(h) == h[1] >= 128
GetRsv1(h) == (h[1] \div 64) % 2 = 1
GetRsv2(h) == (h[1] \div 32) % 2 = 1
GetRsv3(h) == (h[1] \div 16) % 2 = 1
GetOpcode(h) == h[1] % 16
GetMasked(h) == h[2] >= 128
GetBasicSize(h) == h[2] % 128

\* The offset of the masking key in the extended header: the bytes that the
\* length takes.
GetMaskingKeyOffset(h) ==
    IF GetBasicSize(h) = Code16 THEN 2 ELSE IF GetBasicSize(h) = Code64 THEN 8 ELSE 0

GetHeaderLen(h) == 2 + GetMaskingKeyOffset(h) + (IF GetMasked(h) THEN KeyLen ELSE 0)

\* Numbers in network byte order
Digits(n, k) == [i \in 1 .. k |-> (n \div LenBase^(k - i)) % LenBase]
Value(ds) == FoldLeft(LAMBDA acc, d : acc * LenBase + d, 0, ds)

\* extended_header: copy_payload, and the key after it.
ExtendedHeader(size, key) ==
    (IF size <= PayloadSizeBasic THEN <<>>
     ELSE IF size <= PayloadSizeExtended THEN Digits(size, 2)
     ELSE Digits(size, 8)) \o key

\* prepare_header
PrepareHeader(h, e) == h \o SubSeq(e, 1, GetHeaderLen(h) - 2)

\* get_masking_key: zero when there is none.
GetMaskingKey(h, e) ==
    LET o == GetMaskingKeyOffset(h)
    IN  IF GetMasked(h) THEN SubSeq(e, o + 1, o + KeyLen) ELSE [i \in 1 .. KeyLen |-> 0]

GetExtendedSize(e) == Value(SubSeq(e, 1, 2))
GetJumboSize(e) == Value(SubSeq(e, 1, 8))

\* get_payload_size
GetPayloadSize(h, e) ==
    IF GetBasicSize(h) <= PayloadSizeBasic THEN GetBasicSize(h)
    ELSE IF GetBasicSize(h) = Code16 THEN GetExtendedSize(e)
    ELSE GetJumboSize(e)

Cyclic(k, i) == k[((i - 1) % Len(k)) + 1]

\* prepare_masking_key: the key, repeated to fill a machine word.
PrepareMaskingKey(key) == [i \in 1 .. WordSize |-> Cyclic(key, i)]

\* circshift_prepared_key, on the bytes of the word as they lie in memory.
\* (A shift by all of the word's bits, which an offset of zero asks for, is
\* undefined; whatever it yields is or'ed with the key or with nothing.)
CircshiftPreparedKey(pk, offset) == [i \in 1 .. WordSize |-> Cyclic(pk, i + offset)]

\* word_mask_exact: whole words with the prepared key, the rest byte by byte.
WordMaskExact(data, key) ==
    LET words == (Len(data) \div WordSize) * WordSize
        pk == PrepareMaskingKey(key)
    IN  [i \in DOMAIN data |-> IF i <= words THEN data[i] ^^ Cyclic(pk, i)
                               ELSE data[i] ^^ Cyclic(key, i)]

\* Wrong: the key starts over with every call.
WordMaskCircStill(data, pk) ==
    [out |-> [i \in DOMAIN data |-> data[i] ^^ Cyclic(pk, i)], key |-> pk]

\* word_mask_circ: the bytes, and the key to go on with.
WordMaskCirc(data, pk) ==
    [out |-> [i \in DOMAIN data |-> data[i] ^^ Cyclic(pk, i)],
     key |-> CircshiftPreparedKey(pk, Len(data) % WordSize)]

(***************************************************************************)
(* utf8_validator: the rows of utf8d for the states accept (0), reject (1) *)
(* and one or two continuation bytes to come (2, 3).                       *)
(***************************************************************************)
Utf8d == <<<<0, 1, 2, 3>>, <<1, 1, 1, 1>>, <<1, 0, 1, 1>>, <<1, 2, 1, 1>>>>

\* validator::decode, which stops at the first byte that is refused
Utf8Decode(state, bytes) ==
    FoldLeft(LAMBDA s, b : IF s = 1 THEN 1 ELSE Utf8d[s + 1][b + 1], state, bytes)

\* utf8_validator::validate
Utf8Validate(bytes) == Utf8Decode(0, bytes) = 0
=============================================================================
