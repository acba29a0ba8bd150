------------------------------ MODULE DataPacket ------------------------------
(***************************************************************************)
(* The DATA packets of SSU as pure functions: how OutboundMessageState cuts *)
(* a message into fragments, and how PacketBuilder::buildData writes, and   *)
(* InboundMessageFragments::receiveData reads, a fragment's header and the  *)
(* bitfield of a partial acknowledgement.                                   *)
(***************************************************************************)
EXTENDS Integers, Sequences

CONSTANT MaxFragmentSize   \* maxFragmentSize of fragment(): 1120 bytes

\* The weights of the fields in a fragment's header.
NumUnit  == 2^17
LastUnit == 2^16
SizeUnit == 2^14

ASSUME FragmentSizeAssumption == MaxFragmentSize \in 1..(SizeUnit - 1)

-----------------------------------------------------------------------------
(* OutboundMessageState::fragment                                            *)

\* The size above which fragment() throws.
MaxMessageSize == 16383 * 127

FragmentCount(size) == (size + MaxFragmentSize - 1) \div MaxFragmentSize

\* Wrong step: the minimum with what is left is not taken.
StepUnbounded(size, i) == MaxFragmentSize

\* The bytes in fragment i of a message.
Step(size, i) ==
  LET left == size - i * MaxFragmentSize
  IN  IF left < MaxFragmentSize THEN left ELSE MaxFragmentSize

\* The flag is set on a short fragment: a message whose size is a multiple of
\* MaxFragmentSize has no last fragment.
IsLast(size, i) == Step(size, i) < MaxFragmentSize

\* The header of a fragment: 7 bits number, 1 bit last, 2 bits unused, 14 bits
\* size.  fragNum is a uint8_t, and of the 32-bit value three bytes are written.
EncodeFragInfo(i, last, bytes) ==
  ((i % 256) * NumUnit + (IF last THEN LastUnit ELSE 0) + bytes) % (128 * NumUnit)

DecodeFragNum(info) == info \div NumUnit
DecodeIsLast(info) == (info \div LastUnit) % 2 = 1
DecodeFragSize(info) == info % SizeUnit

FragInfo(size, i) == EncodeFragInfo(i, IsLast(size, i), Step(size, i))

-----------------------------------------------------------------------------
(* The bitfield of a partial acknowledgement                                 *)

\* Bit k of the vector getFragmentsReceived() returns, as a number.
Received(v, k) == IF k < Len(v) /\ v[k + 1] THEN 1 ELSE 0

\* Byte b of the bitfield, from 0: the high bit says that another byte follows,
\* the others are fragments 7b .. 7b+6 from the high end.
AckByte(v, b, more) ==
  (IF more THEN 128 ELSE 0)
    + 64 * Received(v, 7 * b) + 32 * Received(v, 7 * b + 1)
    + 16 * Received(v, 7 * b + 2) + 8 * Received(v, 7 * b + 3)
    + 4 * Received(v, 7 * b + 4) + 2 * Received(v, 7 * b + 5)
    + Received(v, 7 * b + 6)

EncodeAck(v) ==
  LET steps == (Len(v) + 6) \div 7
  IN  [b \in 1..steps |-> AckByte(v, b - 1, b < steps)]

Bit(byte, i) == (byte \div 2^i) % 2 = 1

\* The bytes the decoder reads: up to the first one without the high bit.
IsRead(bytes, b) == \A c \in 1..(b - 1) : Bit(bytes[c], 7)

\* The fragment numbers the decoder marks as acknowledged.
DecodeAck(bytes) ==
  {7 * (x[1] - 1) + x[2] : x \in
     {y \in (1..Len(bytes)) \X (0..6) :
        IsRead(bytes, y[1]) /\ Bit(bytes[y[1]], 6 - y[2])}}
=============================================================================
