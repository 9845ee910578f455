------------------------------- MODULE Leb128 -------------------------------
(***************************************************************************)
(* leb128/leb128.h on base/stream.cc: numbers of Size bits in groups of G   *)
(* bits, a byte each, whose top bit says that another one follows.  The     *)
(* code has G = 7 and Size = 32 or 64; what matters is that Size is not a   *)
(* multiple of G.  The loops of Encode and Decode take a step per byte, and *)
(* Decode reads from a ByteStream that other calls use as well.             *)
(***************************************************************************)
EXTENDS Integers, Sequences

CONSTANTS
  G,         \* bits of a number in a byte: CHAR_BIT - 1
  Size,      \* bits of int_type
  IntBits,   \* bits of the int32_t that ReadBytes casts positions to
  MaxBytes   \* bound: bytes of a stream that was not encoded here

ASSUME WidthAssumption ==
  /\ G \in Nat \ {0} /\ Size \in Nat \ {0} /\ IntBits \in Nat \ {0}
  /\ MaxBytes \in Nat

VARIABLES
  buffer,    \* _buffer: the stream's bytes, or the output of Encode
  position,  \* _position
  doing,     \* the loop that is running: "idle", "encode" or "decode"
  signed,    \* whether its int_type is signed
  value,     \* value of Encode, result of Decode (its bits)
  shift,     \* Decode's shift
  byte,      \* Decode's byte
  source,    \* history: what was encoded, a set of at most one [n, signed]
  begin,     \* history: where the latest call began to read
  outcome    \* history: [call, result] of the latest call

streamVars == <<buffer, position, doing, signed, value, shift, byte, source,
                begin, outcome>>

\* The powers of two.
Pow2[n \in Nat] == IF n = 0 THEN 1 ELSE 2 * Pow2[n - 1]

LowMask == Pow2[G]
Bytes == 0..2 * LowMask - 1
Low(b) == b % LowMask
Continues(b) == b >= LowMask
SignBit(b) == Low(b) >= Pow2[G - 1]
Numbers(s) == IF s THEN -(Pow2[Size - 1])..Pow2[Size - 1] - 1
              ELSE 0..Pow2[Size] - 1
Groups == (Size + G - 1) \div G

\* The value of Size bits as a number of int_type.
AsType(bits, s) ==
  IF s /\ bits >= Pow2[Size - 1] THEN bits - Pow2[Size] ELSE bits

Call(c, r) == [call |-> c, result |-> r]
None == Call("none", <<>>)

(* A stream of any bytes, or an Encode of any number that is about to start. *)
StreamInit ==
  /\ position = 0 /\ begin = 0 /\ shift = 0 /\ byte = 0 /\ outcome = None
  /\ \/ /\ buffer \in UNION {[1..n -> Bytes] : n \in 0..MaxBytes}
        /\ doing = "idle" /\ signed = FALSE /\ value = 0 /\ source = {}
     \/ /\ buffer = <<>> /\ doing = "encode" /\ signed \in BOOLEAN
        /\ value \in Numbers(signed)
        /\ source = {[n |-> value, signed |-> signed]}

-----------------------------------------------------------------------------
Rest == value \div LowMask  \* value >>= CHAR_BIT - 1, arithmetic if signed

\* Mistake: the sign bit of the last byte is not looked at.
EncodesLastNoSign == Rest = 0 \/ (signed /\ Rest = -1)

\* Mistake: only zero ends the loop.
EncodesLastAtZero == Rest = 0 /\ (signed => ~SignBit(value))

(* The byte that is encoded is the last one.                                *)
EncodesLast ==
  IF signed THEN \/ Rest = 0 /\ ~SignBit(value)
                 \/ Rest = -1 /\ SignBit(value)
  ELSE Rest = 0

\* Bound: an output that is too long already is not made longer.
MaxOutput == Groups + 1

EncodeByte ==
  /\ doing = "encode"
  /\ Len(buffer) < MaxOutput
  /\ buffer' = Append(buffer, IF EncodesLast THEN Low(value)
                              ELSE Low(value) + LowMask)
  /\ value' = Rest
  /\ doing' = IF EncodesLast THEN "idle" ELSE "encode"
  /\ UNCHANGED <<position, signed, shift, byte, source, begin, outcome>>

-----------------------------------------------------------------------------
HasRemaining == position < Len(buffer)

\* What every call on the stream begins with; decoding is one of them.
Calls == doing = "idle" /\ begin' = position

Throws(e) == /\ outcome' = Call("throw", e)
             /\ doing' = "idle"
             /\ UNCHANGED position

ReadByte ==
  /\ Calls
  /\ IF HasRemaining
     THEN /\ outcome' = Call("ReadByte", <<buffer[position + 1]>>)
          /\ position' = position + 1
          /\ UNCHANGED doing
     ELSE Throws("EndOfStream")
  /\ UNCHANGED <<buffer, signed, value, shift, byte, source>>

PeekByte ==
  /\ Calls
  /\ IF HasRemaining
     THEN /\ outcome' = Call("PeekByte", <<buffer[position + 1]>>)
          /\ UNCHANGED <<position, doing>>
     ELSE Throws("EndOfStream")
  /\ UNCHANGED <<buffer, signed, value, shift, byte, source>>

Remainder == Len(buffer) - position

\* Mistake: the cast is to a type of half the range.
Int32Narrow(n) == LET bits == n % Pow2[IntBits - 1] IN
  IF bits >= Pow2[IntBits - 2] THEN bits - Pow2[IntBits - 1] ELSE bits

\* int32_t(n).
Int32(n) == LET bits == n % Pow2[IntBits] IN
            IF bits >= Pow2[IntBits - 1] THEN bits - Pow2[IntBits] ELSE bits

(* The bytes between two iterators (start and end in the code): outside the *)
(* buffer what is read is undefined.                                        *)
BytesBetween(from, to) ==
  [i \in 1..to - from |->
     IF from + i \in DOMAIN buffer THEN buffer[from + i] ELSE -1]

ReadBytes(n) ==
  /\ Calls
  /\ IF n <= Remainder
     THEN /\ outcome' =
               Call("ReadBytes",
                    BytesBetween(Int32(position), Int32(position) + Int32(n)))
          /\ position' = position + n
          /\ UNCHANGED doing
     ELSE Throws("EndOfStream")
  /\ UNCHANGED <<buffer, signed, value, shift, byte, source>>

Skip(n) ==
  /\ Calls
  /\ IF n <= Remainder
     THEN /\ outcome' = Call("Skip", <<>>)
          /\ position' = position + n
          /\ UNCHANGED doing
     ELSE Throws("EndOfStream")
  /\ UNCHANGED <<buffer, signed, value, shift, byte, source>>

-----------------------------------------------------------------------------
Decode(s) ==
  /\ Calls
  /\ doing' = "decode"
  /\ signed' = s /\ value' = 0 /\ shift' = 0
  /\ byte' = LowMask  \* continuation_bit_mask
  /\ outcome' = None
  /\ UNCHANGED <<buffer, position, source>>

(* The condition of Decode's loop.                                          *)
DecodesMore == shift < Size /\ Continues(byte)

(* One turn of the loop.  The bits that are shifted out of int_type are     *)
(* lost.                                                                    *)
DecodeByte ==
  /\ doing = "decode" /\ DecodesMore
  /\ IF HasRemaining
     THEN /\ byte' = buffer[position + 1]
          /\ position' = position + 1
          /\ value' = (value + Low(byte') * Pow2[shift]) % Pow2[Size]
          /\ shift' = shift + G
          /\ UNCHANGED <<doing, outcome>>
     ELSE Throws("EndOfStream") /\ UNCHANGED <<value, shift, byte>>
  /\ UNCHANGED <<buffer, signed, source, begin>>

\* Mistake: the sign is not extended.
ExtendedNever == value

(* Sign extension, unless the last group reached the top already.           *)
Extended == IF signed /\ shift < Size /\ SignBit(byte)
            THEN value + Pow2[Size] - Pow2[shift] ELSE value

DecodeReturns ==
  /\ doing = "decode" /\ ~DecodesMore
  /\ IF Continues(byte)
     THEN Throws("Overflow")
     ELSE /\ outcome' = Call("Decode", AsType(Extended, signed))
          /\ doing' = "idle"
          /\ UNCHANGED position
  /\ UNCHANGED <<buffer, signed, value, shift, byte, source, begin>>

StreamCall ==
  \/ ReadByte
  \/ PeekByte
  \/ \E n \in 0..MaxBytes + 1 : ReadBytes(n)
  \/ \E n \in 0..MaxBytes + 1 : Skip(n)

Loop == EncodeByte \/ DecodeByte \/ DecodeReturns

StreamNext == StreamCall \/ (\E s \in BOOLEAN : Decode(s)) \/ Loop

(* The loops run by themselves; nothing makes the program call.             *)
StreamSpec == StreamInit /\ [][StreamNext]_streamVars /\ WF_streamVars(Loop)

-----------------------------------------------------------------------------
(* Type invariant; the stream's position is never past its end.             *)
StreamTypeOK ==
  /\ \A i \in DOMAIN buffer : buffer[i] \in Bytes
  /\ position \in 0..Len(buffer)
  /\ begin \in 0..position
  /\ doing \in {"idle", "encode", "decode"}
  /\ signed \in BOOLEAN
  /\ value \in Numbers(FALSE) \cup Numbers(TRUE)
  /\ shift \in 0..Groups * G
  /\ byte \in Bytes

\* The groups of the bytes from p + 1 to i, for every i up to q.
Sums(bytes, p, q) ==
  LET sum[i \in p..q] ==
        IF i = p THEN 0
        ELSE sum[i - 1] + Low(bytes[i]) * Pow2[G * (i - 1 - p)]
  IN  sum

\* What the format says of the bytes from p + 1 to q.
Reference(bytes, p, q, s) ==
  LET sum == Sums(bytes, p, q)[q]
      n == IF s /\ SignBit(bytes[q]) THEN sum - Pow2[G * (q - p)] ELSE sum
  IN  AsType(n % Pow2[Size], s)
Ends(q) == ~Continues(buffer[q])
Unended(p, q) == \A i \in p + 1..q : Continues(buffer[i])

(* Decode returns what the bytes it consumed mean in int_type, and consumes *)
(* exactly one number; it throws Overflow exactly at numbers with more      *)
(* bytes than int_type needs, and EndOfStream exactly at one that is cut.   *)
DecodesReference ==
  /\ outcome.call = "Decode" =>
       /\ position \in begin + 1..begin + Groups
       /\ Ends(position) /\ Unended(begin, position - 1)
       /\ outcome.result = Reference(buffer, begin, position, signed)
  /\ outcome = Call("throw", "Overflow") =>
       position = begin + Groups /\ Unended(begin, position)
  /\ outcome = Call("throw", "EndOfStream") /\ position > begin =>
       position = Len(buffer) /\ Unended(begin, position)

\* Decode of the same int_type gives the number back and leaves no byte.
RoundTrip == \A x \in source :
  outcome.call = "Decode" /\ begin = 0 /\ signed = x.signed =>
    outcome.result = x.n /\ position = Len(buffer)

\* No first part of the output means the number already, and it never has
\* more bytes than int_type needs.
EncodesShortest == doing = "idle" => \A x \in source :
  /\ Len(buffer) \in 1..Groups
  /\ \A q \in 1..Len(buffer) - 1 : Reference(buffer, 0, q, x.signed) # x.n

(* Encode's output is what Decode turns back into the number, and the       *)
(* shortest there is.                                                       *)
EncodesCanonically == RoundTrip /\ EncodesShortest

(* ReadByte, PeekByte, ReadBytes and Skip see the stream's bytes in order,  *)
(* each once: what they return is what lies between the two positions,      *)
(* which never leave the buffer (StreamTypeOK).                             *)
BytesInOrder ==
  /\ StreamTypeOK
  /\ outcome.call \in {"ReadByte", "ReadBytes"} =>
       outcome.result = SubSeq(buffer, begin + 1, position)
  /\ outcome.call = "PeekByte" =>
       position = begin /\ outcome.result = <<buffer[position + 1]>>

(* Every Encode and every Decode ends, whatever the number or the bytes.    *)
EveryLoopEnds == doing # "idle" ~> doing = "idle"
=============================================================================
