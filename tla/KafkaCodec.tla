----------------------------- MODULE KafkaCodec -----------------------------
(***************************************************************************)
(* kafka/codec.py: the legacy message and message set, encoded byte for    *)
(* byte with their CRC-32C, then damaged on the way (one bit flipped, or   *)
(* the end cut off), then decoded.  Offsets count from 0 as in the code.   *)
(***************************************************************************)
EXTENDS Integers, Sequences, SequencesExt

CONSTANTS
  None,       \* a null key or value
  Keys,       \* keys to encode, byte strings or None
  Values,     \* values to encode, byte strings or None
  MaxRecords  \* bound: records in one message set

\* So many bytes leave the size of a message within 31 bits.
MaxBytes == 1000000000

ASSUME CodecAssumption ==
  /\ MaxRecords \in Nat
  /\ \A b \in Keys \cup Values : b = None \/ (b \in Seq(0..255) /\ Len(b) <= MaxBytes)

Records == [key : Keys, value : Values]

-----------------------------------------------------------------------------
(* CRC-32C.  A 32-bit word is the set of its bits that are 1.              *)

Word == 0..31
Xor(a, b) == (a \ b) \cup (b \ a)
Shift(c, n) == {i \in Word : i + n \in c}
Bits(b) == {i \in 0..7 : (b \div 2^i) % 2 = 1}

\* Byte n of a word, as write_uint32 writes it.
ByteOf(w, n) ==
  LET bit(i) == IF 8 * n + i \in w THEN 2^i ELSE 0
  IN  bit(0) + bit(1) + bit(2) + bit(3) + bit(4) + bit(5) + bit(6) + bit(7)

Poly == {3, 4, 5, 6, 8, 9, 11, 12, 13, 17, 18, 20, 21, 22, 23, 25, 31}  \* 0x82F63B78

Round(c) == IF 0 \in c THEN Xor(Shift(c, 1), Poly) ELSE Shift(c, 1)

\* Eight rounds for each byte.
CrcTable ==
  LET Twice(c) == Round(Round(c))
      FourTimes(c) == Twice(Twice(c))
  IN  [c \in SUBSET (0..7) |-> FourTimes(FourTimes(c))]

AddByte(c, b) == Xor(CrcTable[Xor(c, Bits(b)) \cap 0..7], Shift(c, 8))

Crc32c(data) ==
  LET After[i \in 0..Len(data)] == IF i = 0 THEN Word ELSE AddByte(After[i - 1], data[i])
      crc == Xor(After[Len(data)], Word)
  IN  <<ByteOf(crc, 3), ByteOf(crc, 2), ByteOf(crc, 1), ByteOf(crc, 0)>>

-----------------------------------------------------------------------------
(* Encoding.                                                               *)

Zeros(n) == [i \in 1..n |-> 0]

\* Four bytes, the high one first; a negative number in two's complement.
Int32(n) == <<(n \div 16777216) % 256, (n \div 65536) % 256, (n \div 256) % 256, n % 256>>

\* Slip: null is written as the empty string.
WriteBytes_NullIsEmpty(b) == IF b = None THEN Int32(0) ELSE Int32(Len(b)) \o b

WriteBytes(b) == IF b = None THEN Int32(-1) ELSE Int32(Len(b)) \o b

\* Magic 1, no attributes, timestamp 0.
EncodeMessage(r) ==
  LET body == <<1, 0>> \o Zeros(8) \o WriteBytes(r.key) \o WriteBytes(r.value)
  IN  Crc32c(body) \o body

EncodeSet(r) == LET m == EncodeMessage(r) IN Zeros(8) \o Int32(Len(m)) \o m

EncodeAll(rs) == FlattenSeq([i \in 1..Len(rs) |-> EncodeSet(rs[i])])

-----------------------------------------------------------------------------
(* Decoding.  Bad is any ValueError.                                       *)

Bad == [ok |-> FALSE, values |-> << >>]
Good(vs) == [ok |-> TRUE, values |-> vs]

ReadInt32(d, off) ==
  LET hi == IF d[off + 1] > 127 THEN d[off + 1] - 256 ELSE d[off + 1]
  IN  hi * 16777216 + d[off + 2] * 65536 + d[off + 3] * 256 + d[off + 4]

\* _read_nullable_bytes_at: what was read, and where it ends.
BytesAt(d, off) ==
  IF off + 4 > Len(d) THEN [ok |-> FALSE]
  ELSE LET n == ReadInt32(d, off)
       IN  IF n < 0 THEN [ok |-> TRUE, bytes |-> None, end |-> off + 4]
           ELSE IF n > Len(d) - (off + 4) THEN [ok |-> FALSE]
           ELSE [ok |-> TRUE, bytes |-> SubSeq(d, off + 5, off + 4 + n), end |-> off + 4 + n]

\* Slip: the checksum is not compared.
DecodeMessage_NoCrc(d) ==
  LET key == BytesAt(d, IF d[5] = 0 THEN 6 ELSE 14)
      value == BytesAt(d, key.end)
  IN  IF /\ Len(d) >= 14
         /\ d[5] \in {0, 1}
         /\ key.ok /\ value.ok
         /\ value.end = Len(d)
      THEN Good(<<value.bytes>>) ELSE Bad

\* Magic 0 has no timestamp; both carry a key and a value and nothing after them.
DecodeMessage(d) ==
  LET key == BytesAt(d, IF d[5] = 0 THEN 6 ELSE 14)
      value == BytesAt(d, key.end)
  IN  IF /\ Len(d) >= 14
         /\ d[5] \in {0, 1}
         /\ key.ok /\ value.ok
         /\ value.end = Len(d)
         /\ Crc32c(SubSeq(d, 5, Len(d))) = SubSeq(d, 1, 4)
      THEN Good(<<value.bytes>>) ELSE Bad

\* Slip: a message cut short at the end of the set is passed over.
DecodeSet_SkipsPartial(d) ==
  LET From[off \in 0..Len(d)] ==
        IF off = Len(d) \/ off + 12 > Len(d) THEN Good(<< >>)
        ELSE LET size == ReadInt32(d, off + 8)
             IN  IF size < 0 \/ size > Len(d) - (off + 12) THEN Good(<< >>)
                 ELSE LET m == DecodeMessage(SubSeq(d, off + 13, off + 12 + size))
                          rest == From[off + 12 + size]
                      IN  IF m.ok /\ rest.ok THEN Good(m.values \o rest.values) ELSE Bad
  IN  From[0]

\* decode_message_set_v1: an offset (unused), a size, a message, and again.
DecodeSet(d) ==
  LET From[off \in 0..Len(d)] ==
        IF off = Len(d) THEN Good(<< >>)
        ELSE IF off + 12 > Len(d) THEN Bad
        ELSE LET size == ReadInt32(d, off + 8)
             IN  IF size < 0 \/ size > Len(d) - (off + 12) THEN Bad
                 ELSE LET m == DecodeMessage(SubSeq(d, off + 13, off + 12 + size))
                          rest == From[off + 12 + size]
                      IN  IF m.ok /\ rest.ok THEN Good(m.values \o rest.values) ELSE Bad
  IN  From[0]

-----------------------------------------------------------------------------
(* From the encoder through a faulty medium to the decoder (the medium is  *)
(* external).                                                              *)

VARIABLES
  records,    \* what was encoded
  wire,       \* the bytes
  damage,     \* "none", "flip" or "cut"
  result      \* what was decoded

vars == <<records, wire, damage, result>>

Init ==
  /\ records \in BoundedSeq(Records, MaxRecords)
  /\ wire = EncodeAll(records)
  /\ damage = "none"
  /\ result = DecodeSet(wire)

Undamaged == damage = "none" /\ UNCHANGED records

FlipBit(i, b) ==
  /\ Undamaged
  /\ wire' = [wire EXCEPT ![i] = IF b \in Bits(@) THEN @ - 2^b ELSE @ + 2^b]
  /\ damage' = "flip"
  /\ result' = DecodeSet(wire')

Cut(n) ==
  /\ Undamaged
  /\ wire' = SubSeq(wire, 1, n)
  /\ damage' = "cut"
  /\ result' = DecodeSet(wire')

Next == \E i \in 1..Len(wire) :
  \/ \E b \in 0..7 : FlipBit(i, b)
  \/ Cut(i - 1)

Spec == Init /\ [][Next]_vars

-----------------------------------------------------------------------------
ValuesOf(rs) == [i \in 1..Len(rs) |-> rs[i].value]

\* What was encoded is decoded: null stays null and empty stays empty, whatever
\* the key and however many messages the set has.
RoundTrip == damage = "none" => result = Good(ValuesOf(records))

\* One flipped bit, in a length, a magic byte, a payload or the checksum itself,
\* never yields other values: it is an error, or it hit a byte that does not count.
OneBitIsNoticed == damage = "flip" => result \in {Bad, Good(ValuesOf(records))}

\* A set that was cut short is an error, except between two messages.
CutIsNoticed ==
  damage = "cut" /\ result.ok =>
    \E n \in 0..Len(records) :
      /\ result = Good(ValuesOf(SubSeq(records, 1, n)))
      /\ wire = EncodeAll(SubSeq(records, 1, n))
=============================================================================
