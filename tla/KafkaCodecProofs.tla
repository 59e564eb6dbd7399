-------------------------- MODULE KafkaCodecProofs --------------------------
(***************************************************************************)
(* Any set of messages of any bytes comes back as it was encoded, and one  *)
(* flipped bit or a cut anywhere in it is noticed.                         *)
(***************************************************************************)
EXTENDS KafkaCodec, SequenceTheorems, WellFoundedInduction, TLAPS

\* Induction over the naturals, as a fact about a set.
LEMMA SetInduction ==
  ASSUME NEW S, 0 \in S, \A n \in Nat : n \in S => n + 1 \in S
  PROVE  Nat \subseteq S
  <1> DEFINE T == Nat \ S
             R == OpToRel(<, Nat)
  <1>1. \A x, y \in Nat : y < x => <<y, x>> \in R
    BY DEF OpToRel
  <1>2. IsWellFoundedOn(R, Nat)
    BY NatLessThanWellFounded
  <1> HIDE DEF R
  <1>3. SUFFICES ASSUME T # {} PROVE FALSE
    OBVIOUS
  <1>4. T \subseteq Nat
    OBVIOUS
  <1> HIDE DEF T
  <1>5. PICK x \in T : \A y \in T : ~ (<<y, x>> \in R)
    BY <1>2, <1>3, <1>4, WFMin
  <1> USE DEF T
  <1>6. x # 0 /\ x \in Nat
    OBVIOUS
  <1>7. x - 1 \in Nat /\ x - 1 < x /\ (x - 1) + 1 = x
    BY <1>6
  <1>8. x - 1 \notin T
    BY <1>1, <1>5, <1>6, <1>7
  <1> QED
    BY <1>7, <1>8

\* What a concatenation has where,
LEMMA ConcatAt ==
  ASSUME NEW s \in Seq(0..255), NEW t \in Seq(0..255)
  PROVE  /\ s \o t \in Seq(0..255) /\ Len(s \o t) = Len(s) + Len(t)
         /\ \A i \in 1..Len(s) : (s \o t)[i] = s[i]
         /\ \A i \in 1..Len(t) : (s \o t)[Len(s) + i] = t[i]
  OBVIOUS

\* and what a part of a sequence.
LEMMA PartAt ==
  ASSUME NEW d \in Seq(0..255), NEW o \in Nat, NEW n \in Nat, o + n <= Len(d)
  PROVE  /\ SubSeq(d, o + 1, o + n) \in Seq(0..255) /\ Len(SubSeq(d, o + 1, o + n)) = n
         /\ \A k \in 1..n : SubSeq(d, o + 1, o + n)[k] = d[o + k]
  <1> DEFINE E == 0..255
  <1>1. d \in Seq(E)
    OBVIOUS
  <1> HIDE DEF E
  <1>2. /\ SubSeq(d, o + 1, o + n) \in Seq(E) /\ Len(SubSeq(d, o + 1, o + n)) = n
        /\ \A k \in 1..n : SubSeq(d, o + 1, o + n)[k] = d[(o + 1) + k - 1]
    BY <1>1
  <1>3. \A k \in 1..n : (o + 1) + k - 1 = o + k
    OBVIOUS
  <1> QED
    BY <1>2, <1>3 DEF E

-----------------------------------------------------------------------------
(* Words.                                                                  *)

\* Two words have the same bits from l to h.
Agree(a, b, l, h) == \A i \in l..h : i \in a <=> i \in b

LEMMA XorCancels ==
  ASSUME NEW a, NEW b, NEW s, Xor(a, s) = Xor(b, s)
  PROVE  a = b
  <1>1. \A i : i \in Xor(a, s) <=> ~ (i \in a <=> i \in s)
    BY DEF Xor
  <1>2. \A i : i \in Xor(b, s) <=> ~ (i \in b <=> i \in s)
    BY DEF Xor
  <1> QED
    BY <1>1, <1>2

LEMMA XorComm == ASSUME NEW a, NEW b PROVE Xor(a, b) = Xor(b, a)
  BY DEF Xor

LEMMA RoundType == ASSUME NEW c PROVE Round(c) \in SUBSET Word
  <1>1. Shift(c, 1) \subseteq Word
    BY DEF Shift
  <1>2. Poly \subseteq Word
    BY DEF Poly, Word
  <1> QED
    BY <1>1, <1>2 DEF Round, Xor

\* What a round makes of each bit,
LEMMA RoundBit ==
  ASSUME NEW c \in SUBSET Word, NEW i \in Word
  PROVE  i \in Round(c) <=> ~ (i + 1 \in c <=> (0 \in c /\ i \in Poly))
  BY DEF Round, Xor, Shift

\* so that the highest bits of its outcome tell whether the lowest bit was set, and
\* the bits above them;
LEMMA RoundBack ==
  ASSUME NEW a \in SUBSET Word, NEW b \in SUBSET Word, NEW l \in 1..31,
         Agree(Round(a), Round(b), l, 31)
  PROVE  (0 \in a <=> 0 \in b) /\ Agree(a, b, l + 1, 31)
  <1>1. 32 \notin a /\ 32 \notin b /\ 31 \in Poly /\ 31 \in Word
    BY DEF Word, Poly
  <1>2. 31 \in Round(a) <=> 0 \in a
    <2>1. 31 \in Round(a) <=> ~ (31 + 1 \in a <=> (0 \in a /\ 31 \in Poly))
      BY <1>1, RoundBit
    <2>2. 31 + 1 = 32
      OBVIOUS
    <2> QED
      BY <1>1, <2>1, <2>2
  <1>3. 31 \in Round(b) <=> 0 \in b
    <2>1. 31 \in Round(b) <=> ~ (31 + 1 \in b <=> (0 \in b /\ 31 \in Poly))
      BY <1>1, RoundBit
    <2>2. 31 + 1 = 32
      OBVIOUS
    <2> QED
      BY <1>1, <2>1, <2>2
  <1>4. 31 \in Round(a) <=> 31 \in Round(b)
    BY DEF Agree
  <1>5. ASSUME NEW i \in l+1..31 PROVE i \in a <=> i \in b
    <2>1. i - 1 \in Word /\ i - 1 \in l..31 /\ (i - 1) + 1 = i
      BY DEF Word
    <2>2. i - 1 \in Round(a) <=> i - 1 \in Round(b)
      BY <2>1 DEF Agree
    <2>3. i - 1 \in Round(a) <=> ~ (i \in a <=> (0 \in a /\ i - 1 \in Poly))
      BY <2>1, RoundBit
    <2>4. i - 1 \in Round(b) <=> ~ (i \in b <=> (0 \in b /\ i - 1 \in Poly))
      BY <2>1, RoundBit
    <2> QED
      BY <1>2, <1>3, <1>4, <2>2, <2>3, <2>4
  <1> QED
    BY <1>2, <1>3, <1>4, <1>5 DEF Agree

\* and its lowest bits, with that one, tell the bits above them.
LEMMA RoundOn ==
  ASSUME NEW a \in SUBSET Word, NEW b \in SUBSET Word, NEW h \in 0..30,
         0 \in a <=> 0 \in b, Agree(Round(a), Round(b), 0, h)
  PROVE  Agree(a, b, 0, h + 1)
  <1> SUFFICES ASSUME NEW i \in 1..h+1 PROVE i \in a <=> i \in b
    BY DEF Agree
  <1>1. i - 1 \in Word /\ i - 1 \in 0..h /\ (i - 1) + 1 = i
    BY DEF Word
  <1>2. i - 1 \in Round(a) <=> i - 1 \in Round(b)
    BY <1>1 DEF Agree
  <1>3. i - 1 \in Round(a) <=> ~ (i \in a <=> (0 \in a /\ i - 1 \in Poly))
    BY <1>1, RoundBit
  <1>4. i - 1 \in Round(b) <=> ~ (i \in b <=> (0 \in b /\ i - 1 \in Poly))
    BY <1>1, RoundBit
  <1> QED
    BY <1>2, <1>3, <1>4

\* The highest byte of an entry of the table tells which entry it is.
LEMMA TableEntries ==
  ASSUME NEW x \in SUBSET (0..7), NEW y \in SUBSET (0..7),
         Agree(CrcTable[x], CrcTable[y], 24, 31)
  PROVE  x = y
  <1> DEFINE x1 == Round(x)   x2 == Round(x1)  x3 == Round(x2)  x4 == Round(x3)
             x5 == Round(x4)  x6 == Round(x5)  x7 == Round(x6)  x8 == Round(x7)
             y1 == Round(y)   y2 == Round(y1)  y3 == Round(y2)  y4 == Round(y3)
             y5 == Round(y4)  y6 == Round(y5)  y7 == Round(y6)  y8 == Round(y7)
  <1>1. CrcTable[x] = x8 /\ CrcTable[y] = y8
    BY DEF CrcTable
  <1>2. /\ x \in SUBSET Word /\ y \in SUBSET Word
        /\ {x1, x2, x3, x4, x5, x6, x7} \subseteq SUBSET Word
        /\ {y1, y2, y3, y4, y5, y6, y7} \subseteq SUBSET Word
    BY RoundType DEF Word
  <1> HIDE DEF x1, x2, x3, x4, x5, x6, x7, x8, y1, y2, y3, y4, y5, y6, y7, y8
  <1>3. (0 \in x7 <=> 0 \in y7) /\ Agree(x7, y7, 25, 31)
    BY <1>1, <1>2, RoundBack DEF x8, y8
  <1>4. (0 \in x6 <=> 0 \in y6) /\ Agree(x6, y6, 26, 31)
    BY <1>2, <1>3, RoundBack DEF x7, y7
  <1>5. (0 \in x5 <=> 0 \in y5) /\ Agree(x5, y5, 27, 31)
    BY <1>2, <1>4, RoundBack DEF x6, y6
  <1>6. (0 \in x4 <=> 0 \in y4) /\ Agree(x4, y4, 28, 31)
    BY <1>2, <1>5, RoundBack DEF x5, y5
  <1>7. (0 \in x3 <=> 0 \in y3) /\ Agree(x3, y3, 29, 31)
    BY <1>2, <1>6, RoundBack DEF x4, y4
  <1>8. (0 \in x2 <=> 0 \in y2) /\ Agree(x2, y2, 30, 31)
    BY <1>2, <1>7, RoundBack DEF x3, y3
  <1>9. (0 \in x1 <=> 0 \in y1) /\ Agree(x1, y1, 31, 31)
    BY <1>2, <1>8, RoundBack DEF x2, y2
  <1>10. 0 \in x <=> 0 \in y
    BY <1>2, <1>9, RoundBack DEF x1, y1
  <1>11. Agree(x7, y7, 0, 0)
    BY <1>3 DEF Agree
  <1>12. Agree(x6, y6, 0, 1)
    BY <1>2, <1>4, <1>11, RoundOn DEF x7, y7
  <1>13. Agree(x5, y5, 0, 2)
    BY <1>2, <1>5, <1>12, RoundOn DEF x6, y6
  <1>14. Agree(x4, y4, 0, 3)
    BY <1>2, <1>6, <1>13, RoundOn DEF x5, y5
  <1>15. Agree(x3, y3, 0, 4)
    BY <1>2, <1>7, <1>14, RoundOn DEF x4, y4
  <1>16. Agree(x2, y2, 0, 5)
    BY <1>2, <1>8, <1>15, RoundOn DEF x3, y3
  <1>17. Agree(x1, y1, 0, 6)
    BY <1>2, <1>9, <1>16, RoundOn DEF x2, y2
  <1>18. Agree(x, y, 0, 7)
    BY <1>2, <1>10, <1>17, RoundOn DEF x1, y1
  <1> QED
    BY <1>18 DEF Agree

-----------------------------------------------------------------------------
(* The checksum.                                                           *)

LEMMA AddByteType == ASSUME NEW c, NEW b PROVE AddByte(c, b) \in SUBSET Word
  <1> DEFINE x == Xor(c, Bits(b)) \cap 0..7
  <1>1. x \in SUBSET (0..7)
    OBVIOUS
  <1> HIDE DEF x
  <1>2. CrcTable[x] \in SUBSET Word
    BY <1>1, RoundType DEF CrcTable
  <1>3. Shift(c, 8) \in SUBSET Word
    BY DEF Shift
  <1> QED
    BY <1>2, <1>3 DEF AddByte, Xor, x

\* Sums of powers of two that are equal are so term by term.
LEMMA SumsOfBits ==
  ASSUME NEW a0 \in {0, 1}, NEW a1 \in {0, 2}, NEW a2 \in {0, 4}, NEW a3 \in {0, 8},
         NEW a4 \in {0, 16}, NEW a5 \in {0, 32}, NEW a6 \in {0, 64}, NEW a7 \in {0, 128},
         NEW b0 \in {0, 1}, NEW b1 \in {0, 2}, NEW b2 \in {0, 4}, NEW b3 \in {0, 8},
         NEW b4 \in {0, 16}, NEW b5 \in {0, 32}, NEW b6 \in {0, 64}, NEW b7 \in {0, 128},
         a0 + a1 + a2 + a3 + a4 + a5 + a6 + a7 = b0 + b1 + b2 + b3 + b4 + b5 + b6 + b7
  PROVE  /\ a0 = b0 /\ a1 = b1 /\ a2 = b2 /\ a3 = b3
         /\ a4 = b4 /\ a5 = b5 /\ a6 = b6 /\ a7 = b7
  OBVIOUS

\* A byte is the number of its bits.
NumberOf(s) ==
  (IF 0 \in s THEN 1 ELSE 0) + (IF 1 \in s THEN 2 ELSE 0)
    + (IF 2 \in s THEN 4 ELSE 0) + (IF 3 \in s THEN 8 ELSE 0)
    + (IF 4 \in s THEN 16 ELSE 0) + (IF 5 \in s THEN 32 ELSE 0)
    + (IF 6 \in s THEN 64 ELSE 0) + (IF 7 \in s THEN 128 ELSE 0)

LEMMA BitsOfByte == ASSUME NEW b \in 0..255 PROVE b = NumberOf(Bits(b))
  <1>1. /\ 2^0 = 1 /\ 2^1 = 2 /\ 2^2 = 4 /\ 2^3 = 8
        /\ 2^4 = 16 /\ 2^5 = 32 /\ 2^6 = 64 /\ 2^7 = 128
    OBVIOUS
  <1>2. /\ 0 \in Bits(b) <=> (b \div 2^0) % 2 = 1
        /\ 1 \in Bits(b) <=> (b \div 2^1) % 2 = 1
        /\ 2 \in Bits(b) <=> (b \div 2^2) % 2 = 1
        /\ 3 \in Bits(b) <=> (b \div 2^3) % 2 = 1
        /\ 4 \in Bits(b) <=> (b \div 2^4) % 2 = 1
        /\ 5 \in Bits(b) <=> (b \div 2^5) % 2 = 1
        /\ 6 \in Bits(b) <=> (b \div 2^6) % 2 = 1
        /\ 7 \in Bits(b) <=> (b \div 2^7) % 2 = 1
    BY DEF Bits
  <1>3. /\ 0 \in Bits(b) <=> b % 2 = 1
        /\ 1 \in Bits(b) <=> (b \div 2) % 2 = 1
        /\ 2 \in Bits(b) <=> (b \div 4) % 2 = 1
        /\ 3 \in Bits(b) <=> (b \div 8) % 2 = 1
        /\ 4 \in Bits(b) <=> (b \div 16) % 2 = 1
        /\ 5 \in Bits(b) <=> (b \div 32) % 2 = 1
        /\ 6 \in Bits(b) <=> (b \div 64) % 2 = 1
        /\ 7 \in Bits(b) <=> (b \div 128) % 2 = 1
    <2>1. b \div 1 = b
      OBVIOUS
    <2> QED
      BY <1>1, <1>2, <2>1
  <1> QED
    BY <1>3 DEF NumberOf

LEMMA BitsInjective ==
  ASSUME NEW a \in 0..255, NEW b \in 0..255, Bits(a) = Bits(b)
  PROVE  a = b
  BY BitsOfByte

\* Another byte added to the same checksum makes another one,
LEMMA AddByteOfByte ==
  ASSUME NEW c, NEW a \in 0..255, NEW b \in 0..255, AddByte(c, a) = AddByte(c, b)
  PROVE  a = b
  <1> DEFINE x == Xor(c, Bits(a)) \cap 0..7
             y == Xor(c, Bits(b)) \cap 0..7
  <1>1. CrcTable[x] = CrcTable[y]
    BY XorCancels DEF AddByte
  <1>2. x = y
    <2>1. x \in SUBSET (0..7) /\ y \in SUBSET (0..7)
      OBVIOUS
    <2> HIDE DEF x, y
    <2>2. Agree(CrcTable[x], CrcTable[y], 24, 31)
      BY <1>1 DEF Agree
    <2> QED
      BY <2>1, <2>2, TableEntries
  <1>3. Bits(a) = Bits(b)
    <2>1. Bits(a) \subseteq 0..7 /\ Bits(b) \subseteq 0..7
      BY DEF Bits
    <2>2. \A i \in 0..7 : i \in Bits(a) <=> i \in Bits(b)
      BY <1>2 DEF Xor
    <2> QED
      BY <2>1, <2>2
  <1> QED
    BY <1>3, BitsInjective

\* and so does the same byte added to another one.
LEMMA AddByteOfWord ==
  ASSUME NEW c \in SUBSET Word, NEW d \in SUBSET Word, NEW b, AddByte(c, b) = AddByte(d, b)
  PROVE  c = d
  <1> DEFINE x == Xor(c, Bits(b)) \cap 0..7
             y == Xor(d, Bits(b)) \cap 0..7
  <1>1. Xor(CrcTable[x], Shift(c, 8)) = Xor(CrcTable[y], Shift(d, 8))
    BY DEF AddByte
  <1>2. x \in SUBSET (0..7) /\ y \in SUBSET (0..7)
    OBVIOUS
  <1> HIDE DEF x, y
  <1>3. Agree(CrcTable[x], CrcTable[y], 24, 31)
    <2> SUFFICES ASSUME NEW i \in 24..31 PROVE i \in CrcTable[x] <=> i \in CrcTable[y]
      BY DEF Agree
    <2>1. i \notin Shift(c, 8) /\ i \notin Shift(d, 8)
      BY DEF Shift, Word
    <2>2. i \in Xor(CrcTable[x], Shift(c, 8)) <=> i \in CrcTable[x]
      BY <2>1 DEF Xor
    <2>3. i \in Xor(CrcTable[y], Shift(d, 8)) <=> i \in CrcTable[y]
      BY <2>1 DEF Xor
    <2> QED
      BY <1>1, <2>2, <2>3
  <1>4. x = y
    BY <1>2, <1>3, TableEntries
  <1>5. Shift(c, 8) = Shift(d, 8)
    <2>1. Xor(Shift(c, 8), CrcTable[x]) = Xor(Shift(d, 8), CrcTable[x])
      BY <1>1, <1>4, XorComm
    <2> QED
      BY <2>1, XorCancels
  <1>6. ASSUME NEW i \in Word PROVE i \in c <=> i \in d
    <2>1. CASE i \in 0..7
      BY <1>4, <2>1 DEF x, y, Xor
    <2>2. CASE i \in 8..31
      <3>1. i - 8 \in Word /\ (i - 8) + 8 = i
        BY <2>2 DEF Word
      <3>2. i - 8 \in Shift(c, 8) <=> i \in c
        BY <3>1 DEF Shift
      <3>3. i - 8 \in Shift(d, 8) <=> i \in d
        BY <3>1 DEF Shift
      <3> QED
        BY <1>5, <3>2, <3>3
    <2> QED
      BY <2>1, <2>2 DEF Word
  <1> QED
    BY <1>6

\* A byte of a word tells the bits of that byte.
LEMMA ByteOfBits ==
  ASSUME NEW v, NEW n \in 0..3
  PROVE  /\ ByteOf(v, n) \in 0..255
         /\ \A w : ByteOf(v, n) = ByteOf(w, n) =>
                    \A i \in 0..7 : 8 * n + i \in v <=> 8 * n + i \in w
  <1>1. /\ 2^0 = 1 /\ 2^1 = 2 /\ 2^2 = 4 /\ 2^3 = 8
        /\ 2^4 = 16 /\ 2^5 = 32 /\ 2^6 = 64 /\ 2^7 = 128
    OBVIOUS
  <1> DEFINE Bit(w, i, p) == IF 8 * n + i \in w THEN p ELSE 0
             Sum(w) == Bit(w, 0, 1) + Bit(w, 1, 2) + Bit(w, 2, 4) + Bit(w, 3, 8)
                         + Bit(w, 4, 16) + Bit(w, 5, 32) + Bit(w, 6, 64) + Bit(w, 7, 128)
  <1>2. \A w : ByteOf(w, n) = Sum(w)
    BY <1>1 DEF ByteOf
  <1>3. ByteOf(v, n) \in 0..255
    BY <1>2
  <1>4. ASSUME NEW w, ByteOf(v, n) = ByteOf(w, n)
        PROVE  \A i \in 0..7 : 8 * n + i \in v <=> 8 * n + i \in w
    <2>1. Sum(v) = Sum(w)
      BY <1>2, <1>4
    <2>3. \A p \in {1, 2, 4, 8, 16, 32, 64, 128} : \A i :
            Bit(v, i, p) = Bit(w, i, p) => (8 * n + i \in v <=> 8 * n + i \in w)
      OBVIOUS
    <2>6. /\ Bit(v, 0, 1) \in {0, 1} /\ Bit(v, 1, 2) \in {0, 2} /\ Bit(v, 2, 4) \in {0, 4}
          /\ Bit(v, 3, 8) \in {0, 8} /\ Bit(v, 4, 16) \in {0, 16} /\ Bit(v, 5, 32) \in {0, 32}
          /\ Bit(v, 6, 64) \in {0, 64} /\ Bit(v, 7, 128) \in {0, 128}
      OBVIOUS
    <2>7. /\ Bit(w, 0, 1) \in {0, 1} /\ Bit(w, 1, 2) \in {0, 2} /\ Bit(w, 2, 4) \in {0, 4}
          /\ Bit(w, 3, 8) \in {0, 8} /\ Bit(w, 4, 16) \in {0, 16} /\ Bit(w, 5, 32) \in {0, 32}
          /\ Bit(w, 6, 64) \in {0, 64} /\ Bit(w, 7, 128) \in {0, 128}
      OBVIOUS
    <2> HIDE DEF Bit
    <2>4. /\ Bit(v, 0, 1) = Bit(w, 0, 1) /\ Bit(v, 1, 2) = Bit(w, 1, 2)
          /\ Bit(v, 2, 4) = Bit(w, 2, 4) /\ Bit(v, 3, 8) = Bit(w, 3, 8)
          /\ Bit(v, 4, 16) = Bit(w, 4, 16) /\ Bit(v, 5, 32) = Bit(w, 5, 32)
          /\ Bit(v, 6, 64) = Bit(w, 6, 64) /\ Bit(v, 7, 128) = Bit(w, 7, 128)
      BY <2>1, <2>6, <2>7, SumsOfBits, SMTT(60)
    <2>5. \A i \in 0..7 : i \in {0, 1, 2, 3, 4, 5, 6, 7}
      OBVIOUS
    <2> QED
      BY <2>3, <2>4, <2>5
  <1> QED
    BY <1>3, <1>4

\* The checksums of the beginnings of data, each out of the one before it: one function
\* is what the recursion of Crc32c says.
Sums(f, data, n) == f = [i \in 0..n |-> IF i = 0 THEN Word ELSE AddByte(f[i - 1], data[i])]

LEMMA SumsExist ==
  ASSUME NEW data, NEW n \in Nat
  PROVE  \E f : Sums(f, data, n)
  <1> DEFINE S == {k \in Nat : \E f : Sums(f, data, k)}
  <1>1. 0 \in S
    <2> DEFINE f == [i \in 0..0 |-> Word]
    <2>1. Sums(f, data, 0)
      BY DEF Sums
    <2> QED
      BY <2>1
  <1>2. ASSUME NEW k \in Nat, k \in S PROVE k + 1 \in S
    <2>1. PICK g : Sums(g, data, k)
      BY <1>2
    <2> DEFINE f == [i \in 0..k+1 |-> IF i = k + 1 THEN AddByte(g[k], data[i]) ELSE g[i]]
    <2>2. ASSUME NEW i \in 0..k+1
          PROVE  f[i] = IF i = 0 THEN Word ELSE AddByte(f[i - 1], data[i])
      <3>1. CASE i = k + 1
        <4>1. i - 1 = k /\ k \in 0..k+1 /\ k # k + 1 /\ i # 0
          BY <3>1
        <4>2. f[k] = g[k] /\ f[i] = AddByte(g[k], data[i])
          BY <3>1, <4>1
        <4> QED
          BY <4>1, <4>2
      <3>2. CASE i \in 0..k
        <4>1. f[i] = g[i] /\ g[i] = IF i = 0 THEN Word ELSE AddByte(g[i - 1], data[i])
          BY <2>1, <3>2 DEF Sums
        <4>2. i # 0 => i - 1 \in 0..k+1 /\ i - 1 # k + 1
          BY <3>2
        <4>3. i # 0 => f[i - 1] = g[i - 1]
          BY <4>2
        <4> QED
          BY <4>1, <4>3
      <3> QED
        BY <3>1, <3>2
    <2>3. Sums(f, data, k + 1)
      BY <2>2 DEF Sums
    <2> QED
      BY <2>3
  <1> HIDE DEF S
  <1>3. n \in S
    BY <1>1, <1>2, SetInduction
  <1> QED
    BY <1>3 DEF S

Written(crc) == <<ByteOf(crc, 3), ByteOf(crc, 2), ByteOf(crc, 1), ByteOf(crc, 0)>>

LEMMA CrcIs ==
  ASSUME NEW data \in Seq(0..255)
  PROVE  \E f : /\ Sums(f, data, Len(data))
                /\ Crc32c(data) = Written(Xor(f[Len(data)], Word))
  <1> DEFINE After[i \in 0..Len(data)] == IF i = 0 THEN Word ELSE AddByte(After[i - 1], data[i])
  <1>1. \E f : f = [i \in 0..Len(data) |-> IF i = 0 THEN Word ELSE AddByte(f[i - 1], data[i])]
    BY SumsExist DEF Sums
  <1>2. After = [i \in 0..Len(data) |-> IF i = 0 THEN Word ELSE AddByte(After[i - 1], data[i])]
    BY <1>1
  <1>3. Crc32c(data) = Written(Xor(After[Len(data)], Word))
    BY DEF Crc32c, Written
  <1> QED
    BY <1>2, <1>3 DEF Sums

LEMMA SumsTypes ==
  ASSUME NEW data, NEW n \in Nat, NEW f, Sums(f, data, n)
  PROVE  \A i \in 0..n : f[i] \in SUBSET Word
  <1> SUFFICES ASSUME NEW i \in 0..n PROVE f[i] \in SUBSET Word
    OBVIOUS
  <1>1. f[i] = IF i = 0 THEN Word ELSE AddByte(f[i - 1], data[i])
    BY DEF Sums
  <1>2. AddByte(f[i - 1], data[i]) \in SUBSET Word
    BY AddByteType
  <1> QED
    BY <1>1, <1>2

\* Different words are written as different bytes.
LEMMA WrittenInjective ==
  ASSUME NEW v \in SUBSET Word, NEW w \in SUBSET Word,
         Written(Xor(v, Word)) = Written(Xor(w, Word))
  PROVE  v = w
  <1> DEFINE x == Xor(v, Word)
             y == Xor(w, Word)
  <1>1. \A n \in 0..3 : ByteOf(x, n) = ByteOf(y, n)
    BY DEF Written
  <1> HIDE DEF x, y
  <1>2. ASSUME NEW i \in Word PROVE i \in x <=> i \in y
    <2>1. i \div 8 \in 0..3 /\ i % 8 \in 0..7 /\ 8 * (i \div 8) + (i % 8) = i
      BY DEF Word
    <2>2. ByteOf(x, i \div 8) = ByteOf(y, i \div 8)
      BY <1>1, <2>1
    <2> QED
      BY <2>1, <2>2, ByteOfBits
  <1>3. x \subseteq Word /\ y \subseteq Word
    BY DEF x, y, Xor
  <1>4. x = y
    BY <1>2, <1>3
  <1> QED
    BY <1>4, XorCancels DEF x, y

LEMMA CrcType ==
  ASSUME NEW data \in Seq(0..255)
  PROVE  Crc32c(data) \in Seq(0..255) /\ Len(Crc32c(data)) = 4
  <1>1. PICK w : Crc32c(data) = Written(w)
    BY CrcIs
  <1>2. /\ ByteOf(w, 0) \in 0..255 /\ ByteOf(w, 1) \in 0..255
        /\ ByteOf(w, 2) \in 0..255 /\ ByteOf(w, 3) \in 0..255
    BY ByteOfBits
  <1> QED
    BY <1>1, <1>2 DEF Written

\* The checksum of data with one byte changed is another one.
LEMMA CrcNoticesByte ==
  ASSUME NEW data \in Seq(0..255), NEW other \in Seq(0..255), Len(other) = Len(data),
         NEW p \in 1..Len(data), other[p] # data[p],
         \A i \in 1..Len(data) : i # p => other[i] = data[i]
  PROVE  Crc32c(other) # Crc32c(data)
  <1> DEFINE n == Len(data)
  <1>1. PICK f : Sums(f, data, n) /\ Crc32c(data) = Written(Xor(f[n], Word))
    BY CrcIs
  <1>2. PICK g : Sums(g, other, n) /\ Crc32c(other) = Written(Xor(g[n], Word))
    BY CrcIs
  <1> HIDE DEF n
  <1>3. n = Len(data) /\ n \in Nat /\ p \in 1..n
    BY DEF n
  <1>4. \A i \in 0..n : f[i] \in SUBSET Word /\ g[i] \in SUBSET Word
    BY <1>1, <1>2, <1>3, SumsTypes
  <1>5. \A i \in 1..n : f[i] = AddByte(f[i - 1], data[i]) /\ g[i] = AddByte(g[i - 1], other[i])
    <2> SUFFICES ASSUME NEW i \in 1..n
                 PROVE  /\ f[i] = AddByte(f[i - 1], data[i])
                        /\ g[i] = AddByte(g[i - 1], other[i])
      OBVIOUS
    <2>1. i \in 0..n /\ i # 0
      BY <1>3
    <2> QED
      BY <1>1, <1>2, <2>1 DEF Sums
  <1>6. f[0] = Word /\ g[0] = Word
    BY <1>1, <1>2, <1>3 DEF Sums
  <1> DEFINE S == {i \in Nat : i <= n => (i < p <=> f[i] = g[i])}
  <1>7. 0 \in S
    BY <1>3, <1>6
  <1>8. ASSUME NEW i \in Nat, i \in S PROVE i + 1 \in S
    <2> SUFFICES ASSUME i + 1 <= n PROVE i + 1 < p <=> f[i + 1] = g[i + 1]
      OBVIOUS
    <2>1. i < p <=> f[i] = g[i]
      BY <1>3, <1>8
    <2>2. i + 1 \in 1..n /\ (i + 1) - 1 = i /\ i \in 0..n
      BY <1>3
    <2>3. f[i + 1] = AddByte(f[i], data[i + 1]) /\ g[i + 1] = AddByte(g[i], other[i + 1])
      BY <1>5, <2>2
    <2>4. CASE i + 1 < p
      <3>1. f[i] = g[i] /\ other[i + 1] = data[i + 1]
        BY <1>3, <2>1, <2>2, <2>4
      <3> QED
        BY <2>3, <2>4, <3>1
    <2>5. CASE i + 1 = p
      <3>1. f[i] = g[i] /\ other[i + 1] # data[i + 1]
        BY <1>3, <2>1, <2>5
      <3>2. data[i + 1] \in 0..255 /\ other[i + 1] \in 0..255
        <4>1. i + 1 \in 1..Len(data) /\ i + 1 \in 1..Len(other)
          BY <1>3, <2>2
        <4> QED
          BY <4>1, ElementOfSeq
      <3>3. AddByte(f[i], data[i + 1]) # AddByte(f[i], other[i + 1])
        BY <3>1, <3>2, AddByteOfByte
      <3>4. f[i + 1] # g[i + 1]
        BY <2>3, <3>1, <3>3
      <3> QED
        BY <2>5, <3>4
    <2>6. CASE i + 1 > p
      <3>1. f[i] # g[i] /\ other[i + 1] = data[i + 1]
        BY <1>3, <2>1, <2>2, <2>6
      <3>2. f[i + 1] # g[i + 1]
        BY <1>4, <2>2, <2>3, <3>1, AddByteOfWord
      <3> QED
        BY <2>6, <3>2
    <2> QED
      BY <1>3, <2>4, <2>5, <2>6
  <1>9. n \in S
    <2> HIDE DEF S
    <2> QED
      BY <1>3, <1>7, <1>8, SetInduction
  <1>10. f[n] # g[n]
    BY <1>3, <1>9
  <1> QED
    BY <1>1, <1>2, <1>3, <1>4, <1>10, WrittenInjective

-----------------------------------------------------------------------------
(* Numbers and fields.                                                     *)

\* The highest number that four bytes hold.
MaxInt == 2147483647

LEMMA Limits == MaxBytes \in Nat /\ MaxInt \in Nat /\ 2 * MaxBytes + 100 <= MaxInt
  BY SMT DEF MaxBytes, MaxInt

LEMMA HighByte == ASSUME NEW n \in Int, -1 <= n, n <= MaxInt PROVE n \div 16777216 \in -1..127
  <1> DEFINE q == n \div 16777216
             r == n % 16777216
  <1>1. n = 16777216 * q + r /\ 0 <= r /\ r <= 16777215 /\ r \in Int /\ q \in Int
    BY SMT
  <1>2. -1 <= n /\ n <= 2147483647
    BY SMT DEF MaxInt
  <1> HIDE DEF q, r
  <1>3. -1 <= q /\ q <= 127
    BY <1>1, <1>2, SMT
  <1> QED
    BY <1>1, <1>3, SMT DEF q

LEMMA Int32Is ==
  ASSUME NEW n \in Int, -1 <= n, n <= MaxInt
  PROVE  /\ Int32(n) \in Seq(0..255) /\ Len(Int32(n)) = 4
         /\ \A i \in 1..4 : Int32(n)[i] \in 0..255
  <1>1. /\ (n \div 16777216) % 256 \in 0..255 /\ (n \div 65536) % 256 \in 0..255
        /\ (n \div 256) % 256 \in 0..255 /\ n % 256 \in 0..255
    BY SMT
  <1> QED
    BY <1>1, SMT DEF Int32

\* What is written as four bytes is read back.
LEMMA ReadsWritten ==
  ASSUME NEW n \in Int, -1 <= n, n <= MaxInt, NEW d, NEW off,
         d[off + 1] = Int32(n)[1], d[off + 2] = Int32(n)[2],
         d[off + 3] = Int32(n)[3], d[off + 4] = Int32(n)[4]
  PROVE  ReadInt32(d, off) = n
  <1> DEFINE a == (n \div 16777216) % 256
             b == (n \div 65536) % 256
             c == (n \div 256) % 256
             e == n % 256
  <1>1. d[off + 1] = a /\ d[off + 2] = b /\ d[off + 3] = c /\ d[off + 4] = e
    BY SMT DEF Int32
  <1>2. ReadInt32(d, off) = (IF a > 127 THEN a - 256 ELSE a) * 16777216 + b * 65536 + c * 256 + e
    BY <1>1, SMT DEF ReadInt32
  <1>3. n = 256 * (n \div 256) + e
    BY SMT
  <1>4. n \div 256 = 256 * (n \div 65536) + c
    BY SMT
  <1>5. n \div 65536 = 256 * (n \div 16777216) + b
    BY SMT
  <1>6. (IF a > 127 THEN a - 256 ELSE a) = n \div 16777216
    <2>1. n \div 16777216 \in -1..127
      BY HighByte, SMT
    <2>2. a = IF n \div 16777216 = -1 THEN 255 ELSE n \div 16777216
      BY <2>1, SMT
    <2> QED
      BY <2>1, <2>2, SMT
  <1> DEFINE hi == n \div 16777216
  <1>7. hi \in Int /\ b \in Int /\ c \in Int /\ e \in Int
    BY SMT
  <1>8. n = 256 * (256 * (256 * hi + b) + c) + e
    BY <1>3, <1>4, <1>5, SMT
  <1>9. ReadInt32(d, off) = hi * 16777216 + b * 65536 + c * 256 + e
    BY <1>2, <1>6, SMT
  <1> HIDE DEF hi, b, c, e
  <1> QED
    BY <1>7, <1>8, <1>9, SMT

\* What the wire format can carry as a key or a value.
IsField(b) == b = None \/ (b \in Seq(0..255) /\ Len(b) <= MaxBytes)

SizeOf(b) == IF b = None THEN 4 ELSE 4 + Len(b)

LEMMA FieldIs ==
  ASSUME NEW b, IsField(b)
  PROVE  /\ WriteBytes(b) \in Seq(0..255) /\ Len(WriteBytes(b)) = SizeOf(b)
         /\ SizeOf(b) \in 4..(MaxBytes + 4)
         /\ \A j \in 1..4 : WriteBytes(b)[j] = Int32(IF b = None THEN -1 ELSE Len(b))[j]
         /\ b # None => \A j \in 1..Len(b) : WriteBytes(b)[4 + j] = b[j]
  <1>1. CASE b = None
    BY <1>1, Int32Is, Limits DEF WriteBytes, SizeOf
  <1>2. CASE b # None
    <2>1. b \in Seq(0..255) /\ Len(b) \in 0..MaxBytes /\ WriteBytes(b) = Int32(Len(b)) \o b
      BY <1>2 DEF IsField, WriteBytes
    <2>2. Int32(Len(b)) \in Seq(0..255) /\ Len(Int32(Len(b))) = 4
      BY <2>1, Int32Is, Limits
    <2>3. /\ WriteBytes(b) \in Seq(0..255) /\ Len(WriteBytes(b)) = 4 + Len(b)
          /\ \A j \in 1..4 : WriteBytes(b)[j] = Int32(Len(b))[j]
          /\ \A j \in 1..Len(b) : WriteBytes(b)[4 + j] = b[j]
      <3> DEFINE w == Int32(Len(b))
      <3>1. w \in Seq(0..255) /\ Len(w) = 4 /\ b \in Seq(0..255)
        BY <2>1, <2>2
      <3> HIDE DEF w
      <3>2. /\ w \o b \in Seq(0..255) /\ Len(w \o b) = 4 + Len(b)
            /\ \A j \in 1..4 : (w \o b)[j] = w[j]
            /\ \A j \in 1..Len(b) : (w \o b)[4 + j] = b[j]
        <4>1. /\ w \o b \in Seq(0..255) /\ Len(w \o b) = Len(w) + Len(b)
              /\ \A j \in 1..Len(w) : (w \o b)[j] = w[j]
              /\ \A j \in 1..Len(b) : (w \o b)[Len(w) + j] = b[j]
          BY <3>1, ConcatAt, Zenon
        <4> QED
          BY <3>1, <4>1
      <3> QED
        BY <2>1, <3>2 DEF w
    <2>4. 4 + Len(b) \in 4..(MaxBytes + 4)
      BY <2>1, Limits
    <2> QED
      BY <1>2, <2>3, <2>4 DEF SizeOf
  <1> QED
    BY <1>1, <1>2

\* A field is read back if all of it is there, and not at all if the data ends in it.
LEMMA FieldRead ==
  ASSUME NEW b, IsField(b), NEW d \in Seq(0..255), NEW off \in Nat,
         \A j \in 1..SizeOf(b) : off + j <= Len(d) => d[off + j] = WriteBytes(b)[j]
  PROVE  /\ off + SizeOf(b) <= Len(d) =>
              BytesAt(d, off) = [ok |-> TRUE, bytes |-> b, end |-> off + SizeOf(b)]
         /\ off + SizeOf(b) > Len(d) => BytesAt(d, off) = [ok |-> FALSE]
  <1> DEFINE n == IF b = None THEN -1 ELSE Len(b)
  <1>1. SizeOf(b) \in 4..(MaxBytes + 4) /\ Len(d) \in Nat /\ MaxBytes \in Nat
    BY FieldIs, Limits
  <1>2. CASE off + 4 > Len(d)
    BY <1>1, <1>2 DEF BytesAt
  <1>3. CASE off + 4 <= Len(d)
    <2>1. n \in Int /\ -1 <= n /\ n <= MaxInt
      BY Limits DEF IsField
    <2>2. \A j \in 1..4 : d[off + j] = Int32(n)[j]
      <3> SUFFICES ASSUME NEW j \in 1..4 PROVE d[off + j] = Int32(n)[j]
        OBVIOUS
      <3>1. j \in 1..SizeOf(b) /\ off + j <= Len(d)
        BY <1>1, <1>3
      <3> QED
        BY <3>1, FieldIs
    <2>3. ReadInt32(d, off) = n
      <3>1. /\ d[off + 1] = Int32(n)[1] /\ d[off + 2] = Int32(n)[2]
            /\ d[off + 3] = Int32(n)[3] /\ d[off + 4] = Int32(n)[4]
        BY <2>2
      <3> HIDE DEF n
      <3> QED
        BY <2>1, <3>1, ReadsWritten
    <2>4. CASE b = None
      BY <1>1, <1>3, <2>3, <2>4 DEF BytesAt, SizeOf
    <2>5. CASE b # None
      <3>1. n = Len(b) /\ n \in Nat /\ SizeOf(b) = 4 + n /\ b \in Seq(0..255)
        BY <2>5 DEF IsField, SizeOf
      <3>2. CASE off + SizeOf(b) > Len(d)
        BY <1>1, <1>3, <2>3, <3>1, <3>2 DEF BytesAt
      <3>3. CASE off + SizeOf(b) <= Len(d)
        <4> DEFINE o == off + 4
                   s == SubSeq(d, o + 1, o + n)
        <4>1. /\ o \in Nat /\ o + n <= Len(d) /\ o + 1 = off + 5 /\ o + n = off + 4 + n
              /\ o + n = off + SizeOf(b)
          BY <1>1, <3>1, <3>3
        <4> HIDE DEF n, o
        <4>2. s \in Seq(0..255) /\ Len(s) = n /\ \A k \in 1..n : s[k] = d[o + k]
          BY <3>1, <4>1, PartAt, ZenonT(60)
        <4>3. ASSUME NEW k \in 1..n PROVE s[k] = b[k]
          <5>1. 4 + k \in 1..SizeOf(b) /\ off + (4 + k) <= Len(d) /\ off + (4 + k) = o + k
            BY <1>1, <3>1, <3>3 DEF o
          <5>2. d[o + k] = WriteBytes(b)[4 + k]
            BY <5>1
          <5>3. WriteBytes(b)[4 + k] = b[k]
            BY <2>5, <3>1, FieldIs
          <5> QED
            BY <4>2, <5>2, <5>3
        <4> HIDE DEF s
        <4>4. s = b
          BY <3>1, <4>2, <4>3, SeqEqual
        <4>5. ~ (n < 0) /\ ~ (n > Len(d) - (off + 4)) /\ ~ (off + 4 > Len(d))
          BY <1>1, <1>3, <3>1, <3>3
        <4>6. BytesAt(d, off) = [ok |-> TRUE, bytes |-> s, end |-> off + 4 + n]
          BY <2>3, <4>1, <4>5 DEF BytesAt, s
        <4> QED
          <5>1. ~ (off + SizeOf(b) > Len(d))
            BY <1>1, <3>3
          <5>2. BytesAt(d, off) = [ok |-> TRUE, bytes |-> b, end |-> off + SizeOf(b)]
            BY <4>1, <4>4, <4>6
          <5> QED
            BY <5>1, <5>2
      <3> QED
        BY <1>1, <3>2, <3>3
    <2> QED
      BY <2>4, <2>5
  <1> QED
    BY <1>1, <1>2, <1>3

-----------------------------------------------------------------------------
(* One message.                                                            *)

Body(r) == <<1, 0>> \o Zeros(8) \o WriteBytes(r.key) \o WriteBytes(r.value)

LEMMA HeadIs ==
  /\ <<1, 0>> \o Zeros(8) \in Seq(0..255) /\ Len(<<1, 0>> \o Zeros(8)) = 10
  /\ (<<1, 0>> \o Zeros(8))[1] = 1
  <1>1. <<1, 0>> \in Seq(0..255) /\ Len(<<1, 0>>) = 2 /\ <<1, 0>>[1] = 1
    OBVIOUS
  <1>2. Zeros(8) \in Seq(0..255) /\ Len(Zeros(8)) = 8
    BY DEF Zeros
  <1> DEFINE a == <<1, 0>>
             z == Zeros(8)
  <1> HIDE DEF a, z
  <1>3. a \in Seq(0..255) /\ Len(a) = 2 /\ a[1] = 1 /\ z \in Seq(0..255) /\ Len(z) = 8
    BY <1>1, <1>2 DEF a, z
  <1>4. /\ a \o z \in Seq(0..255) /\ Len(a \o z) = Len(a) + Len(z)
        /\ \A i \in 1..Len(a) : (a \o z)[i] = a[i]
    BY <1>3, ConcatAt, Zenon, Zenon
  <1>5. a \o z \in Seq(0..255) /\ Len(a \o z) = 10 /\ (a \o z)[1] = 1
    BY <1>3, <1>4
  <1> QED
    BY <1>5 DEF a, z

\* Where the fields of a message are.
LEMMA BodyIs ==
  ASSUME NEW r, IsField(r.key), IsField(r.value)
  PROVE  /\ Body(r) \in Seq(0..255) /\ Body(r)[1] = 1
         /\ Len(Body(r)) = 10 + SizeOf(r.key) + SizeOf(r.value)
         /\ \A j \in 1..SizeOf(r.key) : Body(r)[10 + j] = WriteBytes(r.key)[j]
         /\ \A j \in 1..SizeOf(r.value) :
              Body(r)[10 + SizeOf(r.key) + j] = WriteBytes(r.value)[j]
  <1> DEFINE h == <<1, 0>> \o Zeros(8)
             k == WriteBytes(r.key)
             v == WriteBytes(r.value)
             m == SizeOf(r.key)
             n == SizeOf(r.value)
  <1>1. h \in Seq(0..255) /\ Len(h) = 10 /\ h[1] = 1
    BY HeadIs
  <1>2. k \in Seq(0..255) /\ Len(k) = m /\ m \in Nat
    BY FieldIs, Limits
  <1>3. v \in Seq(0..255) /\ Len(v) = n /\ n \in Nat
    BY FieldIs, Limits
  <1>4. Body(r) = (h \o k) \o v
    BY DEF Body
  <1> HIDE DEF h, k, v, m, n
  <1>5. /\ h \o k \in Seq(0..255) /\ Len(h \o k) = 10 + m
        /\ \A i \in 1..10 : (h \o k)[i] = h[i]
        /\ \A j \in 1..m : (h \o k)[10 + j] = k[j]
    <2>1. /\ h \o k \in Seq(0..255) /\ Len(h \o k) = Len(h) + Len(k)
          /\ \A i \in 1..Len(h) : (h \o k)[i] = h[i]
          /\ \A j \in 1..Len(k) : (h \o k)[Len(h) + j] = k[j]
      BY <1>1, <1>2, ConcatAt, Zenon
    <2> QED
      BY <1>1, <1>2, <2>1
  <1> DEFINE hk == h \o k
  <1> HIDE DEF hk
  <1>6. hk \in Seq(0..255) /\ Len(hk) = 10 + m
    BY <1>5 DEF hk
  <1>7. /\ hk \o v \in Seq(0..255) /\ Len(hk \o v) = 10 + m + n
        /\ \A i \in 1..(10 + m) : (hk \o v)[i] = hk[i]
        /\ \A j \in 1..n : (hk \o v)[10 + m + j] = v[j]
    <2>1. /\ hk \o v \in Seq(0..255) /\ Len(hk \o v) = Len(hk) + Len(v)
          /\ \A i \in 1..Len(hk) : (hk \o v)[i] = hk[i]
          /\ \A j \in 1..Len(v) : (hk \o v)[Len(hk) + j] = v[j]
      BY <1>3, <1>6, ConcatAt, Zenon
    <2> QED
      BY <1>3, <1>6, <2>1
  <1>8. Body(r) = hk \o v
    BY <1>4 DEF hk
  <1>9. Body(r)[1] = 1
    <2>1. 1 \in 1..10 /\ 1 \in 1..(10 + m)
      BY <1>2
    <2>2. (hk \o v)[1] = hk[1] /\ hk[1] = h[1]
      BY <1>5, <1>7, <2>1 DEF hk
    <2> QED
      BY <1>1, <1>8, <2>2
  <1>10. \A j \in 1..m : Body(r)[10 + j] = k[j]
    <2> SUFFICES ASSUME NEW j \in 1..m PROVE Body(r)[10 + j] = k[j]
      OBVIOUS
    <2>1. 10 + j \in 1..(10 + m)
      BY <1>2
    <2>2. (hk \o v)[10 + j] = hk[10 + j] /\ hk[10 + j] = k[j]
      BY <1>5, <1>7, <2>1 DEF hk
    <2> QED
      BY <1>8, <2>2
  <1> QED
    BY <1>7, <1>8, <1>9, <1>10 DEF m, n, k, v

LEMMA MessageIs ==
  ASSUME NEW r, IsField(r.key), IsField(r.value)
  PROVE  /\ EncodeMessage(r) \in Seq(0..255)
         /\ Len(EncodeMessage(r)) = 4 + Len(Body(r))
         /\ \A j \in 1..4 : EncodeMessage(r)[j] = Crc32c(Body(r))[j]
         /\ \A j \in 1..Len(Body(r)) : EncodeMessage(r)[4 + j] = Body(r)[j]
  <1> DEFINE c == Crc32c(Body(r))
             b == Body(r)
  <1>1. b \in Seq(0..255)
    BY BodyIs
  <1>2. c \in Seq(0..255) /\ Len(c) = 4
    BY <1>1, CrcType
  <1>3. EncodeMessage(r) = c \o b
    BY DEF EncodeMessage, Body
  <1> HIDE DEF c, b
  <1>4. /\ c \o b \in Seq(0..255) /\ Len(c \o b) = Len(c) + Len(b)
        /\ \A j \in 1..Len(c) : (c \o b)[j] = c[j]
        /\ \A j \in 1..Len(b) : (c \o b)[Len(c) + j] = b[j]
    BY <1>1, <1>2, ConcatAt, Zenon
  <1>5. /\ c \o b \in Seq(0..255) /\ Len(c \o b) = 4 + Len(b)
        /\ \A j \in 1..4 : (c \o b)[j] = c[j]
        /\ \A j \in 1..Len(b) : (c \o b)[4 + j] = b[j]
    BY <1>2, <1>4
  <1> QED
    BY <1>3, <1>5 DEF c, b

\* A message whose bytes behind the checksum are those that were encoded is read as it
\* was meant if it is whole and its checksum is right, and is an error otherwise.
LEMMA Parsed ==
  ASSUME NEW r, IsField(r.key), IsField(r.value), NEW d \in Seq(0..255),
         \A j \in 1..Len(Body(r)) : 4 + j <= Len(d) => d[4 + j] = Body(r)[j]
  PROVE  /\ Len(d) # 4 + Len(Body(r)) => DecodeMessage(d) = Bad
         /\ Len(d) = 4 + Len(Body(r)) =>
              DecodeMessage(d) = IF Crc32c(SubSeq(d, 5, Len(d))) = SubSeq(d, 1, 4)
                                   THEN Good(<<r.value>>) ELSE Bad
  <1> DEFINE m == SizeOf(r.key)
             n == SizeOf(r.value)
             key == BytesAt(d, 14)
             value == BytesAt(d, key.end)
  <1>1. m \in Nat /\ n \in Nat /\ m >= 4 /\ n >= 4 /\ Len(d) \in Nat /\ Len(Body(r)) = 10 + m + n
    BY FieldIs, BodyIs, Limits
  <1>2. CASE Len(d) < 14
    <2>1. DecodeMessage(d) = Bad
      BY <1>1, <1>2 DEF DecodeMessage
    <2> QED
      BY <1>1, <1>2, <2>1
  <1>3. CASE Len(d) >= 14
    <2>1. d[5] = 1
      <3>1. 1 \in 1..Len(Body(r)) /\ 4 + 1 <= Len(d) /\ 4 + 1 = 5
        BY <1>1, <1>3
      <3> QED
        BY <3>1, BodyIs
    <2>2. DecodeMessage(d) =
            IF /\ key.ok /\ value.ok /\ value.end = Len(d)
               /\ Crc32c(SubSeq(d, 5, Len(d))) = SubSeq(d, 1, 4)
              THEN Good(<<value.bytes>>) ELSE Bad
      BY <1>3, <2>1 DEF DecodeMessage
    <2>3. \A j \in 1..m : 14 + j <= Len(d) => d[14 + j] = WriteBytes(r.key)[j]
      <3> SUFFICES ASSUME NEW j \in 1..m, 14 + j <= Len(d)
                   PROVE  d[14 + j] = WriteBytes(r.key)[j]
        OBVIOUS
      <3>1. 10 + j \in 1..Len(Body(r)) /\ 4 + (10 + j) <= Len(d) /\ 4 + (10 + j) = 14 + j
        BY <1>1
      <3>2. Body(r)[10 + j] = WriteBytes(r.key)[j]
        BY BodyIs
      <3> QED
        BY <3>1, <3>2
    <2>4. /\ 14 + m <= Len(d) => key = [ok |-> TRUE, bytes |-> r.key, end |-> 14 + m]
          /\ 14 + m > Len(d) => key = [ok |-> FALSE]
      <3>1. 14 \in Nat
        OBVIOUS
      <3> QED
        BY <2>3, <3>1, FieldRead
    <2>5. CASE 14 + m > Len(d)
      <3>1. ~ key.ok
        BY <2>4, <2>5
      <3>2. DecodeMessage(d) = Bad
        BY <2>2, <3>1
      <3> QED
        BY <1>1, <2>5, <3>2
    <2>6. CASE 14 + m <= Len(d)
      <3>1. key.ok /\ key.end = 14 + m
        BY <2>4, <2>6
      <3>2. \A j \in 1..n : (14 + m) + j <= Len(d) => d[(14 + m) + j] = WriteBytes(r.value)[j]
        <4> SUFFICES ASSUME NEW j \in 1..n, (14 + m) + j <= Len(d)
                     PROVE  d[(14 + m) + j] = WriteBytes(r.value)[j]
          OBVIOUS
        <4>1. /\ 10 + m + j \in 1..Len(Body(r)) /\ 4 + (10 + m + j) <= Len(d)
              /\ 4 + (10 + m + j) = (14 + m) + j
          <5> HIDE DEF m, n
          <5> QED
            BY <1>1
        <4>2. Body(r)[10 + m + j] = WriteBytes(r.value)[j]
          BY BodyIs
        <4> QED
          BY <4>1, <4>2
      <3>3. /\ (14 + m) + n <= Len(d) =>
                 value = [ok |-> TRUE, bytes |-> r.value, end |-> (14 + m) + n]
            /\ (14 + m) + n > Len(d) => value = [ok |-> FALSE]
        <4>1. 14 + m \in Nat
          BY <1>1
        <4>2. /\ (14 + m) + n <= Len(d) =>
                   BytesAt(d, 14 + m) = [ok |-> TRUE, bytes |-> r.value, end |-> (14 + m) + n]
              /\ (14 + m) + n > Len(d) => BytesAt(d, 14 + m) = [ok |-> FALSE]
          BY <3>2, <4>1, FieldRead
        <4> QED
          BY <3>1, <4>2
      <3>4. CASE Len(d) = (14 + m) + n
        <4>1. value.ok /\ value.end = Len(d) /\ value.bytes = r.value
          BY <1>1, <3>3, <3>4
        <4>2. Len(d) = 4 + Len(Body(r))
          BY <1>1, <3>4
        <4> QED
          BY <2>2, <3>1, <4>1, <4>2
      <3>5. CASE Len(d) # (14 + m) + n
        <4>1. ~ (value.ok /\ value.end = Len(d))
          BY <1>1, <3>3, <3>5
        <4>2. DecodeMessage(d) = Bad
          BY <2>2, <4>1
        <4>3. Len(d) # 4 + Len(Body(r))
          BY <1>1, <3>5
        <4> QED
          BY <4>2, <4>3
      <3> QED
        BY <3>4, <3>5
    <2> QED
      BY <1>1, <2>5, <2>6
  <1> QED
    BY <1>1, <1>2, <1>3

\* The checksum of a message and what it is of.
LEMMA PartsOf ==
  ASSUME NEW d \in Seq(0..255), NEW n \in Nat, Len(d) = 4 + n
  PROVE  /\ SubSeq(d, 5, Len(d)) \in Seq(0..255) /\ Len(SubSeq(d, 5, Len(d))) = n
         /\ \A j \in 1..n : SubSeq(d, 5, Len(d))[j] = d[4 + j]
         /\ SubSeq(d, 1, 4) \in Seq(0..255) /\ Len(SubSeq(d, 1, 4)) = 4
         /\ \A j \in 1..4 : SubSeq(d, 1, 4)[j] = d[j]
  <1>1. 4 \in Nat /\ 0 \in Nat /\ 4 + 1 = 5 /\ 0 + 1 = 1 /\ 0 + 4 = 4 /\ \A j \in 1..4 : 0 + j = j
    OBVIOUS
  <1>2. /\ SubSeq(d, 4 + 1, 4 + n) \in Seq(0..255) /\ Len(SubSeq(d, 4 + 1, 4 + n)) = n
        /\ \A j \in 1..n : SubSeq(d, 4 + 1, 4 + n)[j] = d[4 + j]
    <2>1. 4 + n <= Len(d)
      OBVIOUS
    <2> QED
      BY <1>1, <2>1, PartAt, Zenon
  <1>3. /\ SubSeq(d, 0 + 1, 0 + 4) \in Seq(0..255) /\ Len(SubSeq(d, 0 + 1, 0 + 4)) = 4
        /\ \A j \in 1..4 : SubSeq(d, 0 + 1, 0 + 4)[j] = d[0 + j]
    <2>1. 0 + 4 <= Len(d)
      OBVIOUS
    <2> QED
      BY <1>1, <2>1, PartAt
  <1> QED
    BY <1>1, <1>2, <1>3, Zenon

\* The checksum that was encoded, and what it was of, are read from bytes that are equal
\* there.
LEMMA SameBody ==
  ASSUME NEW r, IsField(r.key), IsField(r.value), NEW d \in Seq(0..255),
         Len(d) = Len(EncodeMessage(r)),
         \A j \in 5..Len(d) : d[j] = EncodeMessage(r)[j]
  PROVE  SubSeq(d, 5, Len(d)) = Body(r)
  <1>1. Body(r) \in Seq(0..255) /\ Len(Body(r)) \in Nat /\ Len(d) = 4 + Len(Body(r))
    BY BodyIs, MessageIs
  <1>2. /\ SubSeq(d, 5, Len(d)) \in Seq(0..255) /\ Len(SubSeq(d, 5, Len(d))) = Len(Body(r))
        /\ \A j \in 1..Len(Body(r)) : SubSeq(d, 5, Len(d))[j] = d[4 + j]
    BY <1>1, PartsOf, ZenonT(60)
  <1>3. ASSUME NEW j \in 1..Len(Body(r)) PROVE SubSeq(d, 5, Len(d))[j] = Body(r)[j]
    <2>1. 4 + j \in 5..Len(d)
      BY <1>1
    <2> QED
      BY <1>2, <2>1, MessageIs
  <1> QED
    BY <1>1, <1>2, <1>3, SeqEqual

LEMMA SameCrc ==
  ASSUME NEW r, IsField(r.key), IsField(r.value), NEW d \in Seq(0..255),
         Len(d) = Len(EncodeMessage(r)),
         \A j \in 1..4 : d[j] = EncodeMessage(r)[j]
  PROVE  SubSeq(d, 1, 4) = Crc32c(Body(r))
  <1>1. Body(r) \in Seq(0..255) /\ Len(Body(r)) \in Nat /\ Len(d) = 4 + Len(Body(r))
    BY BodyIs, MessageIs
  <1>2. /\ SubSeq(d, 1, 4) \in Seq(0..255) /\ Len(SubSeq(d, 1, 4)) = 4
        /\ \A j \in 1..4 : SubSeq(d, 1, 4)[j] = d[j]
    BY <1>1, PartsOf
  <1>3. Crc32c(Body(r)) \in Seq(0..255) /\ Len(Crc32c(Body(r))) = 4
    BY <1>1, CrcType
  <1>4. \A j \in 1..4 : SubSeq(d, 1, 4)[j] = Crc32c(Body(r))[j]
    BY <1>2, MessageIs
  <1> QED
    BY <1>2, <1>3, <1>4, SeqEqual

LEMMA MessageDecodes ==
  ASSUME NEW r, IsField(r.key), IsField(r.value)
  PROVE  DecodeMessage(EncodeMessage(r)) = Good(<<r.value>>)
  <1> DEFINE d == EncodeMessage(r)
  <1>1. /\ d \in Seq(0..255) /\ Len(d) = 4 + Len(Body(r))
        /\ \A j \in 1..Len(Body(r)) : d[4 + j] = Body(r)[j]
    BY MessageIs
  <1>2. SubSeq(d, 5, Len(d)) = Body(r) /\ SubSeq(d, 1, 4) = Crc32c(Body(r))
    BY <1>1, SameBody, SameCrc
  <1> QED
    BY <1>1, <1>2, Parsed

\* One byte of a message changed, the checksum or what it is of, is an error.
LEMMA MessageDamaged ==
  ASSUME NEW r, IsField(r.key), IsField(r.value), NEW d \in Seq(0..255),
         Len(d) = Len(EncodeMessage(r)), NEW p \in 1..Len(d), d[p] # EncodeMessage(r)[p],
         \A j \in 1..Len(d) : j # p => d[j] = EncodeMessage(r)[j]
  PROVE  DecodeMessage(d) = Bad
  <1>1. Body(r) \in Seq(0..255) /\ Len(Body(r)) \in Nat /\ Len(d) = 4 + Len(Body(r))
    BY BodyIs, MessageIs
  <1>2. CASE p <= 4
    <2>1. SubSeq(d, 5, Len(d)) = Body(r)
      <3>1. \A j \in 5..Len(d) : j \in 1..Len(d) /\ j # p
        BY <1>1, <1>2
      <3>2. \A j \in 5..Len(d) : d[j] = EncodeMessage(r)[j]
        BY <3>1
      <3> QED
        BY <3>2, SameBody, Zenon
    <2>2. SubSeq(d, 1, 4)[p] = d[p] /\ Crc32c(Body(r))[p] = EncodeMessage(r)[p]
      <3>1. p \in 1..4
        BY <1>2
      <3> QED
        BY <1>1, <3>1, PartsOf, MessageIs
    <2>3. SubSeq(d, 1, 4) # Crc32c(Body(r))
      BY <2>2
    <2>4. \A j \in 1..Len(Body(r)) : 4 + j <= Len(d) => d[4 + j] = Body(r)[j]
      <3> SUFFICES ASSUME NEW j \in 1..Len(Body(r)) PROVE d[4 + j] = Body(r)[j]
        OBVIOUS
      <3>1. 4 + j \in 1..Len(d) /\ 4 + j # p
        BY <1>1, <1>2
      <3> QED
        BY <3>1, MessageIs
    <2> QED
      BY <1>1, <2>1, <2>3, <2>4, Parsed
  <1>3. CASE p > 4
    <2> DEFINE s == SubSeq(d, 5, Len(d))
               q == p - 4
    <2>1. SubSeq(d, 1, 4) = Crc32c(Body(r))
      <3>1. \A j \in 1..4 : j \in 1..Len(d) /\ j # p
        BY <1>1, <1>3
      <3> QED
        BY <3>1, SameCrc
    <2>2. q \in 1..Len(Body(r)) /\ 4 + q = p
      BY <1>1, <1>3
    <2>3. /\ s \in Seq(0..255) /\ Len(s) = Len(Body(r))
          /\ \A j \in 1..Len(Body(r)) : s[j] = d[4 + j]
      BY <1>1, PartsOf
    <2>4. s[q] # Body(r)[q]
      BY <2>2, <2>3, MessageIs
    <2>5. \A j \in 1..Len(Body(r)) : j # q => s[j] = Body(r)[j]
      <3> SUFFICES ASSUME NEW j \in 1..Len(Body(r)), j # q PROVE s[j] = Body(r)[j]
        OBVIOUS
      <3>1. 4 + j \in 1..Len(d) /\ 4 + j # p
        BY <1>1, <1>3
      <3> QED
        BY <2>3, <3>1, MessageIs
    <2> HIDE DEF s, q
    <2>6. Crc32c(s) # Crc32c(Body(r))
      BY <1>1, <2>2, <2>3, <2>4, <2>5, CrcNoticesByte
    <2>7. Crc32c(SubSeq(d, 5, Len(d))) # SubSeq(d, 1, 4)
      BY <2>1, <2>6 DEF s
    <2> QED
      BY <2>7 DEF DecodeMessage
  <1> QED
    BY <1>1, <1>2, <1>3

-----------------------------------------------------------------------------
(* One message of a set.                                                   *)

IsRecord(r) == IsField(r.key) /\ IsField(r.value)

\* An offset, a size and a message.
LEMMA EntryIs ==
  ASSUME NEW r, IsRecord(r)
  PROVE  /\ EncodeMessage(r) \in Seq(0..255) /\ EncodeSet(r) \in Seq(0..255)
         /\ Len(EncodeMessage(r)) \in Nat /\ Len(EncodeMessage(r)) >= 22
         /\ Len(EncodeMessage(r)) <= MaxInt
         /\ Len(EncodeSet(r)) = 12 + Len(EncodeMessage(r))
         /\ \A j \in 1..4 : EncodeSet(r)[8 + j] = Int32(Len(EncodeMessage(r)))[j]
         /\ \A j \in 1..Len(EncodeMessage(r)) : EncodeSet(r)[12 + j] = EncodeMessage(r)[j]
  <1> DEFINE m == EncodeMessage(r)
             n == Len(m)
             s == Int32(n)
             z == Zeros(8)
  <1>1. m \in Seq(0..255) /\ n = 14 + SizeOf(r.key) + SizeOf(r.value)
    <2>1. m \in Seq(0..255) /\ Len(m) = 4 + Len(Body(r))
      BY MessageIs DEF IsRecord
    <2>2. Len(Body(r)) = 10 + SizeOf(r.key) + SizeOf(r.value)
      BY BodyIs DEF IsRecord
    <2>3. SizeOf(r.key) \in Nat /\ SizeOf(r.value) \in Nat
      BY FieldIs, Limits DEF IsRecord
    <2> HIDE DEF m
    <2> QED
      BY <2>1, <2>2, <2>3
  <1>2. n \in Nat /\ n >= 22 /\ n <= MaxInt
    <2>1. /\ SizeOf(r.key) \in 4..(MaxBytes + 4) /\ SizeOf(r.value) \in 4..(MaxBytes + 4)
          /\ MaxBytes \in Nat /\ MaxInt \in Nat /\ 2 * MaxBytes + 100 <= MaxInt
      BY FieldIs, Limits DEF IsRecord
    <2> HIDE DEF n
    <2> QED
      BY <1>1, <2>1
  <1>3. s \in Seq(0..255) /\ Len(s) = 4
    <2> HIDE DEF n
    <2>1. n \in Int /\ -1 <= n /\ n <= MaxInt
      BY <1>2
    <2> QED
      BY <2>1, Int32Is
  <1>4. z \in Seq(0..255) /\ Len(z) = 8
    BY DEF Zeros
  <1>5. EncodeSet(r) = (z \o s) \o m
    BY DEF EncodeSet
  <1> HIDE DEF m, n, s, z
  <1>6. /\ z \o s \in Seq(0..255) /\ Len(z \o s) = Len(z) + Len(s)
        /\ \A j \in 1..Len(s) : (z \o s)[Len(z) + j] = s[j]
    BY <1>3, <1>4, ConcatAt, Zenon
  <1> DEFINE zs == z \o s
  <1>7. zs \in Seq(0..255) /\ Len(zs) = 12 /\ \A j \in 1..4 : zs[8 + j] = s[j]
    BY <1>3, <1>4, <1>6
  <1> HIDE DEF zs
  <1>8. /\ zs \o m \in Seq(0..255) /\ Len(zs \o m) = Len(zs) + Len(m)
        /\ \A j \in 1..Len(zs) : (zs \o m)[j] = zs[j]
        /\ \A j \in 1..Len(m) : (zs \o m)[Len(zs) + j] = m[j]
    BY <1>1, <1>7, ConcatAt, Zenon
  <1>9. /\ zs \o m \in Seq(0..255) /\ Len(zs \o m) = 12 + Len(m)
        /\ \A j \in 1..12 : (zs \o m)[j] = zs[j]
        /\ \A j \in 1..Len(m) : (zs \o m)[12 + j] = m[j]
    BY <1>7, <1>8
  <1>10. \A j \in 1..4 : (zs \o m)[8 + j] = s[j]
    <2> SUFFICES ASSUME NEW j \in 1..4 PROVE (zs \o m)[8 + j] = s[j]
      OBVIOUS
    <2>1. 8 + j \in 1..12
      OBVIOUS
    <2> QED
      BY <1>7, <1>9, <2>1
  <1> QED
    BY <1>1, <1>2, <1>5, <1>9, <1>10 DEF zs, m, n, s

\* What DecodeSet makes of the set from off on, if F is what it makes of it further on.
At(F, d, off) ==
  IF off = Len(d) THEN Good(<< >>)
  ELSE IF off + 12 > Len(d) THEN Bad
  ELSE LET size == ReadInt32(d, off + 8)
       IN  IF size < 0 \/ size > Len(d) - (off + 12) THEN Bad
           ELSE LET m == DecodeMessage(SubSeq(d, off + 13, off + 12 + size))
                    rest == F[off + 12 + size]
                IN  IF m.ok /\ rest.ok THEN Good(m.values \o rest.values) ELSE Bad

LEMMA SizeIsInt ==
  ASSUME NEW d \in Seq(0..255), NEW off \in Nat, off + 12 <= Len(d)
  PROVE  ReadInt32(d, off + 8) \in Int
  <1> DEFINE size == ReadInt32(d, off + 8)
             a == d[off + 8 + 1]
             hi == IF a > 127 THEN a - 256 ELSE a
  <1>1. /\ off + 8 + 1 \in 1..Len(d) /\ off + 8 + 2 \in 1..Len(d)
        /\ off + 8 + 3 \in 1..Len(d) /\ off + 8 + 4 \in 1..Len(d)
    OBVIOUS
  <1>2. /\ d[off + 8 + 1] \in 0..255 /\ d[off + 8 + 2] \in 0..255
        /\ d[off + 8 + 3] \in 0..255 /\ d[off + 8 + 4] \in 0..255
    BY <1>1, ElementOfSeq
  <1>3. size = hi * 16777216 + d[off + 8 + 2] * 65536 + d[off + 8 + 3] * 256 + d[off + 8 + 4]
    BY SMT DEF ReadInt32
  <1> HIDE DEF size
  <1>4. hi \in Int
    <2>1. a \in 0..255
      BY <1>2
    <2> HIDE DEF a
    <2> QED
      BY <2>1
  <1> HIDE DEF hi
  <1>5. size \in Int
    BY <1>2, <1>3, <1>4, SMT
  <1> QED
    BY <1>5 DEF size

\* The size read is the one that was written,
LEMMA SizeRead ==
  ASSUME NEW r, IsRecord(r), NEW d, NEW off \in Nat,
         \A j \in 9..12 : d[off + j] = EncodeSet(r)[j]
  PROVE  ReadInt32(d, off + 8) = Len(EncodeMessage(r))
  <1> DEFINE n == Len(EncodeMessage(r))
             o == off + 8
  <1>1. n \in Int /\ -1 <= n /\ n <= MaxInt
    <2>1. Len(EncodeMessage(r)) \in Nat /\ Len(EncodeMessage(r)) <= MaxInt
      BY EntryIs
    <2> HIDE DEF n
    <2>2. n \in Nat /\ n <= MaxInt
      BY <2>1 DEF n
    <2> QED
      BY <2>2
  <1>2. \A j \in 1..4 : d[o + j] = Int32(n)[j]
    <2> SUFFICES ASSUME NEW j \in 1..4 PROVE d[o + j] = Int32(n)[j]
      OBVIOUS
    <2>1. 8 + j \in 9..12 /\ off + (8 + j) = o + j
      OBVIOUS
    <2>2. d[off + (8 + j)] = EncodeSet(r)[8 + j]
      BY <2>1
    <2>3. EncodeSet(r)[8 + j] = Int32(n)[j]
      BY EntryIs
    <2> QED
      BY <2>1, <2>2, <2>3
  <1>3. /\ d[o + 1] = Int32(n)[1] /\ d[o + 2] = Int32(n)[2]
        /\ d[o + 3] = Int32(n)[3] /\ d[o + 4] = Int32(n)[4]
    BY <1>2
  <1> HIDE DEF n, o
  <1>4. ReadInt32(d, o) = n
    BY <1>1, <1>3, ReadsWritten
  <1> QED
    BY <1>4 DEF n, o

\* Four bytes of s behind o and of t behind q
AreBytes(s, o, t, q) == \A i \in 1..4 : s[o + i] \in 0..255 /\ t[q + i] \in 0..255
ReadSame(s, o, t, q) == ReadInt32(s, o) = ReadInt32(t, q)
AreSame(s, o, t, q) == \A i \in 1..4 : s[o + i] = t[q + i]

\* that read the same are the same.
LEMMA SameNumber ==
  ASSUME NEW s, NEW o, NEW t, NEW q, AreBytes(s, o, t, q), ReadSame(s, o, t, q)
  PROVE  AreSame(s, o, t, q)
  <1> DEFINE a1 == s[o + 1]  a2 == s[o + 2]  a3 == s[o + 3]  a4 == s[o + 4]
             b1 == t[q + 1]  b2 == t[q + 2]  b3 == t[q + 3]  b4 == t[q + 4]
  <1>1. /\ a1 \in 0..255 /\ a2 \in 0..255 /\ a3 \in 0..255 /\ a4 \in 0..255
        /\ b1 \in 0..255 /\ b2 \in 0..255 /\ b3 \in 0..255 /\ b4 \in 0..255
    BY DEF AreBytes
  <1> DEFINE a == IF a1 > 127 THEN a1 - 256 ELSE a1
             b == IF b1 > 127 THEN b1 - 256 ELSE b1
             c == a * 256 + a2
             d == b * 256 + b2
             f == c * 256 + a3
             g == d * 256 + b3
  <1>2. a * 16777216 + a2 * 65536 + a3 * 256 + a4 = b * 16777216 + b2 * 65536 + b3 * 256 + b4
    BY SMT DEF ReadSame, ReadInt32
  <1> HIDE DEF a1, a2, a3, a4, b1, b2, b3, b4
  <1>3. a \in Int /\ b \in Int /\ (a = b => a1 = b1)
    BY <1>1, SMT
  <1> HIDE DEF a, b
  <1>4. c \in Int /\ d \in Int /\ f \in Int /\ g \in Int
    BY <1>1, <1>3, SMT
  <1>5. f * 256 + a4 = g * 256 + b4
    BY <1>1, <1>2, <1>3, SMT
  <1> HIDE DEF f, g
  <1>6. f = g /\ a4 = b4
    BY <1>1, <1>4, <1>5, SMT
  <1>7. c * 256 + a3 = d * 256 + b3
    BY <1>6 DEF f, g
  <1> HIDE DEF c, d
  <1>8. c = d /\ a3 = b3
    BY <1>1, <1>4, <1>7, SMT
  <1>9. a = b /\ a2 = b2
    <2>1. a * 256 + a2 = b * 256 + b2
      BY <1>8 DEF c, d
    <2> QED
      BY <1>1, <1>3, <2>1, SMT
  <1>10. \A i \in 1..4 : i = 1 \/ i = 2 \/ i = 3 \/ i = 4
    OBVIOUS
  <1> QED
    BY <1>3, <1>6, <1>8, <1>9, <1>10 DEF AreSame, a1, a2, a3, a4, b1, b2, b3, b4

\* and with one of its bytes changed it is another one.
LEMMA SizeDamaged ==
  ASSUME NEW r, IsRecord(r), NEW d \in Seq(0..255), NEW off \in Nat, off + 12 <= Len(d),
         NEW p \in 9..12, d[off + p] # EncodeSet(r)[p]
  PROVE  ReadInt32(d, off + 8) # Len(EncodeMessage(r))
  <1> DEFINE e == EncodeSet(r)
             o == off + 8
  <1>1. \A j \in 9..12 : d[off + j] \in 0..255 /\ e[j] \in 0..255
    <2> SUFFICES ASSUME NEW j \in 9..12 PROVE d[off + j] \in 0..255 /\ e[j] \in 0..255
      OBVIOUS
    <2>1. off + j \in 1..Len(d)
      OBVIOUS
    <2>2. e \in Seq(0..255) /\ Len(e) >= 12
      BY EntryIs
    <2>3. j \in 1..Len(e)
      BY <2>2
    <2> QED
      BY <2>1, <2>2, <2>3, ElementOfSeq
  <1>2. o + 1 = off + 9 /\ o + 2 = off + 10 /\ o + 3 = off + 11 /\ o + 4 = off + 12
    OBVIOUS
  <1>3. ReadInt32(e, 8) = Len(EncodeMessage(r))
    <2>1. \A j \in 9..12 : e[0 + j] = e[j]
      OBVIOUS
    <2>2. 0 \in Nat /\ 0 + 8 = 8
      OBVIOUS
    <2> QED
      BY <2>1, <2>2, SizeRead
  <1>4. \/ d[off + 9] # e[9] \/ d[off + 10] # e[10] \/ d[off + 11] # e[11] \/ d[off + 12] # e[12]
    <2>1. p = 9 \/ p = 10 \/ p = 11 \/ p = 12
      OBVIOUS
    <2> QED
      BY <2>1
  <1> HIDE DEF e, o
  <1>5. AreBytes(d, o, e, 8)
    <2> SUFFICES ASSUME NEW i \in 1..4 PROVE d[o + i] \in 0..255 /\ e[8 + i] \in 0..255
      BY DEF AreBytes
    <2>1. 8 + i \in 9..12 /\ o + i = off + (8 + i)
      BY DEF o
    <2> QED
      BY <1>1, <2>1
  <1>6. ~ ReadSame(d, o, e, 8)
    <2> SUFFICES ASSUME ReadSame(d, o, e, 8) PROVE FALSE
      OBVIOUS
    <2>1. AreSame(d, o, e, 8)
      BY <1>5, SameNumber
    <2>2. d[o + 1] = e[9] /\ d[o + 2] = e[10] /\ d[o + 3] = e[11] /\ d[o + 4] = e[12]
      BY <2>1 DEF AreSame
    <2> QED
      BY <1>2, <1>4, <2>2
  <1> QED
    BY <1>3, <1>6 DEF ReadSame, o

\* The message of r lies whole in the set at off, whatever its offset field says.
Intact(d, off, r) ==
  /\ off + Len(EncodeSet(r)) <= Len(d)
  /\ \A j \in 9..Len(EncodeSet(r)) : d[off + j] = EncodeSet(r)[j]

\* Such a message is read,
LEMMA IntactRead ==
  ASSUME NEW r, IsRecord(r), NEW d \in Seq(0..255), NEW off \in Nat, Intact(d, off, r), NEW F
  PROVE  At(F, d, off) = LET rest == F[off + Len(EncodeSet(r))]
                         IN  IF rest.ok THEN Good(<<r.value>> \o rest.values) ELSE Bad
  <1> DEFINE m == EncodeMessage(r)
             n == Len(m)
             e == EncodeSet(r)
             o == off + 12
             s == SubSeq(d, o + 1, o + n)
  <1>1. /\ m \in Seq(0..255) /\ n \in Nat /\ Len(e) = 12 + n /\ Len(d) \in Nat
        /\ \A j \in 1..n : e[12 + j] = m[j]
    BY EntryIs
  <1>2. \A j \in 9..Len(e) : d[off + j] = e[j]
    BY DEF Intact
  <1>3. off + 12 + n <= Len(d)
    BY <1>1 DEF Intact
  <1>4. ReadInt32(d, off + 8) = n
    <2>1. \A j \in 9..12 : j \in 9..Len(e)
      BY <1>1
    <2> QED
      BY <1>2, <2>1, SizeRead
  <1> HIDE DEF m, n, e
  <1>5. s \in Seq(0..255) /\ Len(s) = n /\ \A k \in 1..n : s[k] = d[o + k]
    <2>1. o \in Nat /\ o + n <= Len(d)
      BY <1>1, <1>3
    <2> HIDE DEF o
    <2> QED
      BY <1>1, <2>1, PartAt, ZenonT(60)
  <1>6. ASSUME NEW k \in 1..n PROVE s[k] = m[k]
    <2>1. 12 + k \in 9..Len(e) /\ off + (12 + k) = o + k
      BY <1>1
    <2>2. d[off + (12 + k)] = e[12 + k] /\ e[12 + k] = m[k]
      BY <1>1, <1>2, <2>1
    <2> QED
      BY <1>5, <2>1, <2>2
  <1>7. s = m
    <2>1. Len(s) = Len(m)
      BY <1>5 DEF n
    <2> HIDE DEF s
    <2> QED
      BY <1>1, <1>5, <1>6, <2>1, SeqEqual
  <1>8. DecodeMessage(m) = Good(<<r.value>>)
    BY MessageDecodes DEF IsRecord, m
  <1>9. /\ off # Len(d) /\ ~ (off + 12 > Len(d)) /\ ~ (n < 0) /\ ~ (n > Len(d) - (off + 12))
        /\ off + 13 = o + 1 /\ off + 12 + n = o + n /\ off + 12 + n = off + Len(e)
    BY <1>1, <1>3
  <1>10. SubSeq(d, off + 13, off + 12 + n) = m
    BY <1>7, <1>9
  <1>11. At(F, d, off) =
           LET g == DecodeMessage(SubSeq(d, off + 13, off + 12 + n))
               rest == F[off + 12 + n]
           IN  IF g.ok /\ rest.ok THEN Good(g.values \o rest.values) ELSE Bad
    BY <1>4, <1>9 DEF At
  <1>12. Good(<<r.value>>).ok /\ Good(<<r.value>>).values = <<r.value>>
    BY DEF Good
  <1> QED
    BY <1>8, <1>9, <1>10, <1>11, <1>12 DEF e

\* one with a byte changed behind its offset field is an error,
LEMMA DamagedRead ==
  ASSUME NEW r, IsRecord(r), NEW d \in Seq(0..255), NEW off \in Nat,
         off + Len(EncodeSet(r)) <= Len(d),
         NEW p \in 9..Len(EncodeSet(r)), d[off + p] # EncodeSet(r)[p],
         \A j \in 9..Len(EncodeSet(r)) : j # p => d[off + j] = EncodeSet(r)[j],
         NEW F
  PROVE  At(F, d, off) = Bad
  <1> DEFINE m == EncodeMessage(r)
             n == Len(m)
             e == EncodeSet(r)
             o == off + 12
             size == ReadInt32(d, off + 8)
             s == SubSeq(d, o + 1, o + size)
  <1>1. /\ m \in Seq(0..255) /\ n \in Nat /\ n >= 22 /\ Len(e) = 12 + n /\ Len(d) \in Nat
        /\ \A j \in 1..n : e[12 + j] = m[j]
    BY EntryIs
  <1>2. /\ off + Len(e) <= Len(d) /\ p \in 9..Len(e) /\ d[off + p] # e[p]
        /\ \A j \in 9..Len(e) : j # p => d[off + j] = e[j]
    OBVIOUS
  <1>3. p > 12 => size = n
    <2> SUFFICES ASSUME p > 12 PROVE size = n
      OBVIOUS
    <2>1. \A j \in 9..12 : j \in 9..Len(e) /\ j # p
      BY <1>1
    <2>2. \A j \in 9..12 : d[off + j] = e[j]
      BY <2>1
    <2> QED
      BY <2>2, SizeRead
  <1>4. p <= 12 => size # n
    <2> SUFFICES ASSUME p <= 12 PROVE size # n
      OBVIOUS
    <2>1. p \in 9..12 /\ off + 12 <= Len(d)
      BY <1>1
    <2> QED
      BY <2>1, SizeDamaged
  <1>5. size \in Int
    BY <1>1, SizeIsInt
  <1> HIDE DEF m, n, e, size
  <1>6. off # Len(d) /\ ~ (off + 12 > Len(d))
    BY <1>1, <1>2
  <1>7. CASE size < 0 \/ size > Len(d) - (off + 12)
    BY <1>6, <1>7 DEF At, size
  <1>8. CASE ~ (size < 0 \/ size > Len(d) - (off + 12))
    <2>1. o \in Nat /\ size \in Nat /\ o + size <= Len(d)
      BY <1>1, <1>5, <1>8
    <2>2. s \in Seq(0..255) /\ Len(s) = size /\ \A k \in 1..size : s[k] = d[o + k]
      <3> HIDE DEF o
      <3> QED
        BY <2>1, PartAt
    <2>3. ASSUME NEW k \in 1..n, k <= size
          PROVE  /\ 12 + k # p => s[k] = m[k]
                 /\ 12 + k = p => s[k] # m[k]
      <3>1. 12 + k \in 9..Len(e) /\ off + (12 + k) = o + k /\ k \in 1..size
        BY <1>1, <2>1, <2>3
      <3>2. s[k] = d[o + k] /\ e[12 + k] = m[k]
        BY <1>1, <2>2, <3>1
      <3> QED
        BY <1>2, <3>1, <3>2
    <2>4. DecodeMessage(s) = Bad
      <3>1. CASE p > 12
        <4> DEFINE q == p - 12
        <4>1. q \in 1..n /\ 12 + q = p /\ size = n
          BY <1>1, <1>2, <1>3, <3>1
        <4>2. s[q] # m[q] /\ \A k \in 1..n : k # q => s[k] = m[k]
          <5>1. \A k \in 1..n : k <= size /\ (k # q => 12 + k # p)
            BY <4>1
          <5> QED
            BY <2>3, <4>1, <5>1
        <4>3. s \in Seq(0..255) /\ Len(s) = Len(m)
          BY <2>2, <4>1 DEF n
        <4>4. q \in 1..Len(s)
          BY <2>2, <4>1
        <4> HIDE DEF s, q
        <4>5. \A k \in 1..Len(s) : k # q => s[k] = m[k]
          BY <2>2, <4>1, <4>2
        <4> QED
          BY <4>2, <4>3, <4>4, <4>5, MessageDamaged DEF IsRecord, m
      <3>2. CASE p <= 12
        <4>1. size # n /\ n = 4 + Len(Body(r))
          BY <1>4, <3>2, MessageIs DEF IsRecord, n, m
        <4>2. \A j \in 1..Len(Body(r)) : 4 + j <= Len(s) => s[4 + j] = Body(r)[j]
          <5> SUFFICES ASSUME NEW j \in 1..Len(Body(r)), 4 + j <= Len(s)
                       PROVE  s[4 + j] = Body(r)[j]
            OBVIOUS
          <5>1. Len(Body(r)) \in Nat
            BY BodyIs DEF IsRecord
          <5>2. 4 + j \in 1..n /\ 4 + j <= size /\ 12 + (4 + j) # p
            <6>1. j \in Nat /\ j >= 1 /\ j <= Len(Body(r)) /\ n \in Nat /\ p <= 12
              BY <1>1, <3>2, <5>1
            <6>2. 4 + j <= size
              BY <2>2
            <6>3. n = 4 + Len(Body(r))
              BY <4>1
            <6> HIDE DEF n
            <6>4. 4 + j \in 1..n /\ 12 + (4 + j) # p
              BY <1>2, <5>1, <6>1, <6>3
            <6> QED
              BY <6>2, <6>4
          <5>3. s[4 + j] = m[4 + j]
            BY <2>3, <5>2
          <5> QED
            BY <5>3, MessageIs DEF IsRecord, m
        <4>3. Len(s) # 4 + Len(Body(r)) /\ s \in Seq(0..255)
          BY <2>2, <4>1
        <4> HIDE DEF s
        <4> QED
          BY <4>2, <4>3, Parsed DEF IsRecord
      <3> QED
        BY <1>1, <1>2, <3>1, <3>2
    <2>5. off + 13 = o + 1 /\ off + 12 + size = o + size
      BY <2>1
    <2>6. At(F, d, off) =
            LET g == DecodeMessage(SubSeq(d, off + 13, off + 12 + size))
                rest == F[off + 12 + size]
            IN  IF g.ok /\ rest.ok THEN Good(g.values \o rest.values) ELSE Bad
      BY <1>6, <1>8 DEF At, size
    <2>7. ~ DecodeMessage(SubSeq(d, off + 13, off + 12 + size)).ok
      BY <2>4, <2>5 DEF Bad
    <2> QED
      BY <2>6, <2>7
  <1> QED
    BY <1>7, <1>8

\* and so is one that the set ends in.
LEMMA CutRead ==
  ASSUME NEW r, IsRecord(r), NEW d \in Seq(0..255), NEW off \in Nat,
         off < Len(d), Len(d) < off + Len(EncodeSet(r)),
         \A j \in 1..Len(EncodeSet(r)) : off + j <= Len(d) => d[off + j] = EncodeSet(r)[j],
         NEW F
  PROVE  At(F, d, off) = Bad
  <1>1. Len(d) \in Nat /\ Len(EncodeMessage(r)) \in Nat
        /\ Len(EncodeSet(r)) = 12 + Len(EncodeMessage(r))
    BY EntryIs
  <1>2. CASE off + 12 > Len(d)
    BY <1>1, <1>2 DEF At
  <1>3. CASE off + 12 <= Len(d)
    <2>1. \A j \in 9..12 : d[off + j] = EncodeSet(r)[j]
      <3>1. \A j \in 9..12 : j \in 1..Len(EncodeSet(r)) /\ off + j <= Len(d)
        BY <1>1, <1>3
      <3> QED
        BY <3>1
    <2>2. ReadInt32(d, off + 8) = Len(EncodeMessage(r))
      BY <2>1, SizeRead
    <2>3. Len(EncodeMessage(r)) > Len(d) - (off + 12)
      BY <1>1
    <2>4. off # Len(d) /\ ~ (off + 12 > Len(d))
      BY <1>1, <1>3
    <2> QED
      BY <2>2, <2>3, <2>4 DEF At
  <1> QED
    BY <1>1, <1>2, <1>3

-----------------------------------------------------------------------------
(* The recursion of DecodeSet.                                             *)

Reads(F, d, l) == F = [off \in l..Len(d) |-> At(F, d, off)]

\* What is made of a set from off on depends on what is made of it further on.
LEMMA AtSame ==
  ASSUME NEW d \in Seq(0..255), NEW off \in 0..Len(d), NEW F, NEW G,
         \A i \in (off + 1)..Len(d) : F[i] = G[i]
  PROVE  At(F, d, off) = At(G, d, off)
  <1> DEFINE size == ReadInt32(d, off + 8)
  <1>1. CASE off = Len(d) \/ off + 12 > Len(d) \/ size < 0 \/ size > Len(d) - (off + 12)
    BY <1>1 DEF At
  <1>2. CASE ~ (off = Len(d) \/ off + 12 > Len(d) \/ size < 0 \/ size > Len(d) - (off + 12))
    <2>1. size \in Int
      BY <1>2, SizeIsInt
    <2> HIDE DEF size
    <2>2. off + 12 + size \in (off + 1)..Len(d)
      BY <1>2, <2>1
    <2>3. F[off + 12 + size] = G[off + 12 + size]
      BY <2>2
    <2> QED
      BY <1>2, <2>3 DEF At, size
  <1> QED
    BY <1>1, <1>2

LEMMA ReadsExist ==
  ASSUME NEW d \in Seq(0..255)
  PROVE  \E F : Reads(F, d, 0)
  <1> DEFINE n == Len(d)
             S == {k \in Nat : k <= n => \E F : Reads(F, d, n - k)}
  <1>1. n \in Nat
    OBVIOUS
  <1>2. 0 \in S
    <2> DEFINE F == [off \in n..n |-> Good(<< >>)]
    <2>1. \A off \in n..n : F[off] = At(F, d, off)
      BY <1>1 DEF At
    <2>2. Reads(F, d, n)
      BY <2>1 DEF Reads
    <2>3. n - 0 = n
      BY <1>1
    <2> QED
      BY <2>2, <2>3
  <1>3. ASSUME NEW k \in Nat, k \in S PROVE k + 1 \in S
    <2> SUFFICES ASSUME k + 1 <= n PROVE \E F : Reads(F, d, n - (k + 1))
      OBVIOUS
    <2> DEFINE l == n - (k + 1)
    <2>1. l \in 0..n /\ l + 1 = n - k /\ k <= n
      BY <1>1
    <2>2. PICK G : Reads(G, d, l + 1)
      BY <1>3, <2>1
    <2> HIDE DEF l
    <2> DEFINE F == [off \in l..n |-> IF off = l THEN At(G, d, off) ELSE G[off]]
    <2>3. \A i \in (l + 1)..n : F[i] = G[i] /\ G[i] = At(G, d, i)
      <3> SUFFICES ASSUME NEW i \in (l + 1)..n PROVE F[i] = G[i] /\ G[i] = At(G, d, i)
        OBVIOUS
      <3>1. i \in l..n /\ i # l
        BY <1>1, <2>1
      <3> HIDE DEF n
      <3>2. F[i] = G[i]
        BY <3>1
      <3> QED
        BY <2>2, <3>2 DEF Reads, n
    <2>4. \A i \in l..n : F[i] = At(G, d, i)
      <3> SUFFICES ASSUME NEW i \in l..n PROVE F[i] = At(G, d, i)
        OBVIOUS
      <3>1. CASE i = l
        BY <3>1
      <3>2. CASE i # l
        <4>1. i \in (l + 1)..n
          BY <1>1, <2>1, <3>2
        <4> HIDE DEF F
        <4> QED
          BY <2>3, <4>1
      <3> QED
        BY <3>1, <3>2
    <2>5. ASSUME NEW i \in l..n PROVE F[i] = At(F, d, i)
      <3>1. i \in 0..n /\ \A j \in (i + 1)..n : j \in (l + 1)..n
        BY <2>1
      <3>2. \A j \in (i + 1)..n : F[j] = G[j]
        BY <2>3, <3>1
      <3> HIDE DEF F
      <3>3. At(F, d, i) = At(G, d, i)
        BY <3>1, <3>2, AtSame
      <3> QED
        BY <2>4, <3>3
    <2>6. Reads(F, d, l)
      BY <2>5 DEF Reads
    <2> QED
      BY <2>6 DEF l
  <1>4. n \in S
    <2> HIDE DEF S
    <2> QED
      BY <1>1, <1>2, <1>3, SetInduction
  <1> QED
    BY <1>1, <1>4

\* DecodeSet is what its recursion says.
LEMMA DecodeSetIs ==
  ASSUME NEW d \in Seq(0..255)
  PROVE  \E F : DecodeSet(d) = F[0] /\ \A off \in 0..Len(d) : F[off] = At(F, d, off)
  <1> DEFINE From[off \in 0..Len(d)] ==
        IF off = Len(d) THEN Good(<< >>)
        ELSE IF off + 12 > Len(d) THEN Bad
        ELSE LET size == ReadInt32(d, off + 8)
             IN  IF size < 0 \/ size > Len(d) - (off + 12) THEN Bad
                 ELSE LET m == DecodeMessage(SubSeq(d, off + 13, off + 12 + size))
                          rest == From[off + 12 + size]
                      IN  IF m.ok /\ rest.ok THEN Good(m.values \o rest.values) ELSE Bad
  <1>1. DecodeSet(d) = From[0]
    BY DEF DecodeSet
  <1>2. From = CHOOSE F : Reads(F, d, 0)
    BY DEF Reads, At
  <1>3. Reads(From, d, 0)
    BY <1>2, ReadsExist
  <1> HIDE DEF From
  <1>4. \A off \in 0..Len(d) : From[off] = At(From, d, off)
    BY <1>3 DEF Reads
  <1> QED
    BY <1>1, <1>4

-----------------------------------------------------------------------------
(* Where the messages of a set are.                                        *)

\* f joins the first sequences of seqs, one after the other.
Joins(f, seqs, n) == f = [i \in 1..n |-> IF i = 1 THEN seqs[i] ELSE f[i - 1] \o seqs[i]]

LEMMA JoinsExist ==
  ASSUME NEW seqs, NEW n \in Nat
  PROVE  \E f : Joins(f, seqs, n)
  <1> DEFINE S == {k \in Nat : \E f : Joins(f, seqs, k)}
  <1>1. 0 \in S
    <2> DEFINE f == [i \in 1..0 |-> << >>]
    <2>1. Joins(f, seqs, 0)
      BY DEF Joins
    <2> QED
      BY <2>1
  <1>2. ASSUME NEW k \in Nat, k \in S PROVE k + 1 \in S
    <2>1. PICK g : Joins(g, seqs, k)
      BY <1>2
    <2> DEFINE last == IF k = 0 THEN seqs[1] ELSE g[k] \o seqs[k + 1]
               f == [i \in 1..k+1 |-> IF i = k + 1 THEN last ELSE g[i]]
    <2> HIDE DEF last
    <2>2A. \A j \in 1..k+1 : f[j] = IF j = k + 1 THEN last ELSE g[j]
      OBVIOUS
    <2>2B. \A j \in 1..k : g[j] = IF j = 1 THEN seqs[j] ELSE g[j - 1] \o seqs[j]
      BY <2>1 DEF Joins
    <2>2. ASSUME NEW i \in 1..k+1 PROVE f[i] = IF i = 1 THEN seqs[i] ELSE f[i - 1] \o seqs[i]
      <3> HIDE DEF f
      <3>1. CASE i = k + 1
        <4>1. f[i] = last
          BY <2>2A, <3>1
        <4>2. CASE k = 0
          BY <3>1, <4>1, <4>2 DEF last
        <4>3. CASE k # 0
          <5>1. i # 1 /\ i - 1 = k /\ k \in 1..k+1 /\ k # k + 1
            BY <3>1, <4>3
          <5>2. f[k] = g[k]
            BY <2>2A, <5>1
          <5>3. last = f[k] \o seqs[k + 1]
            BY <4>3, <5>2 DEF last
          <5> QED
            BY <3>1, <4>1, <5>1, <5>3
        <4> QED
          BY <4>2, <4>3
      <3>2. CASE i \in 1..k
        <4>1. f[i] = g[i] /\ g[i] = IF i = 1 THEN seqs[i] ELSE g[i - 1] \o seqs[i]
          BY <2>2A, <2>2B, <3>2
        <4>2. i # 1 => i - 1 \in 1..k+1 /\ i - 1 # k + 1
          BY <3>2
        <4>3. i # 1 => f[i - 1] = g[i - 1]
          BY <2>2A, <4>2
        <4> QED
          BY <4>1, <4>3
      <3> QED
        BY <3>1, <3>2
    <2>3. Joins(f, seqs, k + 1)
      BY <2>2 DEF Joins
    <2> QED
      BY <2>3
  <1> HIDE DEF S
  <1>3. n \in S
    BY <1>1, <1>2, SetInduction
  <1> QED
    BY <1>3 DEF S

LEMMA FlattenSeqIs ==
  ASSUME NEW seqs, Len(seqs) \in Nat \ {0}
  PROVE  \E f : Joins(f, seqs, Len(seqs)) /\ FlattenSeq(seqs) = f[Len(seqs)]
  <1> DEFINE n == Len(seqs)
             f[i \in 1..n] == IF i = 1 THEN seqs[i] ELSE f[i - 1] \o seqs[i]
  <1>1. FlattenSeq(seqs) = f[n]
    BY DEF FlattenSeq
  <1>2. f = CHOOSE g : Joins(g, seqs, n)
    BY DEF Joins
  <1>3. Joins(f, seqs, n)
    BY <1>2, JoinsExist
  <1> HIDE DEF f
  <1> QED
    BY <1>1, <1>3

\* One more sequence joined.
LEMMA FlattenMore ==
  ASSUME NEW s, NEW t, NEW n \in Nat, Len(s) = n, Len(t) = n + 1,
         \A i \in 1..n : t[i] = s[i], n # 0
  PROVE  FlattenSeq(t) = FlattenSeq(s) \o t[n + 1]
  <1>1. PICK f : Joins(f, s, n) /\ FlattenSeq(s) = f[n]
    BY FlattenSeqIs
  <1>2. PICK g : Joins(g, t, n + 1) /\ FlattenSeq(t) = g[n + 1]
    BY FlattenSeqIs
  <1>3. \A i \in 1..n : f[i] = IF i = 1 THEN s[i] ELSE f[i - 1] \o s[i]
    BY <1>1 DEF Joins
  <1>4. \A i \in 1..n+1 : g[i] = IF i = 1 THEN t[i] ELSE g[i - 1] \o t[i]
    BY <1>2 DEF Joins
  <1> DEFINE S == {k \in Nat : k + 1 <= n => f[k + 1] = g[k + 1]}
  <1>5. 0 \in S
    <2>1. 1 \in 1..n /\ 1 \in 1..n+1
      OBVIOUS
    <2> QED
      BY <1>3, <1>4, <2>1
  <1>6. ASSUME NEW k \in Nat, k \in S PROVE k + 1 \in S
    <2> SUFFICES ASSUME k + 2 <= n PROVE f[k + 2] = g[k + 2]
      OBVIOUS
    <2>1. k + 2 \in 1..n /\ k + 2 \in 1..n+1 /\ k + 2 # 1 /\ (k + 2) - 1 = k + 1 /\ k + 1 <= n
      OBVIOUS
    <2>2. f[k + 1] = g[k + 1]
      BY <1>6, <2>1
    <2>3. f[k + 2] = f[k + 1] \o s[k + 2]
      BY <1>3, <2>1
    <2>4. g[k + 2] = g[k + 1] \o t[k + 2]
      BY <1>4, <2>1
    <2> QED
      BY <2>1, <2>2, <2>3, <2>4
  <1>7. n - 1 \in S
    <2>1. n - 1 \in Nat
      OBVIOUS
    <2> HIDE DEF S
    <2> QED
      BY <1>5, <1>6, <2>1, SetInduction
  <1>8. f[n] = g[n]
    <2>1. (n - 1) + 1 = n
      OBVIOUS
    <2> QED
      BY <1>7, <2>1
  <1>9. g[n + 1] = g[n] \o t[n + 1]
    <2>1. n + 1 \in 1..n+1 /\ n + 1 # 1 /\ (n + 1) - 1 = n
      OBVIOUS
    <2> QED
      BY <1>4, <2>1
  <1> QED
    BY <1>1, <1>2, <1>8, <1>9

\* The bytes of the first k messages.
Upto(rs, k) == EncodeAll(SubSeq(rs, 1, k))

LEMMA RecordsAreRecords ==
  ASSUME NEW rs \in Seq(Records), NEW k \in 1..Len(rs)
  PROVE  IsRecord(rs[k]) /\ rs[k] \in Records /\ rs[k].value \in Values
  <1>1. rs[k] \in Records
    BY ElementOfSeq
  <1>2. rs[k].key \in Keys /\ rs[k].value \in Values
    BY <1>1 DEF Records
  <1> QED
    BY <1>1, <1>2, CodecAssumption DEF IsRecord, IsField

LEMMA EncodeNone == ASSUME NEW rs, Len(rs) = 0 PROVE EncodeAll(rs) = << >>
  <1> DEFINE s == [i \in 1..Len(rs) |-> EncodeSet(rs[i])]
  <1>1. s = << >> /\ Len(s) = 0
    OBVIOUS
  <1> QED
    BY <1>1 DEF EncodeAll, FlattenSeq

LEMMA EncodeOne ==
  ASSUME NEW rs, Len(rs) = 1, EncodeSet(rs[1]) \in Seq(0..255)
  PROVE  EncodeAll(rs) = EncodeSet(rs[1])
  <1> DEFINE s == [i \in 1..Len(rs) |-> EncodeSet(rs[i])]
  <1>1. Len(s) = 1 /\ s[1] = EncodeSet(rs[1])
    OBVIOUS
  <1> HIDE DEF s
  <1>2. PICK f : Joins(f, s, 1) /\ FlattenSeq(s) = f[1]
    <2>1. Len(s) \in Nat \ {0}
      BY <1>1
    <2>2. \E f : Joins(f, s, Len(s)) /\ FlattenSeq(s) = f[Len(s)]
      BY <2>1, FlattenSeqIs, Zenon
    <2> QED
      BY <1>1, <2>2
  <1>3. f[1] = s[1]
    BY <1>2 DEF Joins
  <1> QED
    BY <1>1, <1>2, <1>3 DEF EncodeAll, s

\* One more message.
LEMMA UptoNext ==
  ASSUME NEW rs \in Seq(Records), NEW k \in Nat, k + 1 <= Len(rs)
  PROVE  Upto(rs, k + 1) = Upto(rs, k) \o EncodeSet(rs[k + 1])
  <1> DEFINE a == SubSeq(rs, 1, k)
             b == SubSeq(rs, 1, k + 1)
             e == EncodeSet(rs[k + 1])
  <1>1. Len(a) = k /\ Len(b) = k + 1 /\ b[k + 1] = rs[k + 1] /\ \A i \in 1..k : b[i] = a[i]
    <2>1. \A i \in 1..k : a[i] = rs[1 + i - 1] /\ 1 + i - 1 = i
      OBVIOUS
    <2>2. \A i \in 1..k+1 : b[i] = rs[1 + i - 1] /\ 1 + i - 1 = i
      OBVIOUS
    <2> QED
      BY <2>1, <2>2
  <1>2. e \in Seq(0..255)
    <2>1. k + 1 \in 1..Len(rs)
      OBVIOUS
    <2> QED
      BY <2>1, RecordsAreRecords, EntryIs
  <1> HIDE DEF a, b
  <1>3. CASE k = 0
    <2>1. EncodeAll(a) = << >>
      BY <1>1, <1>3, EncodeNone
    <2>2. Len(b) = 1 /\ b[1] = rs[1] /\ rs[1] = rs[k + 1]
      BY <1>1, <1>3
    <2>3. EncodeAll(b) = EncodeSet(rs[k + 1])
      BY <1>2, <2>2, EncodeOne
    <2>4. << >> \o e = e
      <3> HIDE DEF e
      <3> QED
        BY <1>2
    <2> QED
      BY <2>1, <2>3, <2>4 DEF Upto, a, b
  <1>4. CASE k # 0
    <2> DEFINE s == [i \in 1..Len(a) |-> EncodeSet(a[i])]
               t == [i \in 1..Len(b) |-> EncodeSet(b[i])]
    <2>1. Len(s) = k /\ Len(t) = k + 1 /\ t[k + 1] = e /\ \A i \in 1..k : t[i] = s[i]
      BY <1>1
    <2> HIDE DEF s, t
    <2>2. FlattenSeq(t) = FlattenSeq(s) \o t[k + 1]
      BY <1>4, <2>1, FlattenMore
    <2> QED
      BY <2>1, <2>2 DEF Upto, EncodeAll, a, b, s, t
  <1> QED
    BY <1>3, <1>4

\* Where the message after the first k begins.
At0(rs, k) == Len(Upto(rs, k))

LEMMA FirstsAre ==
  ASSUME NEW rs \in Seq(Records), NEW k \in Nat, k <= Len(rs)
  PROVE  /\ SubSeq(rs, 1, k) \in Seq(Records) /\ Len(SubSeq(rs, 1, k)) = k
         /\ \A i \in 1..k : SubSeq(rs, 1, k)[i] = rs[i]
  <1> HIDE DEF Records
  <1>1. /\ SubSeq(rs, 1, k) \in Seq(Records) /\ Len(SubSeq(rs, 1, k)) = k
        /\ \A i \in 1..k : SubSeq(rs, 1, k)[i] = rs[1 + i - 1]
    OBVIOUS
  <1>2. \A i \in 1..k : 1 + i - 1 = i
    OBVIOUS
  <1> QED
    BY <1>1, <1>2

LEMMA UptoIs ==
  ASSUME NEW rs \in Seq(Records)
  PROVE  /\ Upto(rs, 0) = << >> /\ Upto(rs, Len(rs)) = EncodeAll(rs)
         /\ \A k \in 0..Len(rs) : Upto(rs, k) \in Seq(0..255)
  <1> DEFINE n == Len(rs)
             S == {k \in Nat : k <= n => Upto(rs, k) \in Seq(0..255)}
  <1>1. Upto(rs, 0) = << >>
    <2>1. Len(SubSeq(rs, 1, 0)) = 0
      BY FirstsAre
    <2> QED
      BY <2>1, EncodeNone DEF Upto
  <1>2. Upto(rs, n) = EncodeAll(rs)
    <2>1. n \in Nat /\ n <= Len(rs)
      OBVIOUS
    <2>2. /\ SubSeq(rs, 1, n) \in Seq(Records) /\ Len(SubSeq(rs, 1, n)) = n
          /\ \A i \in 1..n : SubSeq(rs, 1, n)[i] = rs[i]
      BY <2>1, FirstsAre
    <2>3. SubSeq(rs, 1, n) = rs
      BY <2>2, SeqEqual
    <2> QED
      BY <2>3 DEF Upto
  <1>3. 0 \in S
    <2>1. << >> \in Seq(0..255)
      OBVIOUS
    <2>2. Upto(rs, 0) \in Seq(0..255)
      BY <1>1, <2>1
    <2> QED
      BY <2>2
  <1>4. ASSUME NEW k \in Nat, k \in S PROVE k + 1 \in S
    <2> SUFFICES ASSUME k + 1 <= n PROVE Upto(rs, k + 1) \in Seq(0..255)
      OBVIOUS
    <2>1. k + 1 \in 1..n /\ k <= n
      OBVIOUS
    <2>2. Upto(rs, k) \in Seq(0..255)
      BY <1>4, <2>1
    <2>3. EncodeSet(rs[k + 1]) \in Seq(0..255)
      BY <2>1, RecordsAreRecords, EntryIs
    <2>4. Upto(rs, k + 1) = Upto(rs, k) \o EncodeSet(rs[k + 1])
      BY UptoNext
    <2>5. Upto(rs, k) \o EncodeSet(rs[k + 1]) \in Seq(0..255)
      BY <2>2, <2>3, ConcatAt, Zenon
    <2> QED
      BY <2>4, <2>5
  <1>5. \A k \in 0..n : k \in S
    <2> HIDE DEF S
    <2>1. Nat \subseteq S
      BY <1>3, <1>4, SetInduction
    <2> QED
      BY <2>1
  <1> QED
    BY <1>1, <1>2, <1>5

\* The first messages begin what any more of them are.
LEMMA FirstsBegin ==
  ASSUME NEW rs \in Seq(Records), NEW k \in Nat, NEW n \in Nat, k <= n, n <= Len(rs)
  PROVE  At0(rs, k) <= At0(rs, n) /\ \A i \in 1..At0(rs, k) : Upto(rs, n)[i] = Upto(rs, k)[i]
  <1> DEFINE u == Upto(rs, k)
             P(m) == At0(rs, k) <= At0(rs, m) /\ \A i \in 1..Len(u) : Upto(rs, m)[i] = u[i]
             S == {m \in Nat : k + m <= n => P(k + m)}
  <1>1. u \in Seq(0..255) /\ Len(u) \in Nat /\ At0(rs, k) = Len(u)
    <2>1. k \in 0..Len(rs)
      OBVIOUS
    <2> QED
      BY <2>1, UptoIs DEF At0
  <1> HIDE DEF u
  <1>2. 0 \in S
    <2>1. k + 0 = k
      OBVIOUS
    <2>2. P(k)
      BY <1>1 DEF u
    <2> QED
      BY <2>1, <2>2
  <1>3. ASSUME NEW m \in Nat, m \in S PROVE m + 1 \in S
    <2> SUFFICES ASSUME k + (m + 1) <= n PROVE P(k + (m + 1))
      OBVIOUS
    <2> DEFINE l == k + m
               v == Upto(rs, l)
               e == EncodeSet(rs[l + 1])
    <2>1. l \in Nat /\ l \in 0..Len(rs) /\ l + 1 <= Len(rs) /\ l + 1 \in 1..Len(rs)
          /\ k + (m + 1) = l + 1 /\ l <= n
      OBVIOUS
    <2>2. P(l)
      BY <1>3, <2>1
    <2> HIDE DEF l
    <2>3. v \in Seq(0..255) /\ e \in Seq(0..255)
      BY <2>1, UptoIs, RecordsAreRecords, EntryIs
    <2>4. Upto(rs, l + 1) = v \o e
      BY <2>1, UptoNext
    <2>5. At0(rs, l) = Len(v) /\ At0(rs, l + 1) = Len(v \o e)
      BY <2>4 DEF At0
    <2> HIDE DEF v, e
    <2>6. Len(v \o e) = Len(v) + Len(e) /\ \A i \in 1..Len(v) : (v \o e)[i] = v[i]
      BY <2>3, ConcatAt
    <2>7. Len(v) \in Nat /\ Len(e) \in Nat
      BY <2>3
    <2>8. At0(rs, k) <= Len(v) /\ \A i \in 1..Len(u) : v[i] = u[i]
      BY <2>2, <2>5 DEF v
    <2>9. At0(rs, k) <= At0(rs, l + 1)
      BY <1>1, <2>5, <2>6, <2>7, <2>8
    <2>10. \A i \in 1..Len(u) : Upto(rs, l + 1)[i] = u[i]
      <3>1. \A i \in 1..Len(u) : i \in 1..Len(v)
        BY <1>1, <2>7, <2>8
      <3> QED
        BY <2>4, <2>6, <2>8, <3>1
    <2> QED
      BY <2>1, <2>9, <2>10
  <1>4. n - k \in S
    <2>1. n - k \in Nat
      OBVIOUS
    <2> HIDE DEF S
    <2>2. Nat \subseteq S
      BY <1>2, <1>3, SetInduction
    <2> QED
      BY <2>1, <2>2
  <1>5. k + (n - k) = n
    OBVIOUS
  <1> QED
    BY <1>1, <1>4, <1>5 DEF u

\* A message lies in the set behind those before it.
LEMMA EntryLies ==
  ASSUME NEW rs \in Seq(Records), NEW k \in Nat, k + 1 <= Len(rs)
  PROVE  LET e == EncodeSet(rs[k + 1])
             w == EncodeAll(rs)
         IN  /\ At0(rs, k) \in Nat /\ At0(rs, k + 1) = At0(rs, k) + Len(e)
             /\ At0(rs, k + 1) <= Len(w)
             /\ \A j \in 1..Len(e) : w[At0(rs, k) + j] = e[j]
  <1> DEFINE e == EncodeSet(rs[k + 1])
             w == EncodeAll(rs)
             v == Upto(rs, k)
             n == Len(rs)
  <1>1. v \in Seq(0..255) /\ e \in Seq(0..255)
    <2>1. k \in 0..Len(rs) /\ k + 1 \in 1..Len(rs)
      OBVIOUS
    <2> QED
      BY <2>1, UptoIs, RecordsAreRecords, EntryIs
  <1>2. Upto(rs, k + 1) = v \o e
    BY UptoNext
  <1>3. w = Upto(rs, n)
    BY UptoIs
  <1>4. At0(rs, k + 1) <= At0(rs, n) /\ \A i \in 1..At0(rs, k + 1) : w[i] = (v \o e)[i]
    <2>1. k + 1 \in Nat /\ n \in Nat /\ k + 1 <= n /\ n <= Len(rs)
      OBVIOUS
    <2> HIDE DEF n
    <2>2. /\ At0(rs, k + 1) <= At0(rs, n)
          /\ \A i \in 1..At0(rs, k + 1) : Upto(rs, n)[i] = Upto(rs, k + 1)[i]
      <3> DEFINE l == k + 1
      <3>1. l \in Nat /\ n \in Nat /\ l <= n /\ n <= Len(rs)
        BY <2>1
      <3> HIDE DEF l
      <3>2. At0(rs, l) <= At0(rs, n) /\ \A i \in 1..At0(rs, l) : Upto(rs, n)[i] = Upto(rs, l)[i]
        BY <3>1, FirstsBegin, Zenon
      <3> QED
        BY <3>2 DEF l
    <2> QED
      BY <1>2, <1>3, <2>2
  <1>5. At0(rs, k) = Len(v) /\ At0(rs, k + 1) = Len(v \o e) /\ At0(rs, n) = Len(w)
    BY <1>2, <1>3 DEF At0
  <1> HIDE DEF e, w, v, n
  <1>6. /\ Len(v \o e) = Len(v) + Len(e)
        /\ \A i \in 1..Len(e) : (v \o e)[Len(v) + i] = e[i]
    BY <1>1, ConcatAt
  <1>7. Len(v) \in Nat /\ Len(e) \in Nat
    BY <1>1
  <1>8. \A j \in 1..Len(e) : w[Len(v) + j] = e[j]
    <2>1. \A j \in 1..Len(e) : Len(v) + j \in 1..At0(rs, k + 1)
      BY <1>5, <1>6, <1>7
    <2> QED
      BY <1>4, <1>6, <2>1
  <1> QED
    BY <1>4, <1>5, <1>6, <1>7, <1>8 DEF e, w

\* Every byte of the set belongs to one of its messages.
LEMMA ByteBelongs ==
  ASSUME NEW rs \in Seq(Records), NEW p \in 1..Len(EncodeAll(rs))
  PROVE  \E k \in Nat : k + 1 <= Len(rs) /\ At0(rs, k) < p /\ p <= At0(rs, k + 1)
  <1> DEFINE P == \E k \in Nat : k + 1 <= Len(rs) /\ At0(rs, k) < p /\ p <= At0(rs, k + 1)
             S == {n \in Nat : n <= Len(rs) /\ p <= At0(rs, n) => P}
  <1> SUFFICES P
    OBVIOUS
  <1>1. p \in Nat /\ p >= 1 /\ Len(rs) \in Nat /\ p <= At0(rs, Len(rs))
    <2>1. EncodeAll(rs) \in Seq(0..255)
      BY UptoIs
    <2>2. Len(EncodeAll(rs)) = At0(rs, Len(rs))
      BY UptoIs DEF At0
    <2> QED
      BY <2>1, <2>2
  <1>2. 0 \in S
    <2>1. At0(rs, 0) = 0
      BY UptoIs DEF At0
    <2> QED
      BY <1>1, <2>1
  <1>3. ASSUME NEW n \in Nat, n \in S PROVE n + 1 \in S
    <2> SUFFICES ASSUME n + 1 <= Len(rs), p <= At0(rs, n + 1) PROVE P
      OBVIOUS
    <2>1. At0(rs, n) \in Nat
      BY EntryLies
    <2>2. CASE p <= At0(rs, n)
      <3>1. n <= Len(rs)
        BY <1>1
      <3> QED
        BY <1>3, <2>2, <3>1
    <2>3. CASE ~ (p <= At0(rs, n))
      <3>1. At0(rs, n) < p
        BY <1>1, <2>1, <2>3
      <3> QED
        BY <3>1
    <2> QED
      BY <2>2, <2>3
  <1>4. Len(rs) \in S
    <2> HIDE DEF S
    <2>1. Nat \subseteq S
      BY <1>2, <1>3, SetInduction
    <2> QED
      BY <1>1, <2>1
  <1> HIDE DEF P
  <1> QED
    BY <1>1, <1>4

-----------------------------------------------------------------------------
(* Reading the messages of a set one after the other.                      *)

\* The values of the first k messages.
Firsts(rs, k) == ValuesOf(SubSeq(rs, 1, k))

LEMMA FirstsValues ==
  ASSUME NEW rs \in Seq(Records), NEW k \in Nat, k <= Len(rs)
  PROVE  /\ Firsts(rs, k) \in Seq(Values) /\ Len(Firsts(rs, k)) = k
         /\ \A i \in 1..k : Firsts(rs, k)[i] = rs[i].value
  <1> DEFINE a == SubSeq(rs, 1, k)
  <1>1. Len(a) = k /\ \A i \in 1..k : a[i] = rs[i]
    BY FirstsAre
  <1>2. \A i \in 1..k : a[i].value \in Values
    <2>1. \A i \in 1..k : i \in 1..Len(rs)
      OBVIOUS
    <2> QED
      BY <1>1, <2>1, RecordsAreRecords
  <1> HIDE DEF a
  <1>3. Firsts(rs, k) = [i \in 1..k |-> a[i].value]
    BY <1>1 DEF Firsts, ValuesOf, a
  <1> DEFINE v == [i \in 1..k |-> a[i].value]
  <1>4. v \in Seq(Values) /\ Len(v) = k /\ \A i \in 1..k : v[i] = a[i].value
    BY <1>2
  <1> HIDE DEF v
  <1>5. Firsts(rs, k) = v
    BY <1>3 DEF v
  <1> QED
    BY <1>1, <1>4, <1>5

LEMMA FirstsNext ==
  ASSUME NEW rs \in Seq(Records), NEW k \in Nat, k + 1 <= Len(rs), NEW vs \in Seq(Values)
  PROVE  /\ rs[k + 1].value \in Values
         /\ Firsts(rs, k) \o (<<rs[k + 1].value>> \o vs) = Firsts(rs, k + 1) \o vs
  <1> DEFINE v == rs[k + 1].value
             a == Firsts(rs, k)
             b == Firsts(rs, k + 1)
  <1>1. v \in Values
    <2>1. k + 1 \in 1..Len(rs)
      OBVIOUS
    <2> QED
      BY <2>1, RecordsAreRecords
  <1>2. a \in Seq(Values) /\ Len(a) = k /\ \A i \in 1..k : a[i] = rs[i].value
    BY FirstsValues
  <1>3. b \in Seq(Values) /\ Len(b) = k + 1 /\ \A i \in 1..k+1 : b[i] = rs[i].value
    <2>1. k + 1 \in Nat
      OBVIOUS
    <2> QED
      BY <2>1, FirstsValues
  <1>4. b[k + 1] = v /\ \A i \in 1..k : b[i] = a[i]
    <2>1. k + 1 \in 1..k+1 /\ \A i \in 1..k : i \in 1..k+1
      OBVIOUS
    <2> QED
      BY <1>2, <1>3, <2>1
  <1> HIDE DEF v, a, b
  <1>5. <<v>> \in Seq(Values)
    BY <1>1
  <1>6. a \o <<v>> = b
    <2>1. a \o <<v>> \in Seq(Values) /\ Len(a \o <<v>>) = k + 1
      BY <1>1, <1>2
    <2>2. \A i \in 1..k+1 : (a \o <<v>>)[i] = b[i]
      BY <1>1, <1>2, <1>3, <1>4
    <2> QED
      BY <1>3, <2>1, <2>2, SeqEqual
  <1>7. a \o (<<v>> \o vs) = (a \o <<v>>) \o vs
    BY <1>2, <1>5, ConcatAssociative
  <1> QED
    BY <1>1, <1>6, <1>7 DEF v, a, b

\* If the first k messages lie whole in d, what is read is them and what is read behind them.
LEMMA ReadOn ==
  ASSUME NEW rs \in Seq(Records), NEW d \in Seq(0..255), NEW F,
         \A off \in 0..Len(d) : F[off] = At(F, d, off),
         NEW n \in Nat, n <= Len(rs), \A i \in 1..n : Intact(d, At0(rs, i - 1), rs[i])
  PROVE  /\ F[At0(rs, n)] = Bad => F[0] = Bad
         /\ \A vs \in Seq(Values) : F[At0(rs, n)] = Good(vs) => F[0] = Good(Firsts(rs, n) \o vs)
  <1> DEFINE P(k) ==
               /\ F[At0(rs, k)] = Bad => F[0] = Bad
               /\ \A vs \in Seq(Values) :
                    F[At0(rs, k)] = Good(vs) => F[0] = Good(Firsts(rs, k) \o vs)
             S == {k \in Nat : k <= n => P(k)}
  <1>1. 0 \in S
    <2>1. At0(rs, 0) = 0
      BY UptoIs DEF At0
    <2>2. \A vs \in Seq(Values) : Firsts(rs, 0) \o vs = vs
      <3>1. Firsts(rs, 0) = << >>
        <4>1. Firsts(rs, 0) \in Seq(Values) /\ Len(Firsts(rs, 0)) = 0
          BY FirstsValues
        <4> QED
          BY <4>1
      <3> QED
        BY <3>1
    <2> QED
      BY <2>1, <2>2
  <1>2. ASSUME NEW k \in Nat, k \in S PROVE k + 1 \in S
    <2> SUFFICES ASSUME k + 1 <= n PROVE P(k + 1)
      OBVIOUS
    <2> DEFINE r == rs[k + 1]
               o == At0(rs, k)
               o2 == At0(rs, k + 1)
    <2>1. P(k)
      BY <1>2
    <2>2. k + 1 \in 1..n /\ (k + 1) - 1 = k /\ k + 1 <= Len(rs) /\ k + 1 \in 1..Len(rs)
      OBVIOUS
    <2>3. IsRecord(r) /\ Intact(d, o, r)
      BY <2>2, RecordsAreRecords
    <2>4. o \in Nat /\ o2 = o + Len(EncodeSet(r))
      BY <2>2, EntryLies
    <2> HIDE DEF r, o, o2
    <2>5. o \in 0..Len(d)
      <3>1. Len(EncodeSet(r)) \in Nat
        BY <2>3, EntryIs
      <3> QED
        BY <2>3, <2>4, <3>1 DEF Intact
    <2>6. F[o] = At(F, d, o)
      BY <2>5
    <2>7. F[o] = LET rest == F[o2] IN IF rest.ok THEN Good(<<r.value>> \o rest.values) ELSE Bad
      BY <2>3, <2>4, <2>6, IntactRead
    <2>8. F[o2] = Bad => F[0] = Bad
      <3>1. F[o2] = Bad => F[o] = Bad
        BY <2>7 DEF Bad
      <3> QED
        BY <2>1, <3>1 DEF o
    <2>9. ASSUME NEW vs \in Seq(Values), F[o2] = Good(vs)
          PROVE  F[0] = Good(Firsts(rs, k + 1) \o vs)
      <3>1. F[o] = Good(<<r.value>> \o vs)
        <4>1. F[o2].ok /\ F[o2].values = vs
          BY <2>9 DEF Good
        <4> QED
          BY <2>7, <4>1
      <3>2. /\ r.value \in Values
            /\ Firsts(rs, k) \o (<<r.value>> \o vs) = Firsts(rs, k + 1) \o vs
        BY <2>2, FirstsNext DEF r
      <3>3. <<r.value>> \o vs \in Seq(Values)
        BY <3>2
      <3> DEFINE us == <<r.value>> \o vs
      <3> HIDE DEF us
      <3>4. F[0] = Good(Firsts(rs, k) \o us)
        BY <2>1, <3>1, <3>3 DEF o, us
      <3> QED
        BY <3>2, <3>4 DEF us
    <2> QED
      BY <2>8, <2>9 DEF o2
  <1>3. n \in S
    <2> HIDE DEF S
    <2> QED
      BY <1>1, <1>2, SetInduction
  <1> QED
    BY <1>3

LEMMA IsIntact ==
  ASSUME NEW rs \in Seq(Records), NEW i \in 1..Len(rs), NEW d \in Seq(0..255),
         At0(rs, i) <= Len(d),
         \A q \in Nat : At0(rs, i - 1) < q /\ q <= At0(rs, i) => d[q] = EncodeAll(rs)[q]
  PROVE  Intact(d, At0(rs, i - 1), rs[i])
  <1> DEFINE k == i - 1
             o == At0(rs, k)
             e == EncodeSet(rs[i])
             w == EncodeAll(rs)
  <1>1. k \in Nat /\ k + 1 <= Len(rs) /\ k + 1 = i
    OBVIOUS
  <1>2. o \in Nat /\ At0(rs, i) = o + Len(e) /\ \A j \in 1..Len(e) : w[o + j] = e[j]
    <2> HIDE DEF k
    <2>1. /\ At0(rs, k) \in Nat /\ At0(rs, k + 1) = At0(rs, k) + Len(EncodeSet(rs[k + 1]))
          /\ \A j \in 1..Len(EncodeSet(rs[k + 1])) :
               EncodeAll(rs)[At0(rs, k) + j] = EncodeSet(rs[k + 1])[j]
      BY <1>1, EntryLies
    <2> QED
      BY <1>1, <2>1
  <1>3. Len(e) \in Nat
    BY RecordsAreRecords, EntryIs
  <1>4. \A q \in Nat : o < q /\ q <= At0(rs, i) => d[q] = w[q]
    OBVIOUS
  <1>5. At0(rs, i) <= Len(d)
    OBVIOUS
  <1> HIDE DEF k, e, w, o
  <1>6. \A j \in 9..Len(e) : d[o + j] = e[j]
    <2> SUFFICES ASSUME NEW j \in 9..Len(e) PROVE d[o + j] = e[j]
      OBVIOUS
    <2>1. j \in 1..Len(e) /\ o + j \in Nat /\ o < o + j /\ o + j <= At0(rs, i)
      BY <1>2, <1>3
    <2> QED
      BY <1>2, <1>4, <2>1
  <1>7. o + Len(e) <= Len(d)
    BY <1>2, <1>5
  <1> QED
    BY <1>6, <1>7 DEF Intact, o, e, k

\* A set of whole messages is read as their values.
LEMMA WholeRead ==
  ASSUME NEW rs \in Seq(Records), NEW d \in Seq(0..255), NEW n \in Nat, n <= Len(rs),
         Len(d) = At0(rs, n), \A i \in 1..n : Intact(d, At0(rs, i - 1), rs[i])
  PROVE  DecodeSet(d) = Good(Firsts(rs, n))
  <1>1. PICK F : DecodeSet(d) = F[0] /\ \A off \in 0..Len(d) : F[off] = At(F, d, off)
    BY DecodeSetIs
  <1>2. F[At0(rs, n)] = Good(<< >>)
    <2>1. Len(d) \in 0..Len(d)
      OBVIOUS
    <2> QED
      BY <1>1, <2>1 DEF At
  <1>3. << >> \in Seq(Values)
    OBVIOUS
  <1>4. F[0] = Good(Firsts(rs, n) \o << >>)
    BY <1>1, <1>2, <1>3, ReadOn
  <1>5. Firsts(rs, n) \o << >> = Firsts(rs, n)
    BY FirstsValues, ConcatEmptySeq
  <1> QED
    BY <1>1, <1>4, <1>5

LEMMA AllOfThem ==
  ASSUME NEW rs \in Seq(Records)
  PROVE  Len(EncodeAll(rs)) = At0(rs, Len(rs)) /\ Firsts(rs, Len(rs)) = ValuesOf(rs)
  <1>1. Len(EncodeAll(rs)) = At0(rs, Len(rs))
    BY UptoIs DEF At0
  <1>2. SubSeq(rs, 1, Len(rs)) = rs
    <2> DEFINE n == Len(rs)
    <2>1. n \in Nat /\ n <= Len(rs)
      OBVIOUS
    <2>2. /\ SubSeq(rs, 1, n) \in Seq(Records) /\ Len(SubSeq(rs, 1, n)) = n
          /\ \A i \in 1..n : SubSeq(rs, 1, n)[i] = rs[i]
      BY <2>1, FirstsAre
    <2> QED
      BY <2>2, SeqEqual
  <1> QED
    BY <1>1, <1>2 DEF Firsts

\* What was encoded is decoded.
LEMMA DecodeEncoded ==
  ASSUME NEW rs \in Seq(Records)
  PROVE  EncodeAll(rs) \in Seq(0..255) /\ DecodeSet(EncodeAll(rs)) = Good(ValuesOf(rs))
  <1> DEFINE w == EncodeAll(rs)
             n == Len(rs)
  <1>1. w \in Seq(0..255) /\ n \in Nat /\ n <= Len(rs)
    <2>1. n \in 0..n
      OBVIOUS
    <2> QED
      BY <2>1, UptoIs
  <1>2. Len(w) = At0(rs, n) /\ Firsts(rs, n) = ValuesOf(rs)
    BY AllOfThem
  <1>3. ASSUME NEW i \in 1..n PROVE Intact(w, At0(rs, i - 1), rs[i])
    <2>1. At0(rs, i) <= Len(w)
      <3>1. i \in Nat /\ i <= n
        OBVIOUS
      <3> HIDE DEF w, n
      <3> QED
        BY <1>1, <1>2, <3>1, FirstsBegin
    <2> QED
      BY <1>1, <2>1, IsIntact
  <1> HIDE DEF w, n
  <1>4. DecodeSet(w) = Good(Firsts(rs, n))
    BY <1>1, <1>2, <1>3, WholeRead
  <1> QED
    BY <1>1, <1>2, <1>4 DEF w

LEMMA InOrder ==
  ASSUME NEW rs \in Seq(Records), NEW i \in Nat, NEW j \in Nat, i <= j, j <= Len(rs)
  PROVE  At0(rs, i) \in Nat /\ At0(rs, j) \in Nat /\ At0(rs, i) <= At0(rs, j)
  <1>1. \A k \in Nat : k <= Len(rs) => At0(rs, k) \in Nat
    <2> SUFFICES ASSUME NEW k \in Nat, k <= Len(rs) PROVE At0(rs, k) \in Nat
      OBVIOUS
    <2>1. k \in 0..Len(rs)
      OBVIOUS
    <2>2. Upto(rs, k) \in Seq(0..255)
      BY <2>1, UptoIs
    <2> QED
      BY <2>2 DEF At0
  <1>2. i <= Len(rs)
    OBVIOUS
  <1> QED
    BY <1>1, <1>2, FirstsBegin

\* One changed byte anywhere is an error, or the same values are decoded.
LEMMA ChangedDecoded ==
  ASSUME NEW rs \in Seq(Records), NEW d \in Seq(0..255), Len(d) = Len(EncodeAll(rs)),
         NEW p \in 1..Len(d), d[p] # EncodeAll(rs)[p],
         \A q \in 1..Len(d) : q # p => d[q] = EncodeAll(rs)[q]
  PROVE  DecodeSet(d) \in {Bad, Good(ValuesOf(rs))}
  <1> DEFINE w == EncodeAll(rs)
             n == Len(rs)
  <1>1. n \in Nat /\ Len(d) \in Nat /\ Len(d) = At0(rs, n) /\ Firsts(rs, n) = ValuesOf(rs)
    BY AllOfThem
  <1>2. PICK k \in Nat : k + 1 <= n /\ At0(rs, k) < p /\ p <= At0(rs, k + 1)
    BY ByteBelongs
  <1> DEFINE r == rs[k + 1]
             o == At0(rs, k)
             e == EncodeSet(r)
             j == p - o
  <1>3. /\ o \in Nat /\ At0(rs, k + 1) = o + Len(e) /\ o + Len(e) <= Len(d)
        /\ \A i \in 1..Len(e) : w[o + i] = e[i]
    <2>1. k + 1 <= Len(rs)
      BY <1>2
    <2> QED
      BY <2>1, EntryLies
  <1>4. IsRecord(r) /\ Len(e) \in Nat
    <2>1. k + 1 \in 1..Len(rs)
      BY <1>1, <1>2
    <2> QED
      BY <2>1, RecordsAreRecords, EntryIs
  <1>5. j \in 1..Len(e) /\ p = o + j
    <2>1. p \in Nat /\ o < p /\ p <= o + Len(e)
      BY <1>1, <1>2, <1>3
    <2> HIDE DEF o, e
    <2> QED
      BY <1>3, <1>4, <2>1
  <1>6. /\ \A q \in 1..Len(d) : q # p => d[q] = w[q]
        /\ d[p] # w[p]
    OBVIOUS
  <1>7. d[o + j] # e[j] /\ \A i \in 9..Len(e) : i # j => d[o + i] = e[i]
    <2>1. d[o + j] # e[j]
      BY <1>3, <1>5, <1>6
    <2> HIDE DEF o, e, j, w
    <2>2. ASSUME NEW i \in 9..Len(e), i # j PROVE d[o + i] = e[i]
      <3>1. i \in 1..Len(e) /\ o + i \in 1..Len(d) /\ o + i # p
        BY <1>1, <1>3, <1>4, <1>5, <2>2
      <3> QED
        BY <1>3, <1>6, <3>1
    <2> QED
      BY <2>1, <2>2
  <1> HIDE DEF w, n, j
  <1>8. ASSUME NEW i \in 1..n, i # k + 1 PROVE Intact(d, At0(rs, i - 1), rs[i])
    <2>1. i \in 1..Len(rs) /\ i \in Nat /\ i - 1 \in Nat /\ i <= n /\ n <= Len(rs) /\ i - 1 <= i
      BY <1>1 DEF n
    <2> DEFINE h == i - 1
               l == k + 1
    <2>2. h \in Nat /\ h <= i /\ l \in Nat /\ l <= n /\ (i <= k \/ l <= h) /\ k <= l
      BY <1>1, <1>2, <1>8, <2>1
    <2> HIDE DEF h, l
    <2>3. At0(rs, i) \in Nat /\ At0(rs, h) \in Nat /\ At0(rs, i) <= Len(d)
      BY <1>1, <2>1, <2>2, InOrder
    <2>4. At0(rs, i) < p \/ p <= At0(rs, h)
      <3>1. k <= Len(rs) /\ h <= Len(rs)
        BY <1>1, <2>1, <2>2
      <3>2. CASE i <= k
        <4>1. At0(rs, i) <= At0(rs, k)
          BY <2>1, <3>1, <3>2, InOrder
        <4> QED
          BY <1>2, <1>3, <2>3, <4>1
      <3>3. CASE l <= h
        <4>1. At0(rs, l) \in Nat /\ At0(rs, l) <= At0(rs, h)
          BY <2>2, <3>1, <3>3, InOrder
        <4> QED
          BY <1>2, <2>3, <4>1 DEF l
      <3> QED
        BY <2>2, <3>2, <3>3
    <2>5. ASSUME NEW q \in Nat, At0(rs, h) < q, q <= At0(rs, i) PROVE d[q] = EncodeAll(rs)[q]
      <3>1. q \in 1..Len(d) /\ q # p
        BY <1>1, <2>3, <2>4, <2>5
      <3> QED
        BY <1>6, <3>1 DEF w
    <2> QED
      BY <2>1, <2>3, <2>5, IsIntact DEF h
  <1>9. CASE j >= 9
    <2>1. PICK F : DecodeSet(d) = F[0] /\ \A off \in 0..Len(d) : F[off] = At(F, d, off)
      BY DecodeSetIs
    <2>2. F[o] = Bad
      <3>1. j \in 9..Len(e) /\ o \in 0..Len(d)
        BY <1>1, <1>3, <1>4, <1>5, <1>9
      <3> HIDE DEF o, r
      <3>2. At(F, d, o) = Bad
        BY <1>3, <1>4, <1>7, <3>1, DamagedRead
      <3> QED
        BY <2>1, <3>1, <3>2
    <2>3. \A i \in 1..k : Intact(d, At0(rs, i - 1), rs[i])
      <3>1. \A i \in 1..k : i \in 1..n /\ i # k + 1
        BY <1>1, <1>2
      <3> QED
        BY <1>8, <3>1
    <2>4. k <= Len(rs)
      BY <1>1, <1>2 DEF n
    <2>5. F[0] = Bad
      BY <2>1, <2>2, <2>3, <2>4, ReadOn
    <2> QED
      BY <2>1, <2>5
  <1>10. CASE j < 9
    <2>1. Intact(d, o, r)
      <3>1. \A i \in 9..Len(e) : i # j
        BY <1>5, <1>10
      <3> QED
        BY <1>3, <1>7, <3>1 DEF Intact
    <2>2. ASSUME NEW i \in 1..n PROVE Intact(d, At0(rs, i - 1), rs[i])
      <3>1. CASE i = k + 1
        <4>1. i - 1 = k
          BY <3>1
        <4> QED
          BY <2>1, <3>1, <4>1
      <3> QED
        BY <1>8, <3>1
    <2>3. n <= Len(rs)
      BY <1>1 DEF n
    <2>4. DecodeSet(d) = Good(Firsts(rs, n))
      BY <1>1, <2>2, <2>3, WholeRead
    <2> QED
      BY <1>1, <2>4
  <1> QED
    BY <1>5, <1>9, <1>10

\* The first messages of rs, whole and alone, are what d holds and what is read of it.
Begins(rs, d) ==
  \E n \in 0..Len(rs) : /\ DecodeSet(d) = Good(ValuesOf(SubSeq(rs, 1, n)))
                       /\ d = EncodeAll(SubSeq(rs, 1, n))

\* A set that is cut short is an error, except between two messages.
LEMMA CutDecoded ==
  ASSUME NEW rs \in Seq(Records), NEW c \in Nat, c < Len(EncodeAll(rs)),
         NEW d, d = SubSeq(EncodeAll(rs), 1, c)
  PROVE  DecodeSet(d) = Bad \/ Begins(rs, d)
  <1> DEFINE w == EncodeAll(rs)
             p == c + 1
  <1>1. w \in Seq(0..255) /\ Len(w) \in Nat /\ Len(w) = At0(rs, Len(rs)) /\ Len(rs) \in Nat
    <2>1. Len(rs) \in 0..Len(rs)
      OBVIOUS
    <2> QED
      BY <2>1, UptoIs, AllOfThem
  <1>2. d \in Seq(0..255) /\ Len(d) = c /\ \A q \in 1..c : d[q] = w[q]
    <2>1. 0 \in Nat /\ 0 + c <= Len(w) /\ d = SubSeq(w, 0 + 1, 0 + c)
      BY <1>1
    <2> HIDE DEF w
    <2>2. /\ SubSeq(w, 0 + 1, 0 + c) \in Seq(0..255) /\ Len(SubSeq(w, 0 + 1, 0 + c)) = c
          /\ \A q \in 1..c : SubSeq(w, 0 + 1, 0 + c)[q] = w[0 + q]
      BY <1>1, <2>1, PartAt, Zenon
    <2>3. \A q \in 1..c : 0 + q = q
      OBVIOUS
    <2> QED
      BY <2>1, <2>2, <2>3
  <1>3. PICK k \in Nat : k + 1 <= Len(rs) /\ At0(rs, k) < p /\ p <= At0(rs, k + 1)
    <2>1. p \in 1..Len(EncodeAll(rs))
      BY <1>1
    <2> HIDE DEF p
    <2> QED
      BY <2>1, ByteBelongs
  <1> DEFINE r == rs[k + 1]
             o == At0(rs, k)
             e == EncodeSet(r)
  <1>4. /\ o \in Nat /\ At0(rs, k + 1) = o + Len(e) /\ At0(rs, k + 1) <= Len(w)
        /\ \A i \in 1..Len(e) : w[o + i] = e[i]
    <2>1. k + 1 <= Len(rs)
      BY <1>3
    <2> QED
      BY <2>1, EntryLies
  <1>5. IsRecord(r) /\ Len(e) \in Nat
    <2>1. k + 1 \in 1..Len(rs)
      BY <1>1, <1>3
    <2> QED
      BY <2>1, RecordsAreRecords, EntryIs
  <1>6. k <= Len(rs)
    BY <1>1, <1>3
  <1>7. o <= c /\ c < o + Len(e)
    <2> HIDE DEF o, e
    <2> QED
      BY <1>3, <1>4, <1>5 DEF o
  <1> HIDE DEF w, r, o, e, p
  <1>8. ASSUME NEW i \in 1..k PROVE Intact(d, At0(rs, i - 1), rs[i])
    <2>1. i \in 1..Len(rs) /\ i \in Nat /\ i <= k
      BY <1>1, <1>6
    <2>2. At0(rs, i) \in Nat /\ At0(rs, i) <= c
      <3>1. At0(rs, i) \in Nat /\ At0(rs, i) <= At0(rs, k)
        BY <1>6, <2>1, InOrder
      <3> QED
        BY <1>4, <1>7, <3>1 DEF o
    <2>3. At0(rs, i - 1) \in Nat
      <3> DEFINE h == i - 1
      <3>1. h \in Nat /\ h <= i /\ i <= Len(rs)
        BY <1>1, <2>1
      <3> HIDE DEF h
      <3>2. At0(rs, h) \in Nat
        BY <2>1, <3>1, InOrder
      <3> QED
        BY <3>2 DEF h
    <2>4. ASSUME NEW q \in Nat, At0(rs, i - 1) < q, q <= At0(rs, i)
          PROVE  d[q] = EncodeAll(rs)[q]
      <3>1. q \in 1..c
        BY <2>2, <2>3, <2>4
      <3> QED
        BY <1>2, <3>1 DEF w
    <2> QED
      BY <1>2, <2>1, <2>2, <2>4, IsIntact
  <1>9. CASE c = o
    <2>1. DecodeSet(d) = Good(Firsts(rs, k))
      BY <1>2, <1>6, <1>8, <1>9, WholeRead DEF o
    <2>2. d = Upto(rs, k)
      <3> DEFINE v == Upto(rs, k)
      <3>1. v \in Seq(0..255) /\ Len(v) = c
        <4>1. k \in 0..Len(rs)
          BY <1>1, <1>6
        <4> QED
          BY <1>9, <4>1, UptoIs DEF At0, o
      <3>2. \A q \in 1..c : w[q] = v[q]
        <4>1. w = Upto(rs, Len(rs))
          BY UptoIs DEF w
        <4>2. \A q \in 1..At0(rs, k) : Upto(rs, Len(rs))[q] = Upto(rs, k)[q]
          BY <1>1, <1>6, FirstsBegin
        <4> QED
          BY <1>9, <4>1, <4>2 DEF o
      <3> HIDE DEF v
      <3>3. \A q \in 1..c : d[q] = v[q]
        BY <1>2, <3>2
      <3>4. d = v
        BY <1>2, <3>1, <3>3, SeqEqual
      <3> QED
        BY <3>4 DEF v
    <2>3. k \in 0..Len(rs)
      BY <1>1, <1>6
    <2> QED
      BY <2>1, <2>2, <2>3 DEF Firsts, Upto, Begins
  <1>10. CASE o < c
    <2>1. PICK F : DecodeSet(d) = F[0] /\ \A off \in 0..Len(d) : F[off] = At(F, d, off)
      BY <1>2, DecodeSetIs
    <2>2. At(F, d, o) = Bad
      <3>1. \A j \in 1..Len(e) : o + j <= Len(d) => d[o + j] = e[j]
        <4> SUFFICES ASSUME NEW j \in 1..Len(e), o + j <= Len(d) PROVE d[o + j] = e[j]
          OBVIOUS
        <4>1. o + j \in 1..c
          BY <1>2, <1>4, <1>5
        <4> QED
          BY <1>2, <1>4, <4>1
      <3>2. o < Len(d) /\ Len(d) < o + Len(e)
        BY <1>2, <1>7, <1>10
      <3> QED
        BY <1>2, <1>4, <1>5, <3>1, <3>2, CutRead DEF e
    <2>3. F[o] = Bad
      <3>1. o \in 0..Len(d)
        BY <1>2, <1>4, <1>7
      <3> QED
        BY <2>1, <2>2, <3>1
    <2>4. F[0] = Bad
      BY <1>2, <1>6, <1>8, <2>1, <2>3, ReadOn DEF o
    <2> QED
      BY <2>1, <2>4
  <1> QED
    BY <1>4, <1>7, <1>9, <1>10

\* A byte with one bit flipped is another byte.
LEMMA FlippedByte ==
  ASSUME NEW x \in 0..255, NEW b \in 0..7
  PROVE  LET y == IF b \in Bits(x) THEN x - 2^b ELSE x + 2^b IN y \in 0..255 /\ y # x
  <1>1. /\ 2^0 = 1 /\ 2^1 = 2 /\ 2^2 = 4 /\ 2^3 = 8
        /\ 2^4 = 16 /\ 2^5 = 32 /\ 2^6 = 64 /\ 2^7 = 128
    OBVIOUS
  <1>2. b \in Bits(x) <=> (x \div 2^b) % 2 = 1
    BY DEF Bits
  <1>3. b = 0 \/ b = 1 \/ b = 2 \/ b = 3 \/ b = 4 \/ b = 5 \/ b = 6 \/ b = 7
    OBVIOUS
  <1>4. /\ (x \div 1) % 2 = 1 => x >= 1
        /\ (x \div 2) % 2 = 1 => x >= 2
        /\ (x \div 4) % 2 = 1 => x >= 4
        /\ (x \div 8) % 2 = 1 => x >= 8
        /\ (x \div 16) % 2 = 1 => x >= 16
        /\ (x \div 32) % 2 = 1 => x >= 32
        /\ (x \div 64) % 2 = 1 => x >= 64
        /\ (x \div 128) % 2 = 1 => x >= 128
    OBVIOUS
  <1>5. /\ (x \div 1) % 2 # 1 => x + 1 <= 255
        /\ (x \div 2) % 2 # 1 => x + 2 <= 255
        /\ (x \div 4) % 2 # 1 => x + 4 <= 255
        /\ (x \div 8) % 2 # 1 => x + 8 <= 255
        /\ (x \div 16) % 2 # 1 => x + 16 <= 255
        /\ (x \div 32) % 2 # 1 => x + 32 <= 255
        /\ (x \div 64) % 2 # 1 => x + 64 <= 255
        /\ (x \div 128) % 2 # 1 => x + 128 <= 255
    OBVIOUS
  <1> DEFINE m == 2^b
  <1>6. m = 1 \/ m = 2 \/ m = 4 \/ m = 8 \/ m = 16 \/ m = 32 \/ m = 64 \/ m = 128
    <2>1. /\ b = 0 => m = 2^0
          /\ b = 1 => m = 2^1
          /\ b = 2 => m = 2^2
          /\ b = 3 => m = 2^3
          /\ b = 4 => m = 2^4
          /\ b = 5 => m = 2^5
          /\ b = 6 => m = 2^6
          /\ b = 7 => m = 2^7
      BY Zenon
    <2> HIDE DEF m
    <2> QED
      BY <1>1, <1>3, <2>1
  <1>7. b \in Bits(x) <=> (x \div m) % 2 = 1
    BY <1>2, Zenon
  <1> HIDE DEF m
  <1>8. /\ (x \div m) % 2 = 1 => x >= m
        /\ (x \div m) % 2 # 1 => x + m <= 255
        /\ m \in 1..128
    BY <1>4, <1>5, <1>6
  <1>9. CASE b \in Bits(x)
    <2>1. x >= m
      BY <1>7, <1>8, <1>9
    <2>2. x - m \in 0..255 /\ x - m # x
      BY <1>8, <2>1
    <2> QED
      BY <1>9, <2>2 DEF m
  <1>10. CASE b \notin Bits(x)
    <2>1. x + m <= 255
      BY <1>7, <1>8, <1>10
    <2>2. x + m \in 0..255 /\ x + m # x
      BY <1>8, <2>1
    <2> QED
      BY <1>10, <2>2 DEF m
  <1> QED
    BY <1>9, <1>10

-----------------------------------------------------------------------------
(* The specification.                                                      *)

\* What every state satisfies: until it is damaged, the wire carries what was encoded.
Inv ==
  /\ records \in Seq(Records)
  /\ damage = "none" => wire = EncodeAll(records) /\ result = DecodeSet(wire)
  /\ OneBitIsNoticed
  /\ CutIsNoticed

LEMMA InitInv == Init => Inv
  <1> SUFFICES ASSUME Init PROVE Inv
    OBVIOUS
  <1>1. records \in Seq(Records)
    BY DEF Init, BoundedSeq, SeqOf
  <1> QED
    BY <1>1 DEF Init, Inv, OneBitIsNoticed, CutIsNoticed

LEMMA FlipInv ==
  ASSUME Inv, NEW i \in 1..Len(wire), NEW b \in 0..7, FlipBit(i, b)
  PROVE  Inv'
  <1>1. /\ damage = "none" /\ records' = records /\ damage' = "flip" /\ result' = DecodeSet(wire')
        /\ wire' = [wire EXCEPT ![i] = IF b \in Bits(@) THEN @ - 2^b ELSE @ + 2^b]
    BY DEF FlipBit, Undamaged
  <1>2. records \in Seq(Records) /\ wire = EncodeAll(records) /\ wire \in Seq(0..255)
    BY <1>1, DecodeEncoded DEF Inv
  <1> DEFINE x == wire[i]
             y == IF b \in Bits(x) THEN x - 2^b ELSE x + 2^b
  <1>3. x \in 0..255 /\ y \in 0..255 /\ y # x
    <2>1. x \in 0..255
      BY <1>2, ElementOfSeq
    <2> HIDE DEF x
    <2> QED
      BY <2>1, FlippedByte
  <1>4. wire' = [wire EXCEPT ![i] = y]
    BY <1>1
  <1> HIDE DEF y
  <1>5. /\ wire' \in Seq(0..255) /\ Len(wire') = Len(wire) /\ wire'[i] = y
        /\ \A q \in 1..Len(wire) : q # i => wire'[q] = wire[q]
    BY <1>2, <1>3, <1>4
  <1>6. DecodeSet(wire') \in {Bad, Good(ValuesOf(records))}
    <2> DEFINE d == wire'
    <2>1. /\ d \in Seq(0..255) /\ Len(d) = Len(EncodeAll(records)) /\ i \in 1..Len(d)
          /\ d[i] # EncodeAll(records)[i]
          /\ \A q \in 1..Len(d) : q # i => d[q] = EncodeAll(records)[q]
      BY <1>2, <1>3, <1>5
    <2> HIDE DEF d
    <2>2. DecodeSet(d) \in {Bad, Good(ValuesOf(records))}
      BY <1>2, <2>1, ChangedDecoded
    <2> QED
      BY <2>2 DEF d
  <1> QED
    BY <1>1, <1>2, <1>6 DEF Inv, OneBitIsNoticed, CutIsNoticed

LEMMA CutInv ==
  ASSUME Inv, NEW i \in 1..Len(wire), Cut(i - 1)
  PROVE  Inv'
  <1> DEFINE c == i - 1
  <1>1. /\ damage = "none" /\ records' = records /\ damage' = "cut" /\ result' = DecodeSet(wire')
        /\ wire' = SubSeq(wire, 1, c)
    BY DEF Cut, Undamaged
  <1>2. records \in Seq(Records) /\ wire = EncodeAll(records) /\ wire \in Seq(0..255)
    BY <1>1, DecodeEncoded DEF Inv
  <1>3. c \in Nat /\ c < Len(wire)
    BY <1>2
  <1> HIDE DEF c
  <1>4. DecodeSet(wire') = Bad \/ Begins(records, wire')
    <2> DEFINE d == wire'
    <2>1. d = SubSeq(EncodeAll(records), 1, c) /\ c < Len(EncodeAll(records))
      BY <1>1, <1>2, <1>3
    <2> HIDE DEF d
    <2>2. DecodeSet(d) = Bad \/ Begins(records, d)
      BY <1>2, <1>3, <2>1, CutDecoded
    <2> QED
      BY <2>2 DEF d
  <1>5. ~ Bad.ok
    BY DEF Bad
  <1>6. CutIsNoticed'
    BY <1>1, <1>4, <1>5 DEF CutIsNoticed, Begins
  <1> QED
    BY <1>1, <1>2, <1>6 DEF Inv, OneBitIsNoticed

\* The invariant Inv above, over init, flips and cuts.
THEOREM Invariance == Spec => []Inv
  <1>1. Init => Inv
    BY InitInv
  <1>2. Inv /\ [Next]_vars => Inv'
    <2> SUFFICES ASSUME Inv, [Next]_vars PROVE Inv'
      OBVIOUS
    <2>1. CASE Next
      <3>1. PICK i \in 1..Len(wire) : (\E b \in 0..7 : FlipBit(i, b)) \/ Cut(i - 1)
        BY <2>1 DEF Next
      <3> QED
        BY <3>1, FlipInv, CutInv
    <2>2. CASE UNCHANGED vars
      BY <2>2 DEF vars, Inv, OneBitIsNoticed, CutIsNoticed
    <2> QED
      BY <2>1, <2>2
  <1> QED
    BY <1>1, <1>2, PTL DEF Spec

\* decode_message_set_v1 returns the values encode_message_set was given: null stays null,
\* empty stays empty, for any keys and values and any number of messages.
THEOREM EncodedReturns == Spec => []RoundTrip
  <1>1. Inv => RoundTrip
    BY DecodeEncoded DEF Inv, RoundTrip
  <1> QED
    BY <1>1, Invariance, PTL

\* A flipped bit anywhere in the set never makes decode_message_set_v1 return other values.
THEOREM FlipNoticed == Spec => []OneBitIsNoticed
  <1>1. Inv => OneBitIsNoticed
    BY DEF Inv
  <1> QED
    BY <1>1, Invariance, PTL

\* Of a set cut short decode_message_set_v1 returns whole messages that are all there is.
THEOREM CutNoticed == Spec => []CutIsNoticed
  <1>1. Inv => CutIsNoticed
    BY DEF Inv
  <1> QED
    BY <1>1, Invariance, PTL
=============================================================================
