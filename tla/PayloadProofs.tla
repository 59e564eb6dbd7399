---------------------------- MODULE PayloadProofs ----------------------------
(***************************************************************************)
(* What publish and put write is read back by every reader, and the two    *)
(* readers of a stream agree, for bytes and texts of any length: base64    *)
(* decoded is what was encoded, by induction over the text.                *)
(***************************************************************************)
EXTENDS Payload, FiniteSetTheorems, SequenceTheorems, WellFoundedInduction, TLAPS

\* Induction over the naturals, as a fact about a set.
LEMMA SetInduction ==
  ASSUME NEW S, 0 \in S, \A n \in Nat : n \in S => n + 1 \in S
  PROVE  Nat \subseteq S
  <1> DEFINE T == Nat \ S
             R == OpToRel(<, Nat)
  <1>1. \A x, y \in Nat : y < x => <<y, x>> \in R
    BY DEF OpToRel
  <1>2. IsWellFoundedOn(R, Nat)
    BY NatLessThanWellFounded
  <1> HIDE DEF R
  <1>3. SUFFICES ASSUME T # {} PROVE FALSE
    OBVIOUS
  <1>4. T \subseteq Nat
    OBVIOUS
  <1> HIDE DEF T
  <1>5. PICK x \in T : \A y \in T : ~ (<<y, x>> \in R)
    BY <1>2, <1>3, <1>4, WFMin
  <1> USE DEF T
  <1>6. x # 0 /\ x \in Nat
    OBVIOUS
  <1>7. x - 1 \in Nat /\ x - 1 < x /\ (x - 1) + 1 = x
    BY <1>6
  <1>8. x - 1 \notin T
    BY <1>1, <1>5, <1>6, <1>7
  <1> QED
    BY <1>7, <1>8

-----------------------------------------------------------------------------
(* Three bytes and four characters.                                        *)

\* The byte of v at k, or the zero behind its end.
ByteAt(v, k) == IF k <= Len(v) THEN v[k] ELSE 0

LEMMA ByteAtType ==
  ASSUME NEW v \in Seq(0..255), NEW k \in Nat \ {0}
  PROVE  ByteAt(v, k) \in 0..255
  <1>1. CASE k <= Len(v)
    <2>1. k \in 1..Len(v)
      BY <1>1
    <2>2. v[k] \in 0..255
      BY <2>1, ElementOfSeq
    <2> QED
      BY <1>1, <2>2 DEF ByteAt
  <1>2. CASE ~ (k <= Len(v))
    BY <1>2 DEF ByteAt
  <1> QED
    BY <1>1, <1>2

\* Two bytes in a row, and the bits of a character taken out of them.
LEMMA SextetBits0 ==
  ASSUME NEW a \in 0..255, NEW b \in 0..255
  PROVE  (((256 * a) + b) \div 1024) % 64 = a \div 4
  OBVIOUS

LEMMA SextetBits1 ==
  ASSUME NEW a \in 0..255, NEW b \in 0..255
  PROVE  (((256 * a) + b) \div 16) % 64 = 16 * (a % 4) + (b \div 16)
  OBVIOUS

LEMMA SextetBits2 ==
  ASSUME NEW a \in 0..255, NEW b \in 0..255
  PROVE  (((256 * a) + b) \div 64) % 64 = 4 * (a % 16) + (b \div 64)
  OBVIOUS

LEMMA SextetBits3 ==
  ASSUME NEW a \in 0..255, NEW b \in 0..255
  PROVE  (((256 * a) + b) \div 256) % 64 = a % 64
  OBVIOUS

\* Two characters in a row, and the bits of a byte taken out of them.
LEMMA OctetBits0 ==
  ASSUME NEW a \in 0..63, NEW b \in 0..63
  PROVE  (((64 * a) + b) \div 16) % 256 = 4 * a + (b \div 16)
  OBVIOUS

LEMMA OctetBits1 ==
  ASSUME NEW a \in 0..63, NEW b \in 0..63
  PROVE  (((64 * a) + b) \div 4) % 256 = 16 * (a % 16) + (b \div 4)
  OBVIOUS

LEMMA OctetBits2 ==
  ASSUME NEW a \in 0..63, NEW b \in 0..63
  PROVE  (((64 * a) + b) \div 1) % 256 = 64 * (a % 4) + b
  OBVIOUS

\* Sextet and Octet with their places and shifts worked out.
LEMMA SextetAt ==
  ASSUME NEW v, NEW i, NEW p, p = 1 + ((6 * i) \div 8), NEW w, w = 2^(10 - ((6 * i) % 8))
  PROVE  Sextet(v, i) = (((256 * ByteAt(v, p)) + ByteAt(v, p + 1)) \div w) % 64
  BY DEF Sextet, ByteAt

LEMMA OctetAt ==
  ASSUME NEW d, NEW i, NEW p, p = 1 + ((8 * i) \div 6), NEW w, w = 2^(4 - ((8 * i) % 6))
  PROVE  Octet(d, i) = (((64 * d[p]) + d[p + 1]) \div w) % 256
  BY DEF Octet

\* The four characters of three bytes.
LEMMA SextetsAt ==
  ASSUME NEW v, NEW q \in Nat
  PROVE  /\ Sextet(v, 4 * q) =
              (((256 * ByteAt(v, 3 * q + 1)) + ByteAt(v, 3 * q + 2)) \div 1024) % 64
         /\ Sextet(v, 4 * q + 1) =
              (((256 * ByteAt(v, 3 * q + 1)) + ByteAt(v, 3 * q + 2)) \div 16) % 64
         /\ Sextet(v, 4 * q + 2) =
              (((256 * ByteAt(v, 3 * q + 2)) + ByteAt(v, 3 * q + 3)) \div 64) % 64
         /\ Sextet(v, 4 * q + 3) =
              (((256 * ByteAt(v, 3 * q + 3)) + ByteAt(v, 3 * q + 4)) \div 256) % 64
  <1>1. Sextet(v, 4 * q) = (((256 * ByteAt(v, 3 * q + 1)) + ByteAt(v, 3 * q + 2)) \div 1024) % 64
    <2> DEFINE i == 4 * q
               m == 3 * q + 1
               n == 3 * q + 2
    <2>1. m + 1 = n
      OBVIOUS
    <2>2. (6 * i) \div 8 = 3 * q /\ (6 * i) % 8 = 0
      OBVIOUS
    <2>3. m = 1 + ((6 * i) \div 8)
      BY <2>2
    <2>4. 1024 = 2^(10 - ((6 * i) % 8))
      <3> DEFINE e == 10 - ((6 * i) % 8)
      <3>1. e = 10
        BY <2>2
      <3>2. 1024 = 2^10
        OBVIOUS
      <3> HIDE DEF e
      <3>3. 2^e = 2^10
        BY <3>1, Zenon
      <3>4. 1024 = 2^e
        BY <3>2, <3>3
      <3> QED
        BY <3>4 DEF e
    <2> HIDE DEF i, m, n
    <2>5. Sextet(v, i) = (((256 * ByteAt(v, m)) + ByteAt(v, m + 1)) \div 1024) % 64
      BY <2>3, <2>4, SextetAt
    <2>6. Sextet(v, i) = (((256 * ByteAt(v, m)) + ByteAt(v, n)) \div 1024) % 64
      BY <2>1, <2>5, Zenon
    <2> QED
      BY <2>6, Zenon DEF i, m, n
  <1>2. Sextet(v, 4 * q + 1) = (((256 * ByteAt(v, 3 * q + 1)) + ByteAt(v, 3 * q + 2)) \div 16) % 64
    <2> DEFINE i == 4 * q + 1
               m == 3 * q + 1
               n == 3 * q + 2
    <2>1. m + 1 = n
      OBVIOUS
    <2>2. (6 * i) \div 8 = 3 * q /\ (6 * i) % 8 = 6
      OBVIOUS
    <2>3. m = 1 + ((6 * i) \div 8)
      BY <2>2
    <2>4. 16 = 2^(10 - ((6 * i) % 8))
      <3> DEFINE e == 10 - ((6 * i) % 8)
      <3>1. e = 4
        BY <2>2
      <3>2. 16 = 2^4
        OBVIOUS
      <3> HIDE DEF e
      <3>3. 2^e = 2^4
        BY <3>1, Zenon
      <3>4. 16 = 2^e
        BY <3>2, <3>3
      <3> QED
        BY <3>4 DEF e
    <2> HIDE DEF i, m, n
    <2>5. Sextet(v, i) = (((256 * ByteAt(v, m)) + ByteAt(v, m + 1)) \div 16) % 64
      BY <2>3, <2>4, SextetAt
    <2>6. Sextet(v, i) = (((256 * ByteAt(v, m)) + ByteAt(v, n)) \div 16) % 64
      BY <2>1, <2>5, Zenon
    <2> QED
      BY <2>6, Zenon DEF i, m, n
  <1>3. Sextet(v, 4 * q + 2) = (((256 * ByteAt(v, 3 * q + 2)) + ByteAt(v, 3 * q + 3)) \div 64) % 64
    <2> DEFINE i == 4 * q + 2
               m == 3 * q + 2
               n == 3 * q + 3
    <2>1. m + 1 = n
      OBVIOUS
    <2>2. (6 * i) \div 8 = 3 * q + 1 /\ (6 * i) % 8 = 4
      OBVIOUS
    <2>3. m = 1 + ((6 * i) \div 8)
      BY <2>2
    <2>4. 64 = 2^(10 - ((6 * i) % 8))
      <3> DEFINE e == 10 - ((6 * i) % 8)
      <3>1. e = 6
        BY <2>2
      <3>2. 64 = 2^6
        OBVIOUS
      <3> HIDE DEF e
      <3>3. 2^e = 2^6
        BY <3>1, Zenon
      <3>4. 64 = 2^e
        BY <3>2, <3>3
      <3> QED
        BY <3>4 DEF e
    <2> HIDE DEF i, m, n
    <2>5. Sextet(v, i) = (((256 * ByteAt(v, m)) + ByteAt(v, m + 1)) \div 64) % 64
      BY <2>3, <2>4, SextetAt
    <2>6. Sextet(v, i) = (((256 * ByteAt(v, m)) + ByteAt(v, n)) \div 64) % 64
      BY <2>1, <2>5, Zenon
    <2> QED
      BY <2>6, Zenon DEF i, m, n
  <1>4. Sextet(v, 4 * q + 3) = (((256 * ByteAt(v, 3 * q + 3)) + ByteAt(v, 3 * q + 4)) \div 256) % 64
    <2> DEFINE i == 4 * q + 3
               m == 3 * q + 3
               n == 3 * q + 4
    <2>1. m + 1 = n
      OBVIOUS
    <2>2. (6 * i) \div 8 = 3 * q + 2 /\ (6 * i) % 8 = 2
      OBVIOUS
    <2>3. m = 1 + ((6 * i) \div 8)
      BY <2>2
    <2>4. 256 = 2^(10 - ((6 * i) % 8))
      <3> DEFINE e == 10 - ((6 * i) % 8)
      <3>1. e = 8
        BY <2>2
      <3>2. 256 = 2^8
        OBVIOUS
      <3> HIDE DEF e
      <3>3. 2^e = 2^8
        BY <3>1, Zenon
      <3>4. 256 = 2^e
        BY <3>2, <3>3
      <3> QED
        BY <3>4 DEF e
    <2> HIDE DEF i, m, n
    <2>5. Sextet(v, i) = (((256 * ByteAt(v, m)) + ByteAt(v, m + 1)) \div 256) % 64
      BY <2>3, <2>4, SextetAt
    <2>6. Sextet(v, i) = (((256 * ByteAt(v, m)) + ByteAt(v, n)) \div 256) % 64
      BY <2>1, <2>5, Zenon
    <2> QED
      BY <2>6, Zenon DEF i, m, n
  <1> QED
    BY <1>1, <1>2, <1>3, <1>4

LEMMA SextetsOf ==
  ASSUME NEW v \in Seq(0..255), NEW q \in Nat
  PROVE  LET a == ByteAt(v, 3 * q + 1)
             b == ByteAt(v, 3 * q + 2)
             c == ByteAt(v, 3 * q + 3)
         IN  /\ a \in 0..255 /\ b \in 0..255 /\ c \in 0..255
             /\ Sextet(v, 4 * q) = a \div 4
             /\ Sextet(v, 4 * q + 1) = 16 * (a % 4) + (b \div 16)
             /\ Sextet(v, 4 * q + 2) = 4 * (b % 16) + (c \div 64)
             /\ Sextet(v, 4 * q + 3) = c % 64
  <1> DEFINE a == ByteAt(v, 3 * q + 1)
             b == ByteAt(v, 3 * q + 2)
             c == ByteAt(v, 3 * q + 3)
             z == ByteAt(v, 3 * q + 4)
  <1>1. /\ 3 * q + 1 \in Nat \ {0} /\ 3 * q + 2 \in Nat \ {0} /\ 3 * q + 3 \in Nat \ {0}
        /\ 3 * q + 4 \in Nat \ {0}
    OBVIOUS
  <1>2. a \in 0..255 /\ b \in 0..255 /\ c \in 0..255 /\ z \in 0..255
    BY <1>1, ByteAtType
  <1>3. /\ Sextet(v, 4 * q) = (((256 * a) + b) \div 1024) % 64
        /\ Sextet(v, 4 * q + 1) = (((256 * a) + b) \div 16) % 64
        /\ Sextet(v, 4 * q + 2) = (((256 * b) + c) \div 64) % 64
        /\ Sextet(v, 4 * q + 3) = (((256 * c) + z) \div 256) % 64
    BY SextetsAt
  <1> HIDE DEF a, b, c, z
  <1>4. /\ (((256 * a) + b) \div 1024) % 64 = a \div 4
        /\ (((256 * a) + b) \div 16) % 64 = 16 * (a % 4) + (b \div 16)
    BY <1>2, SextetBits0, SextetBits1
  <1>5. (((256 * b) + c) \div 64) % 64 = 4 * (b % 16) + (c \div 64)
    BY <1>2, SextetBits2
  <1>6. (((256 * c) + z) \div 256) % 64 = c % 64
    BY <1>2, SextetBits3
  <1>7. /\ Sextet(v, 4 * q) = a \div 4
        /\ Sextet(v, 4 * q + 1) = 16 * (a % 4) + (b \div 16)
        /\ Sextet(v, 4 * q + 2) = 4 * (b % 16) + (c \div 64)
        /\ Sextet(v, 4 * q + 3) = c % 64
    BY <1>3, <1>4, <1>5, <1>6
  <1> QED
    BY <1>2, <1>7 DEF a, b, c

\* The three bytes of four characters.
LEMMA OctetsAt ==
  ASSUME NEW d, NEW q \in Nat
  PROVE  /\ Octet(d, 3 * q) = (((64 * d[4 * q + 1]) + d[4 * q + 2]) \div 16) % 256
         /\ Octet(d, 3 * q + 1) = (((64 * d[4 * q + 2]) + d[4 * q + 3]) \div 4) % 256
         /\ Octet(d, 3 * q + 2) = (((64 * d[4 * q + 3]) + d[4 * q + 4]) \div 1) % 256
  <1>1. Octet(d, 3 * q) = (((64 * d[4 * q + 1]) + d[4 * q + 2]) \div 16) % 256
    <2> DEFINE i == 3 * q
               m == 4 * q + 1
               n == 4 * q + 2
    <2>1. m + 1 = n
      OBVIOUS
    <2>2. (8 * i) \div 6 = 4 * q /\ (8 * i) % 6 = 0
      OBVIOUS
    <2>3. m = 1 + ((8 * i) \div 6)
      BY <2>2
    <2>4. 16 = 2^(4 - ((8 * i) % 6))
      <3> DEFINE e == 4 - ((8 * i) % 6)
      <3>1. e = 4
        BY <2>2
      <3>2. 16 = 2^4
        OBVIOUS
      <3> HIDE DEF e
      <3>3. 2^e = 2^4
        BY <3>1, Zenon
      <3>4. 16 = 2^e
        BY <3>2, <3>3
      <3> QED
        BY <3>4 DEF e
    <2> HIDE DEF i, m, n
    <2>5. Octet(d, i) = (((64 * d[m]) + d[m + 1]) \div 16) % 256
      BY <2>3, <2>4, OctetAt
    <2>6. Octet(d, i) = (((64 * d[m]) + d[n]) \div 16) % 256
      BY <2>1, <2>5, Zenon
    <2> QED
      BY <2>6, Zenon DEF i, m, n
  <1>2. Octet(d, 3 * q + 1) = (((64 * d[4 * q + 2]) + d[4 * q + 3]) \div 4) % 256
    <2> DEFINE i == 3 * q + 1
               m == 4 * q + 2
               n == 4 * q + 3
    <2>1. m + 1 = n
      OBVIOUS
    <2>2. (8 * i) \div 6 = 4 * q + 1 /\ (8 * i) % 6 = 2
      OBVIOUS
    <2>3. m = 1 + ((8 * i) \div 6)
      BY <2>2
    <2>4. 4 = 2^(4 - ((8 * i) % 6))
      <3> DEFINE e == 4 - ((8 * i) % 6)
      <3>1. e = 2
        BY <2>2
      <3>2. 4 = 2^2
        OBVIOUS
      <3> HIDE DEF e
      <3>3. 2^e = 2^2
        BY <3>1, Zenon
      <3>4. 4 = 2^e
        BY <3>2, <3>3
      <3> QED
        BY <3>4 DEF e
    <2> HIDE DEF i, m, n
    <2>5. Octet(d, i) = (((64 * d[m]) + d[m + 1]) \div 4) % 256
      BY <2>3, <2>4, OctetAt
    <2>6. Octet(d, i) = (((64 * d[m]) + d[n]) \div 4) % 256
      BY <2>1, <2>5, Zenon
    <2> QED
      BY <2>6, Zenon DEF i, m, n
  <1>3. Octet(d, 3 * q + 2) = (((64 * d[4 * q + 3]) + d[4 * q + 4]) \div 1) % 256
    <2> DEFINE i == 3 * q + 2
               m == 4 * q + 3
               n == 4 * q + 4
    <2>1. m + 1 = n
      OBVIOUS
    <2>2. (8 * i) \div 6 = 4 * q + 2 /\ (8 * i) % 6 = 4
      OBVIOUS
    <2>3. m = 1 + ((8 * i) \div 6)
      BY <2>2
    <2>4. 1 = 2^(4 - ((8 * i) % 6))
      <3> DEFINE e == 4 - ((8 * i) % 6)
      <3>1. e = 0
        BY <2>2
      <3>2. 1 = 2^0
        OBVIOUS
      <3> HIDE DEF e
      <3>3. 2^e = 2^0
        BY <3>1, Zenon
      <3>4. 1 = 2^e
        BY <3>2, <3>3
      <3> QED
        BY <3>4 DEF e
    <2> HIDE DEF i, m, n
    <2>5. Octet(d, i) = (((64 * d[m]) + d[m + 1]) \div 1) % 256
      BY <2>3, <2>4, OctetAt
    <2>6. Octet(d, i) = (((64 * d[m]) + d[n]) \div 1) % 256
      BY <2>1, <2>5, Zenon
    <2> QED
      BY <2>6, Zenon DEF i, m, n
  <1> QED
    BY <1>1, <1>2, <1>3

-----------------------------------------------------------------------------
(* The lenient decoder reads a text character by character.                *)

Char == 0..67
Start == [data |-> << >>, pads |-> 0, over |-> FALSE]

\* f is the recursion of Scan up to k.
Scans(f, k, s) == f[0] = Start /\ \A i \in 1..k : f[i] = Scanned(f[i - 1], s[i])

\* There is such a function,
LEMMA ScansExists ==
  ASSUME NEW s, NEW n \in Nat
  PROVE  \E f : DOMAIN f = 0..n /\ Scans(f, n, s)
  <1> DEFINE S == {k \in Nat : \E f : DOMAIN f = 0..k /\ Scans(f, k, s)}
  <1>1. 0 \in S
    <2> DEFINE f == [i \in 0..0 |-> Start]
    <2>1. DOMAIN f = 0..0 /\ Scans(f, 0, s)
      BY DEF Scans
    <2> QED
      BY <2>1
  <1>2. ASSUME NEW k \in Nat, k \in S PROVE k + 1 \in S
    <2>1. PICK g : DOMAIN g = 0..k /\ Scans(g, k, s)
      BY <1>2
    <2> DEFINE f == [i \in 0..(k + 1) |-> IF i = k + 1 THEN Scanned(g[k], s[k + 1]) ELSE g[i]]
    <2>2. f[0] = Start
      BY <2>1 DEF Scans
    <2>3. ASSUME NEW i \in 1..(k + 1) PROVE f[i] = Scanned(f[i - 1], s[i])
      <3>1. CASE i = k + 1
        <4>1. i - 1 = k /\ k \in 0..(k + 1) /\ k # k + 1
          BY <3>1
        <4> QED
          BY <3>1, <4>1
      <3>2. CASE i \in 1..k
        <4>1. f[i] = g[i] /\ f[i - 1] = g[i - 1]
          BY <3>2
        <4> QED
          BY <2>1, <3>2, <4>1 DEF Scans
      <3> QED
        BY <3>1, <3>2
    <2>4. DOMAIN f = 0..(k + 1) /\ Scans(f, k + 1, s)
      BY <2>2, <2>3 DEF Scans
    <2> QED
      BY <2>4
  <1>3. n \in S
    <2> HIDE DEF S
    <2> QED
      BY <1>1, <1>2, SetInduction
  <1> QED
    BY <1>3

\* so that Scan is what its recursion says.
LEMMA ScanIs ==
  ASSUME NEW s \in Seq(Char)
  PROVE  \E f : Scans(f, Len(s), s) /\ Scan(s) = f[Len(s)]
  <1> DEFINE n == Len(s)
             after[i \in 0..n] == IF i = 0 THEN Start ELSE Scanned(after[i - 1], s[i])
  <1>1. n \in Nat
    OBVIOUS
  <1>2. PICK g : DOMAIN g = 0..n /\ Scans(g, n, s)
    BY <1>1, ScansExists
  <1> DEFINE h == [i \in 0..n |-> g[i]]
  <1>3. h = [i \in 0..n |-> IF i = 0 THEN Start ELSE Scanned(h[i - 1], s[i])]
    <2>1. ASSUME NEW i \in 0..n PROVE h[i] = IF i = 0 THEN Start ELSE Scanned(h[i - 1], s[i])
      <3>1. CASE i = 0
        BY <1>2, <3>1 DEF Scans
      <3>2. CASE i # 0
        <4>1. i \in 1..n /\ i - 1 \in 0..n
          BY <1>1, <3>2
        <4> QED
          BY <1>2, <3>2, <4>1 DEF Scans
      <3> QED
        BY <3>1, <3>2
    <2> QED
      BY <2>1
  <1>4. after = [i \in 0..n |-> IF i = 0 THEN Start ELSE Scanned(after[i - 1], s[i])]
    <2> HIDE DEF h
    <2> QED
      BY <1>3
  <1>5. Scan(s) = after[n]
    BY DEF Scan, Start
  <1>6. Scans(after, n, s)
    <2> HIDE DEF after
    <2>1. after[0] = Start
      BY <1>1, <1>4
    <2>2. ASSUME NEW i \in 1..n PROVE after[i] = Scanned(after[i - 1], s[i])
      <3>1. i \in 0..n /\ i # 0
        BY <1>1
      <3> QED
        BY <1>4, <3>1
    <2> QED
      BY <2>1, <2>2 DEF Scans
  <1> QED
    BY <1>5, <1>6

-----------------------------------------------------------------------------
(* A text of the alphabet behind which at most two paddings follow.        *)

IsText(s, m) ==
  /\ m \in 0..Len(s)
  /\ Len(s) <= m + 2
  /\ \A i \in 1..m : s[i] \in 0..63
  /\ \A i \in (m + 1)..Len(s) : s[i] = Pad

LEMMA AppendSubSeq ==
  ASSUME NEW S, NEW s \in Seq(S), NEW k \in Nat, k + 1 <= Len(s)
  PROVE  Append(SubSeq(s, 1, k), s[k + 1]) = SubSeq(s, 1, k + 1)
  OBVIOUS

\* The decoder takes in the alphabet,
LEMMA ScansAlphabet ==
  ASSUME NEW s \in Seq(Char), NEW m, IsText(s, m), NEW f, Scans(f, Len(s), s)
  PROVE  f[m] = [data |-> SubSeq(s, 1, m), pads |-> 0, over |-> FALSE]
  <1> DEFINE Taken(k) == [data |-> SubSeq(s, 1, k), pads |-> 0, over |-> FALSE]
             S == {k \in Nat : k <= m => f[k] = Taken(k)}
  <1>1. m \in Nat /\ m <= Len(s) /\ Len(s) \in Nat
    BY DEF IsText
  <1>2. 0 \in S
    <2>1. SubSeq(s, 1, 0) = << >>
      BY SubSeqEmpty
    <2> QED
      BY <2>1 DEF Scans, Start
  <1>3. ASSUME NEW k \in Nat, k \in S PROVE k + 1 \in S
    <2> SUFFICES ASSUME k + 1 <= m PROVE f[k + 1] = Taken(k + 1)
      OBVIOUS
    <2>1. f[k] = Taken(k)
      BY <1>1, <1>3
    <2>2. k + 1 \in 1..Len(s) /\ k + 1 \in 1..m /\ (k + 1) - 1 = k
      BY <1>1
    <2>3. f[k + 1] = Scanned(f[k], s[k + 1])
      BY <2>2 DEF Scans
    <2>4. s[k + 1] \in 0..63
      BY <2>2 DEF IsText
    <2>5. s[k + 1] # Junk /\ s[k + 1] # Pad
      <3>1. \A x \in 0..63 : x # Junk /\ x # Pad
        BY DEF Junk, Pad
      <3> QED
        BY <2>4, <3>1
    <2>6. Scanned(Taken(k), s[k + 1])
            = [data |-> Append(SubSeq(s, 1, k), s[k + 1]), pads |-> 0, over |-> FALSE]
      BY <2>5 DEF Scanned
    <2>7. Append(SubSeq(s, 1, k), s[k + 1]) = SubSeq(s, 1, k + 1)
      BY <2>2, AppendSubSeq
    <2> QED
      BY <2>1, <2>3, <2>6, <2>7
  <1>4. m \in S
    <2> HIDE DEF S
    <2> QED
      BY <1>1, <1>2, <1>3, SetInduction
  <1> QED
    BY <1>1, <1>4

\* passes over padding out of place, counts the other padding,
LEMMA ScannedPad ==
  ASSUME NEW d, NEW p, NEW o, NEW x, x = ((Len(d) % 4) + p + 1 >= 4)
  PROVE  /\ o \/ Len(d) % 4 < 2
              => Scanned([data |-> d, pads |-> p, over |-> o], Pad) = [data |-> d, pads |-> p, over |-> o]
         /\ ~ (o \/ Len(d) % 4 < 2)
              => Scanned([data |-> d, pads |-> p, over |-> o], Pad)
                   = [data |-> d, pads |-> p + 1, over |-> x]
  <1> DEFINE st == [data |-> d, pads |-> p, over |-> o]
  <1>1. st.data = d /\ st.pads = p
    OBVIOUS
  <1>2. st.over = o
    BY Zenon
  <1>3. Pad # Junk
    BY DEF Pad, Junk
  <1> HIDE DEF st
  <1>4. o \/ Len(d) % 4 < 2 => Scanned(st, Pad) = st
    BY <1>1, <1>2, Zenon DEF Scanned
  <1>5. ~ (o \/ Len(d) % 4 < 2)
          => Scanned(st, Pad) = [data |-> d, pads |-> p + 1, over |-> x]
    BY <1>1, <1>2, <1>3, Zenon DEF Scanned
  <1> QED
    BY <1>4, <1>5, Zenon DEF st

\* and is over when the padding fills four.
LEMMA ScanOfText ==
  ASSUME NEW s \in Seq(Char), NEW m, IsText(s, m)
  PROVE  /\ Scan(s).data = SubSeq(s, 1, m)
         /\ Scan(s).over <=> \/ m % 4 = 2 /\ Len(s) = m + 2
                             \/ m % 4 = 3 /\ Len(s) > m
  <1>1. PICK f : Scans(f, Len(s), s) /\ Scan(s) = f[Len(s)]
    BY ScanIs
  <1> DEFINE d == SubSeq(s, 1, m)
             St(p, o) == [data |-> d, pads |-> p, over |-> o]
  <1>2. f[m] = St(0, FALSE)
    BY <1>1, ScansAlphabet
  <1>3. m \in Nat /\ Len(s) \in {m, m + 1, m + 2}
    BY DEF IsText
  <1>4. Len(d) = m /\ m % 4 \in 0..3
    BY <1>3 DEF IsText
  <1>5. \A p, o : St(p, o).data = d /\ St(p, o).over = o
    BY Zenon
  <1>6. ASSUME NEW k \in {m + 1, m + 2}, k <= Len(s) PROVE f[k] = Scanned(f[k - 1], Pad)
    <2>1. k \in 1..Len(s) /\ k \in (m + 1)..Len(s)
      BY <1>3, <1>6
    <2>2. s[k] = Pad
      BY <2>1 DEF IsText
    <2> QED
      BY <1>1, <2>1, <2>2 DEF Scans
  <1> DEFINE one == Scanned(St(0, FALSE), Pad)
             two == Scanned(one, Pad)
  <1>7. /\ Len(s) = m => Scan(s) = St(0, FALSE)
        /\ Len(s) = m + 1 => Scan(s) = one
        /\ Len(s) = m + 2 => Scan(s) = two
    <2>1. m + 1 <= Len(s) => f[m + 1] = one
      <3>1. m + 1 <= Len(s) => f[m + 1] = Scanned(f[(m + 1) - 1], Pad)
        BY <1>6
      <3>2. (m + 1) - 1 = m
        BY <1>3
      <3> QED
        BY <1>2, <3>1, <3>2, Zenon
    <2>2. m + 2 <= Len(s) => f[m + 2] = two
      <3>1. m + 2 <= Len(s) => f[m + 2] = Scanned(f[(m + 2) - 1], Pad)
        BY <1>6
      <3>2. (m + 2) - 1 = m + 1 /\ (m + 2 <= Len(s) => m + 1 <= Len(s))
        BY <1>3
      <3> HIDE DEF one
      <3> QED
        BY <2>1, <3>1, <3>2, Zenon
    <2> HIDE DEF d, one, two
    <2> QED
      BY <1>1, <1>2, <1>3, <2>1, <2>2
  <1>8. CASE m % 4 < 2
    <2>1. one = St(0, FALSE) /\ two = one
      <3> HIDE DEF d
      <3>1. one = St(0, FALSE)
        BY <1>4, <1>8, ScannedPad, Zenon
      <3> QED
        BY <3>1, Zenon
    <2> HIDE DEF d, one, two, St
    <2>2. Scan(s) = St(0, FALSE)
      BY <1>3, <1>7, <2>1
    <2>3. Scan(s).data = d /\ ~ Scan(s).over
      BY <1>5, <2>2, Zenon
    <2>4. ~ (m % 4 = 2) /\ ~ (m % 4 = 3)
      BY <1>4, <1>8
    <2> QED
      BY <2>3, <2>4, Zenon DEF d
  <1>9. CASE m % 4 = 2
    <2>1. one = St(0 + 1, FALSE)
      <3> HIDE DEF d
      <3>1. ~ (FALSE \/ Len(d) % 4 < 2) /\ FALSE = ((Len(d) % 4) + 0 + 1 >= 4)
        BY <1>4, <1>9
      <3> QED
        BY <3>1, ScannedPad, ZenonT(60)
    <2>2. two = St(1 + 1, TRUE)
      <3> HIDE DEF d, one
      <3>1. 0 + 1 = 1
        OBVIOUS
      <3>2. one = St(1, FALSE)
        BY <2>1, <3>1, Zenon
      <3>3. ~ (FALSE \/ Len(d) % 4 < 2) /\ TRUE = ((Len(d) % 4) + 1 + 1 >= 4)
        BY <1>4, <1>9
      <3>4. Scanned(St(1, FALSE), Pad) = St(1 + 1, TRUE)
        BY <3>3, ScannedPad, ZenonT(60)
      <3> QED
        BY <3>2, <3>4, Zenon
    <2> HIDE DEF d, one, two, St
    <2>3. Len(s) # m + 2 => Scan(s).data = d /\ ~ Scan(s).over
      <3>1. Len(s) # m + 2 => Scan(s) = St(0, FALSE) \/ Scan(s) = St(0 + 1, FALSE)
        BY <1>3, <1>7, <2>1
      <3> QED
        BY <1>5, <3>1, Zenon
    <2>4. Len(s) = m + 2 => Scan(s).data = d /\ Scan(s).over
      BY <1>5, <1>7, <2>2, Zenon
    <2>5. ~ (m % 4 = 3)
      BY <1>9
    <2> QED
      BY <1>9, <2>3, <2>4, <2>5, Zenon DEF d
  <1>10. CASE m % 4 = 3
    <2>1. one = St(0 + 1, TRUE)
      <3> HIDE DEF d
      <3>1. ~ (FALSE \/ Len(d) % 4 < 2) /\ TRUE = ((Len(d) % 4) + 0 + 1 >= 4)
        BY <1>4, <1>10
      <3> QED
        BY <3>1, ScannedPad, ZenonT(60)
    <2>2. two = one
      <3> HIDE DEF d, one
      <3> QED
        BY <2>1, ScannedPad, Zenon
    <2> HIDE DEF d, one, two, St
    <2>3. Len(s) = m => Scan(s).data = d /\ ~ Scan(s).over
      BY <1>5, <1>7, Zenon
    <2>4. Len(s) > m => Scan(s).data = d /\ Scan(s).over
      <3>1. Len(s) > m => Scan(s) = St(0 + 1, TRUE)
        <4>1. Len(s) > m => Len(s) = m + 1 \/ Len(s) = m + 2
          BY <1>3
        <4> QED
          BY <1>7, <2>1, <2>2, <4>1, Zenon
      <3> QED
        BY <1>5, <3>1, Zenon
    <2>5. ~ (m % 4 = 2) /\ (Len(s) = m \/ Len(s) > m) /\ ~ (Len(s) = m /\ Len(s) > m)
      BY <1>3, <1>10
    <2> QED
      BY <1>10, <2>3, <2>4, <2>5, Zenon DEF d
  <1> QED
    BY <1>4, <1>8, <1>9, <1>10

\* Decode of such a text: an error when its last character is not closed, else its bytes.
Bits(d) == [i \in 1..((3 * Len(d)) \div 4) |-> Octet(d, i - 1)]

Closed(s, m) == \/ m % 4 = 0
                \/ m % 4 = 2 /\ Len(s) = m + 2
                \/ m % 4 = 3 /\ Len(s) > m

LEMMA DecodeOfText ==
  ASSUME NEW s \in Seq(Char), NEW m, IsText(s, m)
  PROVE  Decode(s) = IF Closed(s, m) THEN AsBytes(Bits(SubSeq(s, 1, m))) ELSE Error
  <1> DEFINE d == SubSeq(s, 1, m)
  <1>1. Scan(s).data = d
    BY ScanOfText, Zenon
  <1>2. Scan(s).over <=> \/ m % 4 = 2 /\ Len(s) = m + 2
                         \/ m % 4 = 3 /\ Len(s) > m
    BY ScanOfText, Zenon
  <1>3. Len(d) = m
    BY DEF IsText
  <1>4. ~ Contains(s, Beyond) /\ ~ Contains(s, Lone)
    <2>1. ASSUME NEW i \in 1..Len(s) PROVE s[i] # Beyond /\ s[i] # Lone
      <3>1. m \in Nat
        BY DEF IsText
      <3>2. i \in 1..m \/ i \in (m + 1)..Len(s)
        BY <3>1
      <3>3. s[i] \in 0..63 \/ s[i] = Pad
        BY <3>2 DEF IsText
      <3>4. (\A x \in 0..63 : x # Beyond /\ x # Lone) /\ Pad # Beyond /\ Pad # Lone
        BY DEF Pad, Beyond, Lone
      <3> QED
        BY <3>3, <3>4
    <2> QED
      BY <2>1 DEF Contains
  <1> HIDE DEF d
  <1>5. ~ Scan(s).over /\ m % 4 # 0 <=> ~ Closed(s, m)
    <2>1. m % 4 = 0 => ~ (m % 4 = 2) /\ ~ (m % 4 = 3)
      OBVIOUS
    <2> QED
      BY <1>2, <2>1, Zenon DEF Closed
  <1>6. Decode(s) = IF ~ Scan(s).over /\ m % 4 # 0 THEN Error ELSE AsBytes(Bits(d))
    BY <1>1, <1>3, <1>4, Zenon DEF Decode, Bits
  <1> QED
    BY <1>5, <1>6, Zenon DEF d

-----------------------------------------------------------------------------
(* What is encoded is decoded.                                             *)

LEMMA Thirds ==
  ASSUME NEW k \in Nat
  PROVE  \E q \in Nat : k = 3 * q \/ k = 3 * q + 1 \/ k = 3 * q + 2
  <1>1. k \div 3 \in Nat /\ k \in {3 * (k \div 3), 3 * (k \div 3) + 1, 3 * (k \div 3) + 2}
    OBVIOUS
  <1> QED
    BY <1>1

LEMMA Quarters ==
  ASSUME NEW k \in Nat
  PROVE  \E q \in Nat : k = 4 * q \/ k = 4 * q + 1 \/ k = 4 * q + 2 \/ k = 4 * q + 3
  <1>1. k \div 4 \in Nat
    OBVIOUS
  <1>2. k \in {4 * (k \div 4), 4 * (k \div 4) + 1, 4 * (k \div 4) + 2, 4 * (k \div 4) + 3}
    OBVIOUS
  <1> QED
    BY <1>1, <1>2

\* The bits of three bytes come together again.
LEMMA Joined0 ==
  ASSUME NEW a \in 0..255, NEW b \in 0..255
  PROVE  4 * (a \div 4) + ((16 * (a % 4) + (b \div 16)) \div 16) = a
  OBVIOUS

LEMMA JoinedHigh ==
  ASSUME NEW a \in 0..255, NEW b \in 0..255
  PROVE  (16 * (a % 4) + (b \div 16)) % 16 = b \div 16
  OBVIOUS

LEMMA JoinedLow ==
  ASSUME NEW b \in 0..255, NEW c \in 0..255
  PROVE  (4 * (b % 16) + (c \div 64)) \div 4 = b % 16
  OBVIOUS

LEMMA Joined2 ==
  ASSUME NEW b \in 0..255, NEW c \in 0..255
  PROVE  64 * ((4 * (b % 16) + (c \div 64)) % 4) + (c % 64) = c
  OBVIOUS

\* A character is one of the 64.
LEMMA SextetRange0 ==
  ASSUME NEW a \in 0..255
  PROVE  a \div 4 \in 0..63 /\ a % 64 \in 0..63
  OBVIOUS

LEMMA SextetRange1 ==
  ASSUME NEW a \in 0..255, NEW b \in 0..255
  PROVE  16 * (a % 4) + (b \div 16) \in 0..63
  OBVIOUS

LEMMA SextetRange2 ==
  ASSUME NEW b \in 0..255, NEW c \in 0..255
  PROVE  4 * (b % 16) + (c \div 64) \in 0..63
  OBVIOUS

LEMMA SextetType ==
  ASSUME NEW v \in Seq(0..255), NEW k \in Nat
  PROVE  Sextet(v, k) \in 0..63
  <1>1. PICK q \in Nat : k = 4 * q \/ k = 4 * q + 1 \/ k = 4 * q + 2 \/ k = 4 * q + 3
    BY Quarters
  <1> DEFINE a == ByteAt(v, 3 * q + 1)
             b == ByteAt(v, 3 * q + 2)
             c == ByteAt(v, 3 * q + 3)
  <1>2. /\ a \in 0..255 /\ b \in 0..255 /\ c \in 0..255
        /\ Sextet(v, 4 * q) = a \div 4
        /\ Sextet(v, 4 * q + 1) = 16 * (a % 4) + (b \div 16)
        /\ Sextet(v, 4 * q + 2) = 4 * (b % 16) + (c \div 64)
        /\ Sextet(v, 4 * q + 3) = c % 64
    BY SextetsOf
  <1> HIDE DEF a, b, c
  <1>3. /\ a \div 4 \in 0..63
        /\ 16 * (a % 4) + (b \div 16) \in 0..63
        /\ 4 * (b % 16) + (c \div 64) \in 0..63
        /\ c % 64 \in 0..63
    <2>1. a \in 0..255 /\ b \in 0..255 /\ c \in 0..255
      BY <1>2, Zenon
    <2> QED
      BY <2>1, SextetRange0, SextetRange1, SextetRange2, Zenon
  <1>4. /\ Sextet(v, 4 * q) \in 0..63 /\ Sextet(v, 4 * q + 1) \in 0..63
        /\ Sextet(v, 4 * q + 2) \in 0..63 /\ Sextet(v, 4 * q + 3) \in 0..63
    BY <1>2, <1>3, Zenon
  <1> QED
    BY <1>1, <1>4, Zenon

\* How long the text is, and where its bytes and characters lie.
LEMMA TextLength ==
  ASSUME NEW n \in Nat, NEW m, m = ((4 * n) + 2) \div 3, NEW k, k = 4 * ((n + 2) \div 3)
  PROVE  /\ m \in Nat /\ k \in Nat
         /\ m <= k /\ k <= m + 2
         /\ (3 * m) \div 4 = n
         /\ \/ m % 4 = 0
            \/ m % 4 = 2 /\ k = m + 2
            \/ m % 4 = 3 /\ k > m
  <1>1. PICK q \in Nat : n = 3 * q \/ n = 3 * q + 1 \/ n = 3 * q + 2
    BY Thirds
  <1>2. CASE n = 3 * q
    <2>1. m = 4 * q /\ k = 4 * q
      BY <1>2
    <2> QED
      BY <1>2, <2>1
  <1>3. CASE n = 3 * q + 1
    <2>1. m = 4 * q + 2 /\ k = 4 * q + 4
      BY <1>3
    <2> QED
      BY <1>3, <2>1
  <1>4. CASE n = 3 * q + 2
    <2>1. m = 4 * q + 3 /\ k = 4 * q + 4
      BY <1>4
    <2> QED
      BY <1>4, <2>1
  <1> QED
    BY <1>1, <1>2, <1>3, <1>4

LEMMA Places ==
  ASSUME NEW m \in Nat, NEW q \in Nat
  PROVE  /\ 3 * q < (3 * m) \div 4 => 4 * q + 2 <= m
         /\ 3 * q + 1 < (3 * m) \div 4 => 4 * q + 3 <= m
         /\ 3 * q + 2 < (3 * m) \div 4 => 4 * q + 4 <= m
  <1>1. 3 * q < (3 * m) \div 4 => 4 * q + 2 <= m
    OBVIOUS
  <1>2. 3 * q + 1 < (3 * m) \div 4 => 4 * q + 3 <= m
    OBVIOUS
  <1>3. 3 * q + 2 < (3 * m) \div 4 => 4 * q + 4 <= m
    OBVIOUS
  <1> QED
    BY <1>1, <1>2, <1>3

\* The text that Encode writes.
LEMMA EncodeIsText ==
  ASSUME NEW v \in Seq(0..255), NEW m, m = ((4 * Len(v)) + 2) \div 3
  PROVE  /\ Encode(v) \in Seq(Char)
         /\ IsText(Encode(v), m)
         /\ Closed(Encode(v), m)
         /\ \A i \in 1..m : Encode(v)[i] = Sextet(v, i - 1)
  <1> DEFINE e == Encode(v)
             k == 4 * ((Len(v) + 2) \div 3)
  <1>1. Len(v) \in Nat
    OBVIOUS
  <1>2. /\ m \in Nat /\ k \in Nat
        /\ m <= k /\ k <= m + 2
        /\ \/ m % 4 = 0
           \/ m % 4 = 2 /\ k = m + 2
           \/ m % 4 = 3 /\ k > m
    <2> HIDE DEF k
    <2> QED
      BY <1>1, TextLength DEF k
  <1>3. e = [i \in 1..k |-> IF i <= m THEN Sextet(v, i - 1) ELSE Pad]
    BY Zenon DEF Encode
  <1> HIDE DEF e, k
  <1>4. \A i \in 1..m : i \in 1..k /\ i <= m /\ i - 1 \in Nat
    BY <1>2
  <1>5. \A i \in 1..m : e[i] = Sextet(v, i - 1)
    BY <1>3, <1>4
  <1>6. \A i \in 1..m : e[i] \in 0..63
    BY <1>4, <1>5, SextetType
  <1>7. \A i \in (m + 1)..k : e[i] = Pad
    <2>1. \A i \in (m + 1)..k : i \in 1..k /\ ~ (i <= m)
      BY <1>2
    <2> QED
      BY <1>3, <2>1
  <1>8. \A i \in 1..k : e[i] \in Char
    <2>1. \A i \in 1..k : i \in 1..m \/ i \in (m + 1)..k
      BY <1>2
    <2>2. \A x : x \in 0..63 \/ x = Pad => x \in Char
      BY DEF Pad, Char
    <2> QED
      BY <1>6, <1>7, <2>1, <2>2
  <1>9. e \in Seq(Char) /\ Len(e) = k
    BY <1>2, <1>3, <1>8, IsASeq
  <1>10. IsText(e, m)
    BY <1>2, <1>6, <1>7, <1>9 DEF IsText
  <1>11. Closed(e, m)
    BY <1>2, <1>9, Zenon DEF Closed
  <1> QED
    BY <1>5, <1>9, <1>10, <1>11, Zenon DEF e

\* The bytes that four characters hold are the three they come from.
LEMMA BitsOfSextets ==
  ASSUME NEW v \in Seq(0..255), NEW d, NEW m, m = ((4 * Len(v)) + 2) \div 3,
         \A i \in 1..m : d[i] = Sextet(v, i - 1),
         NEW j \in 1..Len(v)
  PROVE  Octet(d, j - 1) = v[j]
  <1>1. Len(v) \in Nat /\ j \in Nat /\ j - 1 \in Nat /\ j - 1 < Len(v) /\ j <= Len(v)
    OBVIOUS
  <1>2. m \in Nat /\ (3 * m) \div 4 = Len(v)
    <2>1. \A k : k = 4 * ((Len(v) + 2) \div 3) => m \in Nat /\ (3 * m) \div 4 = Len(v)
      BY <1>1, TextLength
    <2> QED
      BY <2>1, Zenon
  <1>3. PICK q \in Nat : j - 1 = 3 * q \/ j - 1 = 3 * q + 1 \/ j - 1 = 3 * q + 2
    BY <1>1, Thirds
  <1> DEFINE a == ByteAt(v, 3 * q + 1)
             b == ByteAt(v, 3 * q + 2)
             c == ByteAt(v, 3 * q + 3)
  <1>4. a \in 0..255 /\ b \in 0..255 /\ c \in 0..255
    BY SextetsOf, ZenonT(60)
  <1>5. /\ Sextet(v, 4 * q) = a \div 4
        /\ Sextet(v, 4 * q + 1) = 16 * (a % 4) + (b \div 16)
        /\ Sextet(v, 4 * q + 2) = 4 * (b % 16) + (c \div 64)
        /\ Sextet(v, 4 * q + 3) = c % 64
    BY SextetsOf, ZenonT(60)
  <1>6. ASSUME NEW x \in Nat, x + 1 <= m PROVE d[x + 1] = Sextet(v, x)
    <2>1. x + 1 \in 1..m /\ (x + 1) - 1 = x
      BY <1>2, <1>6
    <2> QED
      BY <2>1, Zenon
  <1>7. /\ 3 * q < Len(v) => 4 * q + 2 <= m
        /\ 3 * q + 1 < Len(v) => 4 * q + 3 <= m
        /\ 3 * q + 2 < Len(v) => 4 * q + 4 <= m
    BY <1>2, Places, Zenon
  <1>8. /\ 4 * q + 1 <= m => d[4 * q + 1] = a \div 4
        /\ 4 * q + 2 <= m => d[4 * q + 2] = 16 * (a % 4) + (b \div 16)
        /\ 4 * q + 3 <= m => d[4 * q + 3] = 4 * (b % 16) + (c \div 64)
        /\ 4 * q + 4 <= m => d[4 * q + 4] = c % 64
    <2>1. /\ 4 * q \in Nat /\ 4 * q + 1 \in Nat /\ 4 * q + 2 \in Nat /\ 4 * q + 3 \in Nat
          /\ (4 * q + 1) + 1 = 4 * q + 2 /\ (4 * q + 2) + 1 = 4 * q + 3
          /\ (4 * q + 3) + 1 = 4 * q + 4
      OBVIOUS
    <2> HIDE DEF a, b, c
    <2> QED
      BY <1>5, <1>6, <2>1, Zenon
  <1> HIDE DEF a, b, c
  <1>9. /\ a \div 4 \in 0..63
        /\ 16 * (a % 4) + (b \div 16) \in 0..63
        /\ 4 * (b % 16) + (c \div 64) \in 0..63
        /\ c % 64 \in 0..63
    BY <1>4, SextetRange0, SextetRange1, SextetRange2, Zenon
  <1>10. CASE j - 1 = 3 * q
    <2>1. j = 3 * q + 1 /\ 3 * q < Len(v) /\ 3 * q + 1 <= Len(v)
      BY <1>1, <1>10
    <2>2. a = v[j]
      BY <2>1 DEF a, ByteAt
    <2>3. 4 * q + 2 <= m /\ 4 * q + 1 <= m
      BY <1>2, <1>7, <2>1
    <2>4. d[4 * q + 1] = a \div 4 /\ d[4 * q + 2] = 16 * (a % 4) + (b \div 16)
      BY <1>8, <2>3, Zenon
    <2>5. Octet(d, 3 * q) = (((64 * d[4 * q + 1]) + d[4 * q + 2]) \div 16) % 256
      BY OctetsAt, ZenonT(60)
    <2> DEFINE x == a \div 4
               y == 16 * (a % 4) + (b \div 16)
    <2>6. x \in 0..63 /\ y \in 0..63
      BY <1>9, Zenon
    <2>7. 4 * x + (y \div 16) = a
      BY <1>4, Joined0
    <2> HIDE DEF x, y
    <2>8. (((64 * x) + y) \div 16) % 256 = 4 * x + (y \div 16)
      BY <2>6, OctetBits0
    <2>9. Octet(d, 3 * q) = (((64 * x) + y) \div 16) % 256
      BY <2>4, <2>5, Zenon DEF x, y
    <2> QED
      BY <1>10, <2>2, <2>7, <2>8, <2>9, Zenon
  <1>11. CASE j - 1 = 3 * q + 1
    <2>1. j = 3 * q + 2 /\ 3 * q + 1 < Len(v) /\ 3 * q + 2 <= Len(v)
      BY <1>1, <1>11
    <2>2. b = v[j]
      BY <2>1 DEF b, ByteAt
    <2>3. 4 * q + 3 <= m /\ 4 * q + 2 <= m
      BY <1>2, <1>7, <2>1
    <2>4. d[4 * q + 2] = 16 * (a % 4) + (b \div 16) /\ d[4 * q + 3] = 4 * (b % 16) + (c \div 64)
      BY <1>8, <2>3, Zenon
    <2>5. Octet(d, 3 * q + 1) = (((64 * d[4 * q + 2]) + d[4 * q + 3]) \div 4) % 256
      BY OctetsAt, ZenonT(60)
    <2> DEFINE x == 16 * (a % 4) + (b \div 16)
               y == 4 * (b % 16) + (c \div 64)
    <2>6. x \in 0..63 /\ y \in 0..63
      BY <1>9, Zenon
    <2>7. 16 * (x % 16) + (y \div 4) = b
      <3>1. x % 16 = b \div 16
        BY <1>4, JoinedHigh
      <3>2. y \div 4 = b % 16
        BY <1>4, JoinedLow
      <3>3. 16 * (b \div 16) + (b % 16) = b
        BY <1>4
      <3> QED
        BY <3>1, <3>2, <3>3, Zenon
    <2> HIDE DEF x, y
    <2>8. (((64 * x) + y) \div 4) % 256 = 16 * (x % 16) + (y \div 4)
      BY <2>6, OctetBits1
    <2>9. Octet(d, 3 * q + 1) = (((64 * x) + y) \div 4) % 256
      BY <2>4, <2>5, Zenon DEF x, y
    <2> QED
      BY <1>11, <2>2, <2>7, <2>8, <2>9, Zenon
  <1>12. CASE j - 1 = 3 * q + 2
    <2>1. j = 3 * q + 3 /\ 3 * q + 2 < Len(v) /\ 3 * q + 3 <= Len(v)
      BY <1>1, <1>12
    <2>2. c = v[j]
      BY <2>1 DEF c, ByteAt
    <2>3. 4 * q + 4 <= m /\ 4 * q + 3 <= m
      BY <1>2, <1>7, <2>1
    <2>4. d[4 * q + 3] = 4 * (b % 16) + (c \div 64) /\ d[4 * q + 4] = c % 64
      BY <1>8, <2>3, Zenon
    <2>5. Octet(d, 3 * q + 2) = (((64 * d[4 * q + 3]) + d[4 * q + 4]) \div 1) % 256
      BY OctetsAt, ZenonT(60)
    <2> DEFINE x == 4 * (b % 16) + (c \div 64)
               y == c % 64
    <2>6. x \in 0..63 /\ y \in 0..63
      BY <1>9, Zenon
    <2>7. 64 * (x % 4) + y = c
      BY <1>4, Joined2
    <2> HIDE DEF x, y
    <2>8. (((64 * x) + y) \div 1) % 256 = 64 * (x % 4) + y
      BY <2>6, OctetBits2
    <2>9. Octet(d, 3 * q + 2) = (((64 * x) + y) \div 1) % 256
      BY <2>4, <2>5, Zenon DEF x, y
    <2> QED
      BY <1>12, <2>2, <2>7, <2>8, <2>9, Zenon
  <1> QED
    BY <1>3, <1>10, <1>11, <1>12

\* Decode is the inverse of Encode.
LEMMA DecodeOfEncode ==
  ASSUME NEW v \in Seq(0..255)
  PROVE  Decode(Encode(v)) = AsBytes(v)
  <1> DEFINE n == Len(v)
             m == ((4 * n) + 2) \div 3
             e == Encode(v)
             d == SubSeq(e, 1, m)
  <1>1. /\ e \in Seq(Char)
        /\ IsText(e, m)
        /\ Closed(e, m)
        /\ \A i \in 1..m : e[i] = Sextet(v, i - 1)
    BY EncodeIsText
  <1>2. n \in Nat /\ m \in Nat /\ (3 * m) \div 4 = n
    <2>1. n \in Nat
      OBVIOUS
    <2> HIDE DEF n
    <2>2. \A k : k = 4 * ((n + 2) \div 3) => m \in Nat /\ (3 * m) \div 4 = n
      BY <2>1, TextLength
    <2> QED
      BY <2>1, <2>2, Zenon
  <1> HIDE DEF e, m
  <1>3. Decode(e) = AsBytes(Bits(d))
    BY <1>1, DecodeOfText, Zenon
  <1>4. Len(d) = m /\ \A i \in 1..m : d[i] = e[i]
    BY <1>1, <1>2 DEF IsText
  <1>5. \A i \in 1..m : d[i] = Sextet(v, i - 1)
    BY <1>1, <1>4
  <1> HIDE DEF d
  <1>6. ASSUME NEW i \in 1..n PROVE Octet(d, i - 1) = v[i]
    BY <1>5, BitsOfSextets, Zenon DEF m
  <1>7. Bits(d) = [i \in 1..n |-> v[i]]
    BY <1>2, <1>4, <1>6, Zenon DEF Bits
  <1>8. v = [i \in 1..n |-> v[i]]
    OBVIOUS
  <1> QED
    BY <1>3, <1>7, <1>8, Zenon DEF e

-----------------------------------------------------------------------------
(* The strict decoder takes exactly the texts of the alphabet.             *)

Refused(s) ==
  \E i \in 1..Len(s) :
    s[i] > Pad \/ (s[i] = Pad /\ \E j \in i..Len(s) : s[j] # Pad \/ j > i + 1)

LEMMA RefusedOrText ==
  ASSUME NEW s \in Seq(Char), ~ Refused(s)
  PROVE  \E m : IsText(s, m)
  <1> DEFINE n == Len(s)
  <1>1. n \in Nat
    OBVIOUS
  <1>2. \A i \in 1..n : s[i] \in 0..67 /\ ~ (s[i] > 64)
    <2>1. \A i \in 1..n : s[i] \in Char
      BY ElementOfSeq
    <2>2. \A i \in 1..n : ~ (s[i] > Pad)
      BY Zenon DEF Refused
    <2> QED
      BY <2>1, <2>2 DEF Pad, Char
  <1>3. \A i \in 1..n : s[i] = 64 => \A j \in i..n : s[j] = 64 /\ ~ (j > i + 1)
    BY DEF Refused, Pad
  <1> HIDE DEF n
  <1>4. \A i \in 1..n : s[i] # 64 => s[i] \in 0..63
    <2>1. \A x \in 0..67 : ~ (x > 64) /\ x # 64 => x \in 0..63
      OBVIOUS
    <2> QED
      BY <1>2, <2>1
  <1>5. \A i \in 1..n : s[i] = 64 => i + 1 >= n /\ s[n] = 64 /\ (i < n => s[n - 1] = 64)
    <2> SUFFICES ASSUME NEW i \in 1..n, s[i] = 64
                 PROVE  i + 1 >= n /\ s[n] = 64 /\ (i < n => s[n - 1] = 64)
      OBVIOUS
    <2>1. n \in i..n /\ (i < n => n - 1 \in i..n)
      BY <1>1
    <2>2. s[n] = 64 /\ ~ (n > i + 1) /\ (i < n => s[n - 1] = 64)
      BY <1>3, <2>1
    <2> QED
      BY <1>1, <2>2
  <1>6. CASE \A i \in 1..n : s[i] # 64
    <2>1. n \in 0..n /\ n <= n + 2 /\ (n + 1)..n = {}
      BY <1>1
    <2>2. IsText(s, n)
      BY <1>4, <1>6, <2>1 DEF IsText, n
    <2> QED
      BY <2>2
  <1>7. CASE n >= 1 /\ s[n] = 64 /\ ~ (n >= 2 /\ s[n - 1] = 64)
    <2>1. n - 1 \in 0..n /\ n <= (n - 1) + 2 /\ ((n - 1) + 1)..n = {n}
      BY <1>1, <1>7
    <2>2. \A i \in 1..(n - 1) : i \in 1..n /\ i < n /\ n >= 2
      BY <1>1
    <2>3. \A i \in 1..(n - 1) : s[i] \in 0..63
      BY <1>4, <1>5, <1>7, <2>2
    <2>4. IsText(s, n - 1)
      BY <1>7, <2>1, <2>3 DEF IsText, Pad, n
    <2> QED
      BY <2>4
  <1>8. CASE n >= 2 /\ s[n] = 64 /\ s[n - 1] = 64
    <2>1. n - 2 \in 0..n /\ n <= (n - 2) + 2 /\ \A i \in ((n - 2) + 1)..n : i = n - 1 \/ i = n
      BY <1>1, <1>8
    <2>2. \A i \in 1..(n - 2) : i \in 1..n /\ ~ (i + 1 >= n)
      BY <1>1
    <2>3. \A i \in 1..(n - 2) : s[i] \in 0..63
      BY <1>4, <1>5, <2>2
    <2>4. IsText(s, n - 2)
      BY <1>8, <2>1, <2>3 DEF IsText, Pad, n
    <2> QED
      BY <2>4
  <1>9. (\E i \in 1..n : s[i] = 64) => n >= 1 /\ s[n] = 64
    BY <1>1, <1>5
  <1> QED
    BY <1>6, <1>7, <1>8, <1>9

LEMMA TextNotRefused ==
  ASSUME NEW s \in Seq(Char), NEW m, IsText(s, m)
  PROVE  ~ Refused(s)
  <1>1. m \in Nat /\ Len(s) \in Nat /\ Len(s) <= m + 2
    BY DEF IsText
  <1> SUFFICES ASSUME NEW i \in 1..Len(s)
               PROVE  /\ ~ (s[i] > Pad)
                      /\ s[i] = Pad => \A j \in i..Len(s) : s[j] = Pad /\ ~ (j > i + 1)
    BY DEF Refused
  <1>2. CASE i \in 1..m
    <2>1. \A x \in 0..63 : ~ (x > Pad) /\ x # Pad
      BY DEF Pad
    <2> QED
      BY <1>2, <2>1 DEF IsText
  <1>3. CASE i \in (m + 1)..Len(s)
    <2>1. \A j \in i..Len(s) : j \in (m + 1)..Len(s) /\ ~ (j > i + 1)
      BY <1>1, <1>3
    <2>2. s[i] = Pad /\ \A j \in i..Len(s) : s[j] = Pad
      BY <1>3, <2>1 DEF IsText
    <2>3. ~ (Pad > Pad)
      BY DEF Pad
    <2> QED
      BY <2>1, <2>2, <2>3
  <1> QED
    BY <1>1, <1>2, <1>3

LEMMA ValidatedIs ==
  ASSUME NEW s
  PROVE  DecodeValidated(s) = IF Refused(s) THEN Error ELSE Decode(s)
  BY Zenon DEF DecodeValidated, Refused

\* A text has as many characters that count as it has of the alphabet.
LEMMA SignificantOfText ==
  ASSUME NEW s \in Seq(Char), NEW m, IsText(s, m)
  PROVE  Significant(s) = m
  <1>1. m \in Nat /\ Len(s) \in Nat /\ m <= Len(s)
    BY DEF IsText
  <1>2. {i \in 1..Len(s) : s[i] < Pad} = 1..m
    <2>1. ASSUME NEW i \in 1..Len(s), s[i] < Pad PROVE i \in 1..m
      <3>1. i \in 1..m \/ i \in (m + 1)..Len(s)
        BY <1>1
      <3>2. ~ (Pad < Pad)
        BY DEF Pad
      <3> QED
        BY <2>1, <3>1, <3>2 DEF IsText
    <2>2. ASSUME NEW i \in 1..m PROVE i \in 1..Len(s) /\ s[i] < Pad
      <3>1. \A x \in 0..63 : x < Pad
        BY DEF Pad
      <3>2. s[i] \in 0..63
        BY <2>2 DEF IsText
      <3>3. i \in 1..Len(s)
        BY <1>1
      <3> QED
        BY <3>1, <3>2, <3>3
    <2> QED
      BY <2>1, <2>2
  <1>3. Cardinality(1..m) = m
    BY <1>1, FS_Interval
  <1> QED
    BY <1>2, <1>3 DEF Significant

-----------------------------------------------------------------------------
(* The two promises.                                                       *)

LEMMA OctetRange0 ==
  ASSUME NEW a \in 0..63, NEW b \in 0..63
  PROVE  (((64 * a) + b) \div 16) % 256 \in 0..255
  OBVIOUS

LEMMA OctetRange1 ==
  ASSUME NEW a \in 0..63, NEW b \in 0..63
  PROVE  (((64 * a) + b) \div 4) % 256 \in 0..255
  OBVIOUS

LEMMA OctetRange2 ==
  ASSUME NEW a \in 0..63, NEW b \in 0..63
  PROVE  (((64 * a) + b) \div 1) % 256 \in 0..255
  OBVIOUS

LEMMA ClosedLength ==
  ASSUME NEW m \in Nat, m % 4 \in {0, 2, 3}
  PROVE  ((4 * ((3 * m) \div 4)) + 2) \div 3 = m
  <1>1. PICK q \in Nat : m = 4 * q \/ m = 4 * q + 1 \/ m = 4 * q + 2 \/ m = 4 * q + 3
    BY Quarters
  <1>2. CASE m = 4 * q
    <2>1. (3 * m) \div 4 = 3 * q
      BY <1>2
    <2> QED
      BY <1>2, <2>1
  <1>3. m # 4 * q + 1
    <2>1. (4 * q + 1) % 4 = 1
      OBVIOUS
    <2> QED
      BY <2>1
  <1>4. CASE m = 4 * q + 2
    <2>1. (3 * m) \div 4 = 3 * q + 1
      BY <1>4
    <2> QED
      BY <1>4, <2>1
  <1>5. CASE m = 4 * q + 3
    <2>1. (3 * m) \div 4 = 3 * q + 2
      BY <1>5
    <2> QED
      BY <1>5, <2>1
  <1> QED
    BY <1>1, <1>2, <1>3, <1>4, <1>5

\* A text whose bytes are b: as many characters count in it as in Encode(b), so that
\* none of it was skipped.
LEMMA NothingSkipped ==
  ASSUME NEW s \in Seq(Char), NEW m, IsText(s, m), Closed(s, m)
  PROVE  LET b == Bits(SubSeq(s, 1, m))
         IN  Significant(s) = Significant(Encode(b))
  <1> DEFINE d == SubSeq(s, 1, m)
             n == (3 * m) \div 4
             b == Bits(d)
             k == ((4 * n) + 2) \div 3
  <1>1. m \in Nat
    BY DEF IsText
  <1>2. Len(d) = m /\ \A i \in 1..m : d[i] \in 0..63
    BY DEF IsText
  <1>3. n \in Nat
    BY <1>1
  <1> HIDE DEF d
  <1>4. b = [i \in 1..n |-> Octet(d, i - 1)]
    BY <1>2, Zenon DEF Bits
  <1> HIDE DEF b
  <1>5. ASSUME NEW i \in 1..n PROVE Octet(d, i - 1) \in 0..255
    <2>1. i - 1 \in Nat /\ i - 1 < n
      BY <1>3
    <2> HIDE DEF n
    <2>2. PICK q \in Nat : i - 1 = 3 * q \/ i - 1 = 3 * q + 1 \/ i - 1 = 3 * q + 2
      BY <2>1, Thirds
    <2>3. /\ 3 * q < n => 4 * q + 2 <= m
          /\ 3 * q + 1 < n => 4 * q + 3 <= m
          /\ 3 * q + 2 < n => 4 * q + 4 <= m
      BY <1>1, Places, Zenon DEF n
    <2>5. CASE i - 1 = 3 * q
      <3>1. 4 * q + 1 \in 1..m /\ 4 * q + 2 \in 1..m
        BY <1>1, <2>1, <2>3, <2>5
      <3>2. Octet(d, 3 * q) = (((64 * d[4 * q + 1]) + d[4 * q + 2]) \div 16) % 256
        BY OctetsAt, ZenonT(60)
      <3> QED
        <4>1. d[4 * q + 1] \in 0..63 /\ d[4 * q + 2] \in 0..63
          BY <1>2, <3>1, Zenon
        <4> DEFINE x == d[4 * q + 1]
                   y == d[4 * q + 2]
        <4>2. x \in 0..63 /\ y \in 0..63 /\ Octet(d, i - 1) = (((64 * x) + y) \div 16) % 256
          BY <2>5, <3>2, <4>1, Zenon
        <4> HIDE DEF x, y
        <4>3. (((64 * x) + y) \div 16) % 256 \in 0..255
          BY <4>2, OctetRange0
        <4> QED
          BY <4>2, <4>3, Zenon
    <2>6. CASE i - 1 = 3 * q + 1
      <3>1. 4 * q + 2 \in 1..m /\ 4 * q + 3 \in 1..m
        BY <1>1, <2>1, <2>3, <2>6
      <3>2. Octet(d, 3 * q + 1) = (((64 * d[4 * q + 2]) + d[4 * q + 3]) \div 4) % 256
        BY OctetsAt, ZenonT(60)
      <3> QED
        <4>1. d[4 * q + 2] \in 0..63 /\ d[4 * q + 3] \in 0..63
          BY <1>2, <3>1, Zenon
        <4> DEFINE x == d[4 * q + 2]
                   y == d[4 * q + 3]
        <4>2. x \in 0..63 /\ y \in 0..63 /\ Octet(d, i - 1) = (((64 * x) + y) \div 4) % 256
          BY <2>6, <3>2, <4>1, Zenon
        <4> HIDE DEF x, y
        <4>3. (((64 * x) + y) \div 4) % 256 \in 0..255
          BY <4>2, OctetRange1
        <4> QED
          BY <4>2, <4>3, Zenon
    <2>7. CASE i - 1 = 3 * q + 2
      <3>1. 4 * q + 3 \in 1..m /\ 4 * q + 4 \in 1..m
        BY <1>1, <2>1, <2>3, <2>7
      <3>2. Octet(d, 3 * q + 2) = (((64 * d[4 * q + 3]) + d[4 * q + 4]) \div 1) % 256
        BY OctetsAt, ZenonT(60)
      <3> QED
        <4>1. d[4 * q + 3] \in 0..63 /\ d[4 * q + 4] \in 0..63
          BY <1>2, <3>1, Zenon
        <4> DEFINE x == d[4 * q + 3]
                   y == d[4 * q + 4]
        <4>2. x \in 0..63 /\ y \in 0..63 /\ Octet(d, i - 1) = (((64 * x) + y) \div 1) % 256
          BY <2>7, <3>2, <4>1, Zenon
        <4> HIDE DEF x, y
        <4>3. (((64 * x) + y) \div 1) % 256 \in 0..255
          BY <4>2, OctetRange2
        <4> QED
          BY <4>2, <4>3, Zenon
    <2> QED
      BY <2>2, <2>5, <2>6, <2>7
  <1>6. b \in Seq(0..255) /\ Len(b) = n
    <2> HIDE DEF n
    <2> QED
      BY <1>3, <1>4, <1>5, IsASeq
  <1>7. k = m
    <2>1. m % 4 \in {0, 2, 3}
      BY DEF Closed
    <2> QED
      BY <1>1, <2>1, ClosedLength
  <1> HIDE DEF n
  <1>8. Significant(Encode(b)) = k
    BY <1>6, EncodeIsText, SignificantOfText, Zenon
  <1>9. Significant(s) = m
    BY SignificantOfText, Zenon
  <1> QED
    BY <1>7, <1>8, <1>9, Zenon DEF b, d

\* The state: a text of this library with its value, or any text; unread, or read by
\* all three.
IInv ==
  /\ \/ value \in Seq(0..255) /\ wire = Written(value)
     \/ value = None /\ wire \in Seq(Char)
  /\ \/ read = Unread
     \/ read = [fetch |-> Fetched(wire), replay |-> Replayed(wire), get |-> Got(wire)]

LEMMA BoundedIsSeq ==
  ASSUME NEW S, NEW n, n \in Nat, NEW s \in BoundedSeq(S, n), NEW T, S \subseteq T
  PROVE  s \in Seq(T)
  <1>1. PICK k \in 0..n : s \in [1..k -> S]
    BY DEF BoundedSeq, SeqOf
  <1>2. k \in Nat /\ s \in [1..k -> T]
    BY <1>1
  <1> QED
    BY <1>2, SeqDef

\* The state stays in the invariant, for every bound on values and texts.
THEOREM Invariance == Spec => []IInv
  <1>1. Init => IInv
    <2>1. ASSUME value \in BoundedSeq(Bytes, MaxBytes) PROVE value \in Seq(0..255)
      <3>1. Bytes \subseteq 0..255 /\ MaxBytes \in Nat
        BY PayloadAssumption
      <3> QED
        BY <2>1, <3>1, BoundedIsSeq
    <2>2. ASSUME wire \in BoundedSeq(Letters \cup {Pad, Junk, Beyond, Lone}, MaxChars)
          PROVE  wire \in Seq(Char)
      <3>1. Letters \cup {Pad, Junk, Beyond, Lone} \subseteq Char /\ MaxChars \in Nat
        BY PayloadAssumption DEF Pad, Junk, Beyond, Lone, Char
      <3> QED
        BY <2>2, <3>1, BoundedIsSeq
    <2> QED
      BY <2>1, <2>2 DEF Init, IInv
  <1>2. IInv /\ [Read]_vars => IInv'
    <2> SUFFICES ASSUME IInv, [Read]_vars PROVE IInv'
      OBVIOUS
    <2>1. CASE Read
      BY <2>1 DEF IInv, Read
    <2>2. CASE UNCHANGED vars
      BY <2>2, Zenon DEF IInv, vars
    <2> QED
      BY <2>1, <2>2
  <1> QED
    BY <1>1, <1>2, PTL DEF Spec

\* What the readers return differs in its kind.
LEMMA Kinds ==
  ASSUME NEW x
  PROVE  /\ AsBytes(x) # Error
         /\ AsBytes(x).as = "bytes" /\ AsBytes(x).what = x
         /\ AsText(x).as = "text" /\ Error.as = "error"
  <1>1. AsBytes(x).as = "bytes" /\ Error.as = "error" /\ AsText(x).as = "text" /\ AsBytes(x).what = x
    BY DEF AsBytes, AsText, Error
  <1> QED
    BY <1>1

\* A text that replay takes for text, or that is no UTF-8 either.
LEMMA TextAgrees ==
  ASSUME read["replay"] = Utf8(wire), read["fetch"] = Decode(wire)
  PROVE  ReadersAgree
  <1>1. CASE Contains(wire, Lone)
    <2>1. read["replay"] = Error
      BY <1>1, Zenon DEF Utf8
    <2>2. read["fetch"] = Error
      BY <1>1, Zenon DEF Decode
    <2>3. read["replay"].as # "bytes" /\ read["fetch"].as = "error"
      BY <2>1, <2>2, Kinds
    <2> QED
      BY <1>1, <2>1, <2>3, Zenon DEF ReadersAgree
  <1>2. CASE ~ Contains(wire, Lone)
    <2>1. read["replay"] = AsText(wire)
      BY <1>2, Zenon DEF Utf8
    <2>2. read["replay"].as # "bytes" /\ read["replay"].as # "error"
      BY <2>1, Kinds
    <2> QED
      BY <2>1, <2>2, Zenon DEF ReadersAgree
  <1> QED
    BY <1>1, <1>2

\* OwnValuesReturn for bytes of any length: what publish and put write, consumer_fetch,
\* list_stream_messages and get return.
THEOREM ValuesReturn == Spec => []OwnValuesReturn
  <1>1. IInv => OwnValuesReturn
    <2> SUFFICES ASSUME IInv, read # Unread, value # None, NEW r \in Readers
                 PROVE  read[r] = AsBytes(value)
      BY DEF OwnValuesReturn
    <2>1. value \in Seq(0..255) /\ wire = Encode(value)
      BY DEF IInv, Written
    <2>2. Decode(wire) = AsBytes(value)
      BY <2>1, DecodeOfEncode
    <2>3. DecodeValidated(wire) = AsBytes(value)
      <3> DEFINE m == ((4 * Len(value)) + 2) \div 3
      <3>1. wire \in Seq(Char) /\ IsText(wire, m)
        BY <2>1, EncodeIsText, Zenon
      <3>2. ~ Refused(wire)
        BY <3>1, TextNotRefused, Zenon
      <3> QED
        BY <2>2, <3>2, ValidatedIs, Zenon
    <2>4. AsBytes(value) # Error
      BY Kinds
    <2>5. /\ Fetched(wire) = AsBytes(value)
          /\ Replayed(wire) = AsBytes(value)
          /\ Got(wire) = AsBytes(value)
      BY <2>2, <2>3, <2>4, Zenon DEF Fetched, Replayed, Got
    <2>6. read = [fetch |-> Fetched(wire), replay |-> Replayed(wire), get |-> Got(wire)]
      BY Zenon DEF IInv
    <2>7. r = "fetch" \/ r = "replay" \/ r = "get"
      BY DEF Readers
    <2> QED
      BY <2>5, <2>6, <2>7
  <1> QED
    BY <1>1, Invariance, PTL

\* ReadersAgree for texts of any length, of this library or of other programs: replay
\* and fetch give the same bytes where both give bytes, and a payload that stops a
\* fetch is text for replay, unless half a surrogate pair stops both.
THEOREM Agreement == Spec => []ReadersAgree
  <1>1. IInv => ReadersAgree
    <2> SUFFICES ASSUME IInv, read # Unread PROVE ReadersAgree
      BY DEF ReadersAgree
    <2>1. wire \in Seq(Char)
      <3>1. CASE value \in Seq(0..255) /\ wire = Written(value)
        BY <3>1, EncodeIsText, Zenon DEF Written
      <3>2. CASE value = None /\ wire \in Seq(Char)
        BY <3>2
      <3> QED
        BY <3>1, <3>2, Zenon DEF IInv
    <2>2. read = [fetch |-> Fetched(wire), replay |-> Replayed(wire), get |-> Got(wire)]
      BY Zenon DEF IInv
    <2>3. read["fetch"] = Decode(wire) /\ read["replay"] = Replayed(wire)
      BY <2>2 DEF Fetched
    <2>4. CASE Refused(wire)
      <3>1. DecodeValidated(wire) = Error
        BY <2>4, ValidatedIs, Zenon
      <3>2. read["replay"] = Utf8(wire)
        BY <2>3, <3>1, Zenon DEF Replayed
      <3> QED
        BY <2>3, <3>2, TextAgrees, Zenon
    <2>5. CASE ~ Refused(wire)
      <3>1. PICK m : IsText(wire, m)
        BY <2>1, <2>5, RefusedOrText
      <3>2. DecodeValidated(wire) = Decode(wire)
        BY <2>5, ValidatedIs, Zenon
      <3>3. CASE Closed(wire, m)
        <4> DEFINE b == Bits(SubSeq(wire, 1, m))
        <4>1. Significant(wire) = Significant(Encode(b))
          BY <2>1, <3>1, <3>3, NothingSkipped, Zenon
        <4>2. Decode(wire) = AsBytes(b)
          BY <2>1, <3>1, <3>3, DecodeOfText, Zenon
        <4> HIDE DEF b
        <4>3. AsBytes(b) # Error /\ AsBytes(b).what = b /\ AsBytes(b).as # "error"
          BY Kinds
        <4>4. read["fetch"] = AsBytes(b) /\ read["replay"] = AsBytes(b)
          BY <2>3, <3>2, <4>2, <4>3, Zenon DEF Replayed
        <4>5. \A i \in 1..Len(wire) : wire[i] <= Pad
          <5>1. \A i \in 1..Len(wire) : ~ (wire[i] > Pad)
            BY <2>5, Zenon DEF Refused
          <5>2. \A i \in 1..Len(wire) : wire[i] \in Char
            BY <2>1, ElementOfSeq
          <5>3. \A x \in Char : ~ (x > Pad) => x <= Pad
            BY DEF Pad, Char
          <5> QED
            BY <5>1, <5>2, <5>3
        <4> QED
          BY <4>1, <4>3, <4>4, <4>5, Zenon DEF ReadersAgree
      <3>4. CASE ~ Closed(wire, m)
        <4>1. Decode(wire) = Error
          BY <2>1, <3>1, <3>4, DecodeOfText, Zenon
        <4>2. read["replay"] = Utf8(wire)
          BY <2>3, <3>2, <4>1, Zenon DEF Replayed
        <4> QED
          BY <2>3, <4>2, TextAgrees, Zenon
      <3> QED
        BY <3>3, <3>4
    <2> QED
      BY <2>4, <2>5
  <1> QED
    BY <1>1, Invariance, PTL

=============================================================================
