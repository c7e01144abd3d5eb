------------------------------ MODULE TextProofs ------------------------------
(***************************************************************************)
(* What the text forms of a Uuid and of an address promise, and the order  *)
(* of Uuids.                                                               *)
(***************************************************************************)
EXTENDS Uuid, NetUtil, SequenceTheorems, TLAPS

-----------------------------------------------------------------------------
(***************************************************************************)
(* The layout: the 36 positions are the 4 dashes and two for each byte.    *)
(***************************************************************************)
LEMMA DigitPositions ==
    \A i \in 0..15 :
        /\ HighAt(i) \in 1..35 /\ LowAt(i) \in 0..34
        /\ HighAt(i) \notin DashAt /\ LowAt(i) \notin DashAt
    BY DEF HighAt, LowAt, DashesBefore, DashAt

LEMMA DigitsApart ==
    \A i, j \in 0..15 :
        /\ HighAt(i) # LowAt(j)
        /\ HighAt(i) = HighAt(j) => i = j
        /\ LowAt(i) = LowAt(j) => i = j
    BY DEF HighAt, LowAt, DashesBefore

LEMMA PositionsCovered ==
    \A p \in 0..35 : p \in DashAt \/ \E i \in 0..15 : p \in {HighAt(i), LowAt(i)}
<1>1. SUFFICES ASSUME NEW p \in 0..35, p \notin DashAt
               PROVE  \E i \in 0..15 : p \in {HighAt(i), LowAt(i)}
    OBVIOUS
<1>2. CASE p \in 24..35
    <2>1. (35 - p) \div 2 \in 0..5 /\ p \in {35 - 2 * ((35 - p) \div 2), 34 - 2 * ((35 - p) \div 2)}
        BY <1>2
    <2> QED BY <2>1 DEF HighAt, LowAt, DashesBefore
<1>3. CASE p \in 19..22
    <2>1. (34 - p) \div 2 \in 6..7 /\ p \in {34 - 2 * ((34 - p) \div 2), 33 - 2 * ((34 - p) \div 2)}
        BY <1>3
    <2> QED BY <2>1 DEF HighAt, LowAt, DashesBefore
<1>4. CASE p \in 14..17
    <2>1. (33 - p) \div 2 \in 8..9 /\ p \in {33 - 2 * ((33 - p) \div 2), 32 - 2 * ((33 - p) \div 2)}
        BY <1>4
    <2> QED BY <2>1 DEF HighAt, LowAt, DashesBefore
<1>5. CASE p \in 9..12
    <2>1. (32 - p) \div 2 \in 10..11 /\ p \in {32 - 2 * ((32 - p) \div 2), 31 - 2 * ((32 - p) \div 2)}
        BY <1>5
    <2> QED BY <2>1 DEF HighAt, LowAt, DashesBefore
<1>6. CASE p \in 0..7
    <2>1. (31 - p) \div 2 \in 12..15 /\ p \in {31 - 2 * ((31 - p) \div 2), 30 - 2 * ((31 - p) \div 2)}
        BY <1>6
    <2> QED BY <2>1 DEF HighAt, LowAt, DashesBefore
<1> QED BY <1>1, <1>2, <1>3, <1>4, <1>5, <1>6 DEF DashAt

LEMMA ByteAtDigits ==
    \A i \in 0..15 : ByteAt(HighAt(i)) = i /\ ByteAt(LowAt(i)) = i
<1>1. SUFFICES ASSUME NEW i \in 0..15
               PROVE  ByteAt(HighAt(i)) = i /\ ByteAt(LowAt(i)) = i
    OBVIOUS
<1>2. \A j \in 0..15 : HighAt(i) \in {HighAt(j), LowAt(j)} => j = i
    BY DigitsApart
<1>3. \A j \in 0..15 : LowAt(i) \in {HighAt(j), LowAt(j)} => j = i
    BY DigitsApart
<1>4. ByteAt(HighAt(i)) = i
    BY <1>2 DEF ByteAt
<1>5. ByteAt(LowAt(i)) = i
    BY <1>3 DEF ByteAt
<1> QED BY <1>4, <1>5

-----------------------------------------------------------------------------
\* A nibble and its digit determine each other, but for the case of the digit.
LEMMA NibbleOfDigit ==
    \A n \in 0..15 : IsHexDigit(HexDigit(n)) /\ Nibble(HexDigit(n)) = n
    BY DEF IsHexDigit, HexDigit, Nibble

LEMMA DigitOfNibble ==
    \A c : IsHexDigit(c) =>
        /\ Nibble(c) \in 0..15
        /\ HexDigit(Nibble(c)) = IF c \in 65..70 THEN c + 32 ELSE c
    BY DEF IsHexDigit, HexDigit, Nibble

LEMMA ByteOfNibbles ==
    /\ \A b \in Byte : b \div 16 \in 0..15 /\ b % 16 \in 0..15 /\ 16 * (b \div 16) + (b % 16) = b
    /\ \A h, l \in 0..15 : 16 * h + l \in Byte /\ (16 * h + l) \div 16 = h /\ (16 * h + l) % 16 = l
    BY DEF Byte

\* What toString4122() writes at each position.
LEMMA WrittenText ==
    ASSUME NEW data
    PROVE  /\ Len(toString4122(data)) = 36
           /\ \A p \in DashAt : toString4122(data)[p + 1] = Dash
           /\ \A i \in 0..15 :
                /\ toString4122(data)[HighAt(i) + 1] = HexDigit(data[i] \div 16)
                /\ toString4122(data)[LowAt(i) + 1] = HexDigit(data[i] % 16)
<1>1. Len(toString4122(data)) = 36
    BY DEF toString4122
<1>2. \A p \in DashAt : toString4122(data)[p + 1] = Dash
    BY DEF toString4122, DashAt
<1>3. ASSUME NEW i \in 0..15
      PROVE  toString4122(data)[HighAt(i) + 1] = HexDigit(data[i] \div 16)
    <2>1. HighAt(i) + 1 \in 1..36 /\ (HighAt(i) + 1) - 1 = HighAt(i) /\ HighAt(i) \notin DashAt
        BY DigitPositions
    <2>2. ByteAt(HighAt(i)) = i
        BY ByteAtDigits
    <2> QED BY <2>1, <2>2 DEF toString4122
<1>4. ASSUME NEW i \in 0..15
      PROVE  toString4122(data)[LowAt(i) + 1] = HexDigit(data[i] % 16)
    <2>1. LowAt(i) + 1 \in 1..36 /\ (LowAt(i) + 1) - 1 = LowAt(i) /\ LowAt(i) \notin DashAt
        BY DigitPositions
    <2>2. ByteAt(LowAt(i)) = i /\ LowAt(i) # HighAt(i)
        BY ByteAtDigits, DigitsApart
    <2> QED BY <2>1, <2>2 DEF toString4122
<1> QED BY <1>1, <1>2, <1>3, <1>4

-----------------------------------------------------------------------------
\* The text of a Uuid is always accepted, and reading it gives the Uuid back,
\* whatever the object that reads it held.
THEOREM RoundTrip ==
    ASSUME NEW data \in Bytes, NEW old
    PROVE  /\ Accepts(toString4122(data))
           /\ fromString4122(old, toString4122(data)) = data
<1> DEFINE str == toString4122(data)
<1>1. /\ Len(str) = 36
      /\ \A p \in DashAt : str[p + 1] = Dash
      /\ \A i \in 0..15 : /\ str[HighAt(i) + 1] = HexDigit(data[i] \div 16)
                          /\ str[LowAt(i) + 1] = HexDigit(data[i] % 16)
    BY WrittenText
<1> HIDE DEF str
<1>2. \A i \in 0..15 : data[i] \in Byte
    BY DEF Bytes
<1>3. \A i \in 0..15 : IsHexDigit(str[HighAt(i) + 1]) /\ IsHexDigit(str[LowAt(i) + 1])
    BY <1>1, <1>2, ByteOfNibbles, NibbleOfDigit
<1>4. Accepts(str)
    BY <1>1, <1>3 DEF Accepts
<1>5. ASSUME NEW i \in 0..15
      PROVE  16 * Nibble(str[HighAt(i) + 1]) + Nibble(str[LowAt(i) + 1]) = data[i]
    <2>1. /\ Nibble(str[HighAt(i) + 1]) = data[i] \div 16
          /\ Nibble(str[LowAt(i) + 1]) = data[i] % 16
        BY <1>1, <1>2, ByteOfNibbles, NibbleOfDigit
    <2>2. data[i] \in Byte
        BY <1>2
    <2> QED BY <2>1, <2>2, ByteOfNibbles
<1>6. fromString4122(old, str) = data
    BY <1>4, <1>5 DEF fromString4122, Bytes
<1> QED BY <1>4, <1>6 DEF str

\* Two Uuids with the same text are equal.
COROLLARY TextIdentifies ==
    ASSUME NEW a \in Bytes, NEW b \in Bytes, toString4122(a) = toString4122(b)
    PROVE  a = b
    BY RoundTrip

\* Every text that is accepted is the text of the Uuid that it gives, but for the
\* case of its digits: no two different texts in lower case give the same Uuid.
THEOREM CanonicalText ==
    ASSUME NEW str \in Seq(Byte), NEW old, Accepts(str)
    PROVE  /\ fromString4122(old, str) \in Bytes
           /\ toString4122(fromString4122(old, str)) = LowerCase(str)
<1> DEFINE data == fromString4122(old, str)
<1> DEFINE text == toString4122(data)
<1> DEFINE lower == [k \in 1..36 |-> IF str[k] \in 65..70 THEN str[k] + 32 ELSE str[k]]
<1>1. \A i \in 0..15 :
        data[i] = 16 * Nibble(str[HighAt(i) + 1]) + Nibble(str[LowAt(i) + 1])
    BY DEF fromString4122
<1>2. \A i \in 0..15 : IsHexDigit(str[HighAt(i) + 1]) /\ IsHexDigit(str[LowAt(i) + 1])
    BY DEF Accepts
<1>3. \A i \in 0..15 : Nibble(str[HighAt(i) + 1]) \in 0..15 /\ Nibble(str[LowAt(i) + 1]) \in 0..15
    BY <1>2, DigitOfNibble
<1>4. data \in Bytes
    BY <1>3, ByteOfNibbles DEF fromString4122, Bytes
<1>5. \A i \in 0..15 :
        /\ data[i] \div 16 = Nibble(str[HighAt(i) + 1])
        /\ data[i] % 16 = Nibble(str[LowAt(i) + 1])
    <2> HIDE DEF data
    <2>1. SUFFICES ASSUME NEW i \in 0..15
                   PROVE  /\ data[i] \div 16 = Nibble(str[HighAt(i) + 1])
                          /\ data[i] % 16 = Nibble(str[LowAt(i) + 1])
        OBVIOUS
    <2>2. PICK h \in 0..15, l \in 0..15 :
            h = Nibble(str[HighAt(i) + 1]) /\ l = Nibble(str[LowAt(i) + 1])
        BY <1>3
    <2>3. data[i] = 16 * h + l
        BY <1>1, <2>2
    <2>4. (16 * h + l) \div 16 = h /\ (16 * h + l) % 16 = l
        BY ByteOfNibbles
    <2> QED BY <2>2, <2>3, <2>4, Zenon
<1>6. /\ Len(text) = 36
      /\ \A p \in DashAt : text[p + 1] = Dash
      /\ \A i \in 0..15 : /\ text[HighAt(i) + 1] = HexDigit(data[i] \div 16)
                          /\ text[LowAt(i) + 1] = HexDigit(data[i] % 16)
    BY WrittenText
<1>7. text = [k \in 1..36 |-> text[k]]
    <2> HIDE DEF data
    <2> QED BY DEF toString4122
<1> HIDE DEF data, text
<1>8. \A p \in 0..35 : text[p + 1] = lower[p + 1]
    <2>1. SUFFICES ASSUME NEW p \in 0..35 PROVE text[p + 1] = lower[p + 1]
        OBVIOUS
    <2>2. CASE p \in DashAt
        <3>1. text[p + 1] = 45 /\ str[p + 1] = 45
            BY <1>6, <2>2 DEF Accepts, Dash
        <3>2. p + 1 \in 1..36 /\ 45 \notin 65..70
            OBVIOUS
        <3>3. lower[p + 1] = str[p + 1]
            BY <3>1, <3>2, Zenon
        <3> QED BY <3>1, <3>3
    <2>3. CASE \E i \in 0..15 : p \in {HighAt(i), LowAt(i)}
        <3>1. PICK i \in 0..15 : p \in {HighAt(i), LowAt(i)}
            BY <2>3
        <3> HIDE DEF lower
        <3>2. IsHexDigit(str[p + 1]) /\ text[p + 1] = HexDigit(Nibble(str[p + 1]))
            <4>1. CASE p = HighAt(i)
                BY <4>1, <1>2, <1>5, <1>6
            <4>2. CASE p = LowAt(i)
                BY <4>2, <1>2, <1>5, <1>6
            <4> QED BY <3>1, <4>1, <4>2
        <3>3. text[p + 1] = IF str[p + 1] \in 65..70 THEN str[p + 1] + 32 ELSE str[p + 1]
            BY <3>2, DigitOfNibble
        <3>4. p + 1 \in 1..36
            OBVIOUS
        <3> QED BY <3>3, <3>4 DEF lower
    <2> QED BY <2>2, <2>3, PositionsCovered
<1>9. \A k \in 1..36 : text[k] = lower[k]
    <2>1. SUFFICES ASSUME NEW k \in 1..36 PROVE text[k] = lower[k]
        OBVIOUS
    <2>2. k - 1 \in 0..35 /\ (k - 1) + 1 = k
        OBVIOUS
    <2> QED BY <1>8, <2>2
<1>10. text = LowerCase(str)
    BY <1>7, <1>9 DEF LowerCase, Accepts
<1> QED BY <1>4, <1>10 DEF data, text

-----------------------------------------------------------------------------
(***************************************************************************)
(* The two words and the bytes of a Uuid                                   *)
(***************************************************************************)
LEMMA LowestByte ==
    \A x, y, u, v \in Nat :
        /\ Above(x, u) \in Nat
        /\ x < 256 /\ y < 256 /\ Above(x, u) = Above(y, v) => x = y /\ u = v
<1>1. \A x, u \in Nat : Above(x, u) \in Nat
    BY DEF Above
<1>2. SUFFICES ASSUME NEW x \in Nat, NEW y \in Nat, NEW u \in Nat, NEW v \in Nat,
                      x < 256, y < 256, x + 256 * u = y + 256 * v
               PROVE  x = y /\ u = v
    BY <1>1 DEF Above
<1>3. u = v
    <2>1. CASE u < v
        BY <1>2, <2>1
    <2>2. CASE v < u
        BY <1>2, <2>2
    <2> QED BY <2>1, <2>2
<1> QED BY <1>2, <1>3

\* The bytes are taken from the two words one by one, the lowest first.
LEMMA WordDeterminesBytes ==
    ASSUME NEW a \in Bytes, NEW b \in Bytes, NEW w \in 0..1
    PROVE  /\ Word(a, w) \in Nat
           /\ Word(a, w) = Word(b, w) => \A k \in 0..7 : ByteOf(a, w, k) = ByteOf(b, w, k)
<1>1. ASSUME NEW c \in Bytes, NEW k \in 0..7
      PROVE  ByteOf(c, w, k) \in Nat /\ ByteOf(c, w, k) < 256
    <2>1. 8 * w + k \in 0..15
        OBVIOUS
    <2>2. c[8 * w + k] \in 0..255
        BY <2>1 DEF Bytes, Byte
    <2> QED BY <2>2 DEF ByteOf
<1> DEFINE a0 == ByteOf(a, w, 0)
<1> DEFINE a1 == ByteOf(a, w, 1)
<1> DEFINE a2 == ByteOf(a, w, 2)
<1> DEFINE a3 == ByteOf(a, w, 3)
<1> DEFINE a4 == ByteOf(a, w, 4)
<1> DEFINE a5 == ByteOf(a, w, 5)
<1> DEFINE a6 == ByteOf(a, w, 6)
<1> DEFINE a7 == ByteOf(a, w, 7)
<1> DEFINE b0 == ByteOf(b, w, 0)
<1> DEFINE b1 == ByteOf(b, w, 1)
<1> DEFINE b2 == ByteOf(b, w, 2)
<1> DEFINE b3 == ByteOf(b, w, 3)
<1> DEFINE b4 == ByteOf(b, w, 4)
<1> DEFINE b5 == ByteOf(b, w, 5)
<1> DEFINE b6 == ByteOf(b, w, 6)
<1> DEFINE b7 == ByteOf(b, w, 7)
<1> DEFINE A6 == Above(a6, a7)
<1> DEFINE A5 == Above(a5, A6)
<1> DEFINE A4 == Above(a4, A5)
<1> DEFINE A3 == Above(a3, A4)
<1> DEFINE A2 == Above(a2, A3)
<1> DEFINE A1 == Above(a1, A2)
<1> DEFINE A0 == Above(a0, A1)
<1> DEFINE B6 == Above(b6, b7)
<1> DEFINE B5 == Above(b5, B6)
<1> DEFINE B4 == Above(b4, B5)
<1> DEFINE B3 == Above(b3, B4)
<1> DEFINE B2 == Above(b2, B3)
<1> DEFINE B1 == Above(b1, B2)
<1> DEFINE B0 == Above(b0, B1)
<1>2. Word(a, w) = A0 /\ Word(b, w) = B0
    BY DEF Word
<1>3. /\ a7 \in Nat
      /\ a0 \in Nat /\ a0 < 256
      /\ a1 \in Nat /\ a1 < 256
      /\ a2 \in Nat /\ a2 < 256
      /\ a3 \in Nat /\ a3 < 256
      /\ a4 \in Nat /\ a4 < 256
      /\ a5 \in Nat /\ a5 < 256
      /\ a6 \in Nat /\ a6 < 256
    BY <1>1
<1>4. /\ b7 \in Nat
      /\ b0 \in Nat /\ b0 < 256
      /\ b1 \in Nat /\ b1 < 256
      /\ b2 \in Nat /\ b2 < 256
      /\ b3 \in Nat /\ b3 < 256
      /\ b4 \in Nat /\ b4 < 256
      /\ b5 \in Nat /\ b5 < 256
      /\ b6 \in Nat /\ b6 < 256
    BY <1>1
<1> HIDE DEF a0, a1, a2, a3, a4, a5, a6, a7, b0, b1, b2, b3, b4, b5, b6, b7
<1>5. A6 \in Nat /\ B6 \in Nat /\ (A6 = B6 => a6 = b6 /\ a7 = b7)
    <2>1. A6 \in Nat /\ B6 \in Nat
        BY <1>3, <1>4, LowestByte, Zenon
    <2>2. A6 = B6 => a6 = b6 /\ a7 = b7
        BY <1>3, <1>4, LowestByte
    <2> QED BY <2>1, <2>2
<1> HIDE DEF A6, B6
<1>6. A5 \in Nat /\ B5 \in Nat /\ (A5 = B5 => a5 = b5 /\ A6 = B6)
    BY <1>3, <1>4, <1>5, LowestByte
<1> HIDE DEF A5, B5
<1>7. A4 \in Nat /\ B4 \in Nat /\ (A4 = B4 => a4 = b4 /\ A5 = B5)
    BY <1>3, <1>4, <1>6, LowestByte
<1> HIDE DEF A4, B4
<1>8. A3 \in Nat /\ B3 \in Nat /\ (A3 = B3 => a3 = b3 /\ A4 = B4)
    BY <1>3, <1>4, <1>7, LowestByte
<1> HIDE DEF A3, B3
<1>9. A2 \in Nat /\ B2 \in Nat /\ (A2 = B2 => a2 = b2 /\ A3 = B3)
    BY <1>3, <1>4, <1>8, LowestByte
<1> HIDE DEF A2, B2
<1>10. A1 \in Nat /\ B1 \in Nat /\ (A1 = B1 => a1 = b1 /\ A2 = B2)
    BY <1>3, <1>4, <1>9, LowestByte
<1> HIDE DEF A1, B1
<1>11. A0 \in Nat /\ B0 \in Nat /\ (A0 = B0 => a0 = b0 /\ A1 = B1)
    BY <1>3, <1>4, <1>10, LowestByte
<1> HIDE DEF A0, B0
<1>12. A0 = B0 => /\ a0 = b0 /\ a1 = b1 /\ a2 = b2 /\ a3 = b3
                  /\ a4 = b4 /\ a5 = b5 /\ a6 = b6 /\ a7 = b7
    BY <1>5, <1>6, <1>7, <1>8, <1>9, <1>10, <1>11
<1>13. ASSUME Word(a, w) = Word(b, w), NEW k \in 0..7
       PROVE  ByteOf(a, w, k) = ByteOf(b, w, k)
    BY <1>2, <1>12, <1>13 DEF a0, a1, a2, a3, a4, a5, a6, a7, b0, b1, b2, b3, b4, b5, b6, b7
<1> QED BY <1>2, <1>11, <1>13

\* operator== is equality.
LEMMA EqualIsEquality ==
    ASSUME NEW a \in Bytes, NEW b \in Bytes
    PROVE  Equal(a, b) <=> a = b
<1>1. ASSUME Equal(a, b) PROVE a = b
    <2>1. \A k \in 0..7 : ByteOf(a, 0, k) = ByteOf(b, 0, k) /\ ByteOf(a, 1, k) = ByteOf(b, 1, k)
        BY <1>1, WordDeterminesBytes DEF Equal
    <2>2. ASSUME NEW i \in 0..15 PROVE a[i] = b[i]
        <3>1. CASE i \in 0..7
            <4>1. 8 * 0 + i = i
                BY <3>1
            <4> QED BY <2>1, <3>1, <4>1 DEF ByteOf
        <3>2. CASE i \in 8..15
            <4>1. i - 8 \in 0..7 /\ 8 * 1 + (i - 8) = i
                BY <3>2
            <4> QED BY <2>1, <4>1 DEF ByteOf
        <3> QED BY <3>1, <3>2
    <2> QED BY <2>2 DEF Bytes
<1> QED BY <1>1 DEF Equal

\* operator< is a strict total order and operator> its converse, so that a Uuid
\* can be a key of an ordered container.
THEOREM TotalOrder ==
    /\ \A a, b \in Bytes : Greater(a, b) <=> Less(b, a)
    /\ \A a, b \in Bytes : Less(a, b) \/ a = b \/ Less(b, a)
    /\ \A a, b \in Bytes : Less(a, b) => a # b /\ ~Less(b, a)
    /\ \A a, b, c \in Bytes : Less(a, b) /\ Less(b, c) => Less(a, c)
<1>1. \A a \in Bytes : Word(a, 0) \in Nat /\ Word(a, 1) \in Nat
    BY WordDeterminesBytes
<1>2. \A a, b \in Bytes : Word(a, 0) = Word(b, 0) /\ Word(a, 1) = Word(b, 1) => a = b
    BY EqualIsEquality DEF Equal
<1> QED BY <1>1, <1>2 DEF Less, Greater

\* An ordered container of Uuids and one of their texts tell the same Uuids
\* apart: neither of two Uuids is less than the other exactly when their texts
\* are the same.
COROLLARY OrderSeesText ==
    ASSUME NEW a \in Bytes, NEW b \in Bytes
    PROVE  ~Less(a, b) /\ ~Less(b, a) <=> toString4122(a) = toString4122(b)
    BY TotalOrder, TextIdentifies

\* Only the Uuid of sixteen zeros is null.
LEMMA NullIsZero ==
    ASSUME NEW a \in Bytes
    PROVE  isNull(a) <=> a = [i \in 0..15 |-> 0]
<1> DEFINE zero == [i \in 0..15 |-> 0]
<1>1. zero \in Bytes
    BY DEF Bytes, Byte
<1>2. Above(0, 0) = 0
    BY DEF Above
<1>3. ASSUME NEW w \in 0..1 PROVE Word(zero, w) = 0
    <2>1. \A k \in 0..7 : ByteOf(zero, w, k) = 0
        BY DEF ByteOf
    <2>2. /\ ByteOf(zero, w, 0) = 0 /\ ByteOf(zero, w, 1) = 0 /\ ByteOf(zero, w, 2) = 0
          /\ ByteOf(zero, w, 3) = 0 /\ ByteOf(zero, w, 4) = 0 /\ ByteOf(zero, w, 5) = 0
          /\ ByteOf(zero, w, 6) = 0 /\ ByteOf(zero, w, 7) = 0
        BY <2>1
    <2> HIDE DEF zero
    <2> QED BY <1>2, <2>2, Zenon DEF Word
<1> HIDE DEF zero
<1>4. isNull(a) <=> Equal(a, zero)
    BY <1>3 DEF isNull, Equal
<1>5. isNull(a) <=> a = zero
    BY <1>1, <1>4, EqualIsEquality
<1> QED BY <1>5 DEF zero

-----------------------------------------------------------------------------
(***************************************************************************)
(* Exclusive or and raw bytes                                              *)
(***************************************************************************)
LEMMA BitsMakeByte ==
    \A x \in Byte :
        x = (x % 2) + 2 * ((x \div 2) % 2) + 4 * ((x \div 4) % 2) + 8 * ((x \div 8) % 2)
            + 16 * ((x \div 16) % 2) + 32 * ((x \div 32) % 2)
            + 64 * ((x \div 64) % 2) + 128 * ((x \div 128) % 2)
    BY DEF Byte

LEMMA BitsOfSum ==
    \A b0, b1, b2, b3, b4, b5, b6, b7 \in 0..1 :
        LET x == b0 + 2 * b1 + 4 * b2 + 8 * b3 + 16 * b4 + 32 * b5 + 64 * b6 + 128 * b7
        IN  /\ x % 2 = b0 /\ (x \div 2) % 2 = b1 /\ (x \div 4) % 2 = b2
            /\ (x \div 8) % 2 = b3 /\ (x \div 16) % 2 = b4 /\ (x \div 32) % 2 = b5
            /\ (x \div 64) % 2 = b6 /\ (x \div 128) % 2 = b7
    BY SMTT(60)

LEMMA SumOfBits ==
    /\ \A m, n \in Nat : (m + n) % 2 = ((m % 2) + (n % 2)) % 2
    /\ \A b, c \in 0..1 : (b + c) % 2 \in 0..1 /\ (((b + c) % 2) + c) % 2 = b
    BY SMTT(30)

LEMMA XorByteUndone ==
    ASSUME NEW x \in Byte, NEW y \in Byte
    PROVE  XorByte(x, y) \in Byte /\ XorByte(XorByte(x, y), y) = x
<1> DEFINE Bit(n, weight) == (n \div weight) % 2
<1> DEFINE Weights == {1, 2, 4, 8, 16, 32, 64, 128}
<1>1. \A n \in Byte : \A weight \in Weights : n \div weight \in Nat /\ Bit(n, weight) \in 0..1
    BY DEF Byte
<1>2. \A m, n \in Byte : \A weight \in Weights :
        /\ XorBit(m, n, weight) = weight * ((Bit(m, weight) + Bit(n, weight)) % 2)
        /\ (Bit(m, weight) + Bit(n, weight)) % 2 \in 0..1
    <2>1. SUFFICES ASSUME NEW m \in Byte, NEW n \in Byte, NEW weight \in Weights
                   PROVE  /\ XorBit(m, n, weight) = weight * ((Bit(m, weight) + Bit(n, weight)) % 2)
                          /\ (Bit(m, weight) + Bit(n, weight)) % 2 \in 0..1
        OBVIOUS
    <2> HIDE DEF Bit, Weights
    <2>2. m \div weight \in Nat /\ n \div weight \in Nat
          /\ Bit(m, weight) \in 0..1 /\ Bit(n, weight) \in 0..1
        BY <1>1, Zenon
    <2>3. ((m \div weight) + (n \div weight)) % 2 = (Bit(m, weight) + Bit(n, weight)) % 2
        BY <2>2, SumOfBits DEF Bit
    <2>4. XorBit(m, n, weight) = weight * ((Bit(m, weight) + Bit(n, weight)) % 2)
        BY <2>3 DEF XorBit
    <2>5. (Bit(m, weight) + Bit(n, weight)) % 2 \in 0..1
        BY <2>2, SumOfBits
    <2> QED BY <2>4, <2>5
<1> DEFINE r == XorByte(x, y)
<1>3. \A n \in Nat : n \div 1 = n
    OBVIOUS
<1>4. \A n \in Byte :
        n = Bit(n, 1) + 2 * Bit(n, 2) + 4 * Bit(n, 4) + 8 * Bit(n, 8)
            + 16 * Bit(n, 16) + 32 * Bit(n, 32) + 64 * Bit(n, 64) + 128 * Bit(n, 128)
    BY <1>3, BitsMakeByte DEF Byte
<1>5. \A b0, b1, b2, b3, b4, b5, b6, b7 \in 0..1 :
        LET n == b0 + 2 * b1 + 4 * b2 + 8 * b3 + 16 * b4 + 32 * b5 + 64 * b6 + 128 * b7
        IN  /\ n \in Byte
            /\ Bit(n, 1) = b0 /\ Bit(n, 2) = b1 /\ Bit(n, 4) = b2 /\ Bit(n, 8) = b3
            /\ Bit(n, 16) = b4 /\ Bit(n, 32) = b5 /\ Bit(n, 64) = b6 /\ Bit(n, 128) = b7
    BY <1>3, BitsOfSum DEF Byte
<1> HIDE DEF Bit
<1> DEFINE X(weight) == (Bit(x, weight) + Bit(y, weight)) % 2
<1>6. \A weight \in Weights : XorBit(x, y, weight) = weight * X(weight) /\ X(weight) \in 0..1
    BY <1>2
<1>7. r = X(1) + 2 * X(2) + 4 * X(4) + 8 * X(8) + 16 * X(16) + 32 * X(32) + 64 * X(64) + 128 * X(128)
    <2> HIDE DEF X
    <2>1. 1 * X(1) = X(1)
        BY <1>6
    <2> QED BY <1>6, <2>1 DEF XorByte
<1>8. r \in Byte /\ \A weight \in Weights : Bit(r, weight) = X(weight)
    <2> HIDE DEF X, r
    <2> QED BY <1>5, <1>6, <1>7
<1>9. \A weight \in Weights : XorBit(r, y, weight) = weight * Bit(x, weight)
    <2> HIDE DEF r
    <2>1. SUFFICES ASSUME NEW weight \in Weights
                   PROVE  XorBit(r, y, weight) = weight * Bit(x, weight)
        OBVIOUS
    <2>2. XorBit(r, y, weight) = weight * ((X(weight) + Bit(y, weight)) % 2)
        <3> HIDE DEF X
        <3> QED BY <1>2, <1>8
    <2>3. (X(weight) + Bit(y, weight)) % 2 = Bit(x, weight)
        BY <1>1, SumOfBits
    <2> QED BY <2>2, <2>3
<1>10. XorByte(r, y) = x
    <2> HIDE DEF r
    <2>1. 1 * Bit(x, 1) = Bit(x, 1)
        BY <1>1
    <2> QED BY <1>4, <1>9, <2>1 DEF XorByte
<1> QED BY <1>8, <1>10 DEF r

\* setXor() with the same Uuid twice changes nothing.
THEOREM XorUndone ==
    ASSUME NEW a \in Bytes, NEW b \in Bytes
    PROVE  setXor(a, b) \in Bytes /\ setXor(setXor(a, b), b) = a
<1>1. \A i \in 0..15 : a[i] \in Byte /\ b[i] \in Byte
    BY DEF Bytes
<1>2. \A i \in 0..15 : XorByte(a[i], b[i]) \in Byte /\ XorByte(XorByte(a[i], b[i]), b[i]) = a[i]
    BY <1>1, XorByteUndone
<1>3. setXor(a, b) \in Bytes
    BY <1>2 DEF setXor, Bytes
<1>4. \A i \in 0..15 : setXor(setXor(a, b), b)[i] = a[i]
    BY <1>2 DEF setXor
<1>5. setXor(setXor(a, b), b) = [i \in 0..15 |-> setXor(setXor(a, b), b)[i]]
    BY DEF setXor
<1>6. a = [i \in 0..15 |-> a[i]]
    BY DEF Bytes
<1> HIDE DEF setXor
<1>7. setXor(setXor(a, b), b) = a
    BY <1>4, <1>5, <1>6
<1> QED BY <1>3, <1>7

\* A Uuid that is copied into a buffer is read back from it, and what the buffer
\* holds after the sixteen bytes stays.
THEOREM RawRoundTrip ==
    ASSUME NEW a \in Bytes, NEW buffer \in Seq(Byte), Len(buffer) >= 16
    PROVE  /\ fromRawData(toRawData(a, buffer)) = a
           /\ \A k \in 17..Len(buffer) : toRawData(a, buffer)[k] = buffer[k]
<1>1. Len(buffer) \in Nat
    OBVIOUS
<1>2. \A i \in 0..15 : toRawData(a, buffer)[i + 1] = a[i]
    BY <1>1 DEF toRawData
<1>3. fromRawData(toRawData(a, buffer)) = a
    BY <1>2 DEF fromRawData, Bytes
<1>4. \A k \in 17..Len(buffer) : toRawData(a, buffer)[k] = buffer[k]
    BY <1>1 DEF toRawData
<1> QED BY <1>3, <1>4

-----------------------------------------------------------------------------
(***************************************************************************)
(* Addresses                                                               *)
(***************************************************************************)
LEMMA LastColonIsLast ==
    ASSUME NEW uri \in Seq(Char), NEW pos \in 1..Len(uri), IsLastColon(uri, pos)
    PROVE  HasColon(uri) /\ LastColon(uri) = pos
<1>1. \A other \in 1..Len(uri) : IsLastColon(uri, other) => other = pos
    <2>1. SUFFICES ASSUME NEW other \in 1..Len(uri), IsLastColon(uri, other), other # pos
                   PROVE  FALSE
        OBVIOUS
    <2>2. CASE other < pos
        BY <2>1, <2>2 DEF IsLastColon
    <2>3. CASE other > pos
        BY <2>1, <2>3 DEF IsLastColon
    <2> QED BY <2>1, <2>2, <2>3
<1> QED BY <1>1 DEF HasColon, LastColon

\* An address put together from an ip, a colon and a port without colons splits
\* into these again.
LEMMA Split ==
    ASSUME NEW ip \in Seq(Char), NEW port \in Seq(Char), Colon \in Char,
           \A k \in 1..Len(port) : port[k] # Colon
    PROVE  LET uri == ip \o (<<Colon>> \o port)
           IN  /\ uri \in Seq(Char)
               /\ HasColon(uri)
               /\ LastColon(uri) = Len(ip) + 1
               /\ Len(uri) = Len(ip) + 1 + Len(port)
               /\ Before(uri, LastColon(uri)) = ip
               /\ After(uri, LastColon(uri)) = port
<1> DEFINE tail == <<Colon>> \o port
<1> DEFINE uri == ip \o tail
<1>1. /\ tail \in Seq(Char) /\ Len(tail) = 1 + Len(port)
      /\ tail[1] = Colon
      /\ \A k \in 1..Len(port) : tail[k + 1] = port[k]
    OBVIOUS
<1> HIDE DEF tail
<1>2. /\ uri \in Seq(Char) /\ Len(uri) = Len(ip) + 1 + Len(port)
      /\ \A k \in 1..Len(ip) : uri[k] = ip[k]
      /\ \A k \in 1..Len(tail) : uri[Len(ip) + k] = tail[k]
    <2>1. tail \in Seq(Char)
        BY <1>1
    <2>2. uri \in Seq(Char) /\ Len(uri) = Len(ip) + Len(tail)
        <3>1. uri \in Seq(Char)
            BY <2>1
        <3>2. Len(uri) = Len(ip) + Len(tail)
            BY <2>1
        <3> QED BY <3>1, <3>2
    <2>3. Len(ip) \in Nat /\ Len(tail) \in Nat
        BY <1>1
    <2>4. ASSUME NEW k \in 1..(Len(ip) + Len(tail))
          PROVE  uri[k] = IF k <= Len(ip) THEN ip[k] ELSE tail[k - Len(ip)]
        BY <1>1
    <2> HIDE DEF uri
    <2>5. \A k \in 1..Len(ip) : uri[k] = ip[k]
        BY <2>3, <2>4
    <2>6. ASSUME NEW k \in 1..Len(tail) PROVE uri[Len(ip) + k] = tail[k]
        <3>1. Len(ip) + k \in 1..(Len(ip) + Len(tail)) /\ ~(Len(ip) + k <= Len(ip))
              /\ (Len(ip) + k) - Len(ip) = k
            BY <2>3
        <3> QED BY <2>4, <3>1
    <2> QED BY <1>1, <2>2, <2>5, <2>6
<1>3. Len(ip) \in Nat /\ Len(port) \in Nat
    OBVIOUS
<1>4. uri[Len(ip) + 1] = Colon
    BY <1>1, <1>2, <1>3
<1>5. \A k \in 1..Len(port) : uri[Len(ip) + 1 + k] = port[k]
    <2>1. SUFFICES ASSUME NEW k \in 1..Len(port) PROVE uri[Len(ip) + 1 + k] = port[k]
        OBVIOUS
    <2>2. k + 1 \in 1..Len(tail) /\ Len(ip) + (k + 1) = Len(ip) + 1 + k
        BY <1>1, <1>3
    <2>3. uri[Len(ip) + (k + 1)] = tail[k + 1]
        BY <1>2, <2>2
    <2> QED BY <1>1, <2>2, <2>3
<1> HIDE DEF uri
<1>6. IsLastColon(uri, Len(ip) + 1)
    <2>1. ASSUME NEW k \in (Len(ip) + 2)..Len(uri) PROVE uri[k] # Colon
        <3>1. k - Len(ip) - 1 \in 1..Len(port) /\ k = Len(ip) + 1 + (k - Len(ip) - 1)
            BY <1>2, <1>3
        <3> QED BY <1>5, <3>1
    <2> QED BY <1>2, <1>3, <1>4, <2>1 DEF IsLastColon
<1>7. HasColon(uri) /\ LastColon(uri) = Len(ip) + 1
    BY <1>2, <1>3, <1>6, LastColonIsLast
<1>8. Before(uri, Len(ip) + 1) = ip
    <2>1. Before(uri, Len(ip) + 1) = SubSeq(uri, 1, Len(ip))
        BY <1>3 DEF Before
    <2>2. SubSeq(uri, 1, Len(ip)) = ip
        BY <1>2, <1>3
    <2> QED BY <2>1, <2>2
<1>9. After(uri, Len(ip) + 1) = port
    <2>1. After(uri, Len(ip) + 1) = SubSeq(uri, Len(ip) + 2, Len(uri))
        BY <1>3 DEF After
    <2>2. SubSeq(uri, Len(ip) + 2, Len(uri)) = port
        BY <1>2, <1>3, <1>5
    <2> QED BY <2>1, <2>2
<1> QED BY <1>2, <1>7, <1>8, <1>9 DEF uri, tail

\* The two functions that validate an address, each with its own copy of the
\* tests, agree; and ip and port are left alone when the address is refused.
THEOREM ValidAgrees ==
    \A uri, ip, port :
        /\ uri_is_valid(uri) <=> ip_port_from_uri(uri, ip, port).returns
        /\ ~uri_is_valid(uri) => /\ ip_port_from_uri(uri, ip, port).ip = ip
                                  /\ ip_port_from_uri(uri, ip, port).port = port
    BY DEF uri_is_valid, ip_port_from_uri

\* compute_new_uri() replaces the port and nothing else: the new address of a valid
\* one has the ip of the old one and the port that was asked for, also when the ip
\* holds colons.
THEOREM PortReplaced ==
    ASSUME Colon \in Char,
           NEW uri \in Seq(Char), uri_is_valid(uri),
           NEW port \in Seq(Char), port # <<>>,
           \A k \in 1..Len(port) : port[k] # Colon,
           port_is_valid(stoi(port)),
           NEW anIp, NEW aPort
    PROVE  ip_port_from_uri(compute_new_uri(uri, <<Colon>> \o port), anIp, aPort) =
               [returns |-> TRUE, ip |-> ip_port_from_uri(uri, anIp, aPort).ip,
                port |-> stoi(port)]
<1> DEFINE pos == LastColon(uri)
<1> DEFINE ip == Before(uri, pos)
<1> DEFINE new == ip \o (<<Colon>> \o port)
<1>1. HasColon(uri) /\ ip # <<>> /\ ip_port_from_uri(uri, anIp, aPort).ip = ip
    BY DEF uri_is_valid, ip_port_from_uri
<1>2. pos \in 1..Len(uri)
    BY <1>1 DEF HasColon, LastColon
<1>3. ip \in Seq(Char)
    BY <1>2 DEF Before
<1>4. compute_new_uri(uri, <<Colon>> \o port) = new
    BY <1>1 DEF compute_new_uri
<1> HIDE DEF ip
<1>5. /\ new \in Seq(Char) /\ HasColon(new)
      /\ LastColon(new) = Len(ip) + 1
      /\ Len(new) = Len(ip) + 1 + Len(port)
      /\ Before(new, LastColon(new)) = ip
      /\ After(new, LastColon(new)) = port
    BY <1>3, Split
<1>6. Len(port) # 0
    OBVIOUS
<1>7. LastColon(new) # Len(new)
    BY <1>3, <1>5, <1>6
<1> HIDE DEF new
<1>8. ip_port_from_uri(new, anIp, aPort) = [returns |-> TRUE, ip |-> ip, port |-> stoi(port)]
    BY <1>1, <1>5, <1>7 DEF ip_port_from_uri
<1> QED BY <1>1, <1>4, <1>8

-----------------------------------------------------------------------------
(***************************************************************************)
(* Ports                                                                   *)
(***************************************************************************)

LEMMA ShortPort ==
    /\ \A p \in Nat : p < 65536 => Short(p) = p
    /\ \A p \in Int : Short(p + 65536) = Short(p)
    BY DEF Short

\* For a valid port, port_is_available() says whether it can be bound, as long as
\* the process has a handle to spare; and each time that it says no it keeps one,
\* until there is none and every port is reported as taken.
THEOREM AvailableMeansFree ==
    ASSUME NEW taken, NEW handles \in Nat, MaxHandles \in Nat,
           NEW port \in Nat, port_is_valid(port)
    PROVE  LET answer == port_is_available(taken, handles, port)
               after == HandlesAfter(taken, handles, Short(port))
           IN  IF handles < MaxHandles
               THEN /\ answer <=> port \notin taken
                    /\ after = IF answer THEN handles ELSE handles + 1
               ELSE ~answer /\ after = handles
<1>1. Short(port) = port /\ port # 0
    BY ShortPort DEF port_is_valid
<1> QED BY <1>1 DEF port_is_available, Binds, HandlesAfter

\* A port beyond 16 bits is taken for another one.
LEMMA LongPortsAreCut ==
    ASSUME NEW taken, NEW handles, NEW port \in Int
    PROVE  port_is_available(taken, handles, port + 65536)
               = port_is_available(taken, handles, port)
    BY ShortPort DEF port_is_available

\* "We expect the recipient to be able to re-bind to it": a port that was found
\* can be bound as long as nobody has taken it since, and finding it has cost no
\* handle.
THEOREM FoundPortBinds ==
    ASSUME \A p \in Ephemeral : p \in Nat /\ p # 0 /\ p < 65536,
           NEW taken, NEW handles, NEW later,
           NEW port \in find_available_port(taken, handles), port # 0, port \notin later
    PROVE  /\ HandlesAfter(taken, handles, 0) = handles
           /\ port_is_available(later, handles, port)
<1>1. Binds(taken, handles, 0) /\ port \in Ephemeral
    BY DEF find_available_port
<1>2. Short(port) = port
    BY <1>1, ShortPort
<1>3. handles < MaxHandles
    BY <1>1 DEF Binds
<1>4. HandlesAfter(taken, handles, 0) = handles
    BY <1>1 DEF HandlesAfter
<1> QED BY <1>2, <1>3, <1>4 DEF port_is_available, Binds
=============================================================================
