--------------------------------- MODULE Uuid ---------------------------------
(***************************************************************************)
(* Uuid of src/util/Uuid: 128 bits, their order, their exclusive or, their *)
(* raw bytes and their text form.                                          *)
(*                                                                         *)
(* A Uuid is its 16 bytes, in the order they have in memory; _data[0] is   *)
(* the number that the first eight of them are, the lowest byte first.  A  *)
(* string is a sequence of character codes; positions in it are counted    *)
(* from 0 as in the code.                                                  *)
(***************************************************************************)
EXTENDS Integers, Sequences

Byte == 0..255
Bytes == [0..15 -> Byte]

\* A number whose lowest byte is low.
Above(low, high) == low + 256 * high
ByteOf(data, w, k) == data[8 * w + k]
Word(data, w) ==
    Above(ByteOf(data, w, 0), Above(ByteOf(data, w, 1), Above(ByteOf(data, w, 2),
        Above(ByteOf(data, w, 3), Above(ByteOf(data, w, 4), Above(ByteOf(data, w, 5),
            Above(ByteOf(data, w, 6), ByteOf(data, w, 7))))))))

isNull(data) == Word(data, 0) = 0 /\ Word(data, 1) = 0

-----------------------------------------------------------------------------
\* operator==, and operator< and operator>: the high word decides, then the low one.
Equal(a, b) == Word(a, 0) = Word(b, 0) /\ Word(a, 1) = Word(b, 1)
Less(a, b) == Word(a, 1) < Word(b, 1) \/ (Word(a, 1) = Word(b, 1) /\ Word(a, 0) < Word(b, 0))
Greater(a, b) == Word(a, 1) > Word(b, 1) \/ (Word(a, 1) = Word(b, 1) /\ Word(a, 0) > Word(b, 0))

\* setXor(): the bit of weight w is set when exactly one of x and y has it.
XorBit(x, y, w) == w * ((x \div w + y \div w) % 2)
XorByte(x, y) ==
    XorBit(x, y, 1) + XorBit(x, y, 2) + XorBit(x, y, 4) + XorBit(x, y, 8)
    + XorBit(x, y, 16) + XorBit(x, y, 32) + XorBit(x, y, 64) + XorBit(x, y, 128)
setXor(a, b) == [i \in 0..15 |-> XorByte(a[i], b[i])]

\* What toRawData() leaves in a buffer, and what fromRawData() takes from one.
toRawData(data, buffer) ==
    [k \in 1..Len(buffer) |-> IF k <= 16 THEN data[k - 1] ELSE buffer[k]]
fromRawData(buffer) == [i \in 0..15 |-> buffer[i + 1]]

-----------------------------------------------------------------------------
(***************************************************************************)
(* The layout of the text.  Both functions walk down from the last         *)
(* character, two characters for each byte, the high nibble first, with a  *)
(* dash after 6, 8, 10 and 12 bytes.                                       *)
(***************************************************************************)
DashesBefore(i) ==
    IF i < 6 THEN 0 ELSE IF i < 8 THEN 1 ELSE IF i < 10 THEN 2 ELSE IF i < 12 THEN 3 ELSE 4
HighAt(i) == 35 - 2 * i - DashesBefore(i)
LowAt(i) == HighAt(i) - 1
DashAt == {23, 18, 13, 8}
ByteAt(p) == CHOOSE i \in 0..15 : p \in {HighAt(i), LowAt(i)}

Dash == 45

\* hex_digits[n]: '0' is 48 and 'a' is 97.
HexDigit(n) == IF n < 10 THEN 48 + n ELSE 87 + n

toString4122(data) ==
    [k \in 1..36 |->
        LET i == ByteAt(k - 1)
        IN  IF k - 1 \in DashAt THEN Dash
            ELSE IF k - 1 = HighAt(i) THEN HexDigit(data[i] \div 16)
            ELSE HexDigit(data[i] % 16)]

\* char_to_low_nibble(), char_to_high_nibble(): they also take 'A' to 'F'.
IsHexDigit(c) == c \in 48..57 \/ c \in 97..102 \/ c \in 65..70
Nibble(c) == IF c <= 57 THEN c - 48 ELSE IF c >= 97 THEN c - 87 ELSE c - 55

\* fromString4122() returns true.
Accepts(str) ==
    /\ Len(str) = 36
    /\ \A p \in DashAt : str[p + 1] = Dash
    /\ \A i \in 0..15 : IsHexDigit(str[HighAt(i) + 1]) /\ IsHexDigit(str[LowAt(i) + 1])

\* What it leaves in _data.
fromString4122(data, str) ==
    IF Accepts(str)
    THEN [i \in 0..15 |-> 16 * Nibble(str[HighAt(i) + 1]) + Nibble(str[LowAt(i) + 1])]
    ELSE data

\* The text with its hexadecimal digits in lower case.
LowerCase(str) == [k \in 1..Len(str) |-> IF str[k] \in 65..70 THEN str[k] + 32 ELSE str[k]]
=============================================================================
