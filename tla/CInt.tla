-------------------------------- MODULE CInt --------------------------------
(***************************************************************************)
(* The integer types of the compiled language and arithmetic on them.  A   *)
(* type is its size in bytes and its signedness, as the compiler keeps it  *)
(* (type_size, is_unsigned of a node); a byte has ByteBits bits, so that   *)
(* the interesting boundaries of every width lie within small numbers.     *)
(***************************************************************************)
EXTENDS Integers
LOCAL INSTANCE Bitwise

CONSTANT ByteBits     \* bits of a byte: 8 in the program

ASSUME ByteAssumption == ByteBits \in 1 .. 2   \* products stay within TLC's integers

T(size, uns) == [size |-> size, uns |-> uns]

TypeNamed == [
    char |-> T(1, FALSE),  uchar  |-> T(1, TRUE),
    short |-> T(2, FALSE), ushort |-> T(2, TRUE),
    int |-> T(4, FALSE),   uint   |-> T(4, TRUE),
    long |-> T(8, FALSE),  ulong  |-> T(8, TRUE)]

Bits(size) == ByteBits * size
Zext(v, size) == v % 2^Bits(size)
Sext(v, size) ==
    LET u == Zext(v, size) IN IF 2 * u < 2^Bits(size) THEN u ELSE u - 2^Bits(size)

\* The value of type t that v converts to.
Conv(v, t) == IF t.uns THEN Zext(v, t.size) ELSE Sext(v, t.size)

\* A machine word is written as its signed value.
WordSize == 8
Word(v) == Sext(v, WordSize)

Truth(b) == IF b THEN 1 ELSE 0
Abs(v) == IF v < 0 THEN -v ELSE v
\* Division truncates towards zero.
Quot(a, b) ==
    LET q == Abs(a) \div Abs(b) IN IF (a < 0) = (b < 0) THEN q ELSE -q
Rem(a, b) == a - b * Quot(a, b)

BitOp(op, a, b) ==
    LET x == Zext(a, WordSize)
        y == Zext(b, WordSize)
    IN  Word(CASE op = "&" -> x & y [] op = "|" -> x | y [] op = "^" -> x ^^ y)
=============================================================================
