------------------------------- MODULE Words --------------------------------
(***************************************************************************)
(* Two's-complement machine words, the data of both programs.              *)
(*                                                                         *)
(* A word is the SET OF THE POSITIONS OF ITS 1 BITS: the int64_t 5 is      *)
(* {0, 2} and -1 is Bits.  C's bitwise operators are then the set          *)
(* operators, a shift moves the members of the set, and addition is stated *)
(* by carry look-ahead, so that nothing here is recursive and 64-bit       *)
(* values are exact (TLC's own integers have 32 bits).                     *)
(*                                                                         *)
(* XLEN and WLEN are the widths of an X and of a W register (64 and 32);   *)
(* they are parameters so that small widths can be checked exhaustively.   *)
(***************************************************************************)
EXTENDS Integers, FiniteSetsExt

CONSTANTS
  XLEN,    \* bits of an int64_t
  WLEN     \* bits of an int32_t

ASSUME WidthAssumption ==
  /\ XLEN \in Nat
  /\ WLEN \in Nat \ {0}
  /\ WLEN < XLEN

Bits == 0 .. XLEN - 1
Word == SUBSET Bits

(* The position of the sign bit of an X or of a W value.                   *)
MSB(sf) == (IF sf THEN XLEN ELSE WLEN) - 1

(***************************************************************************)
(* Addition and subtraction modulo 2^XLEN.  A carry enters bit i when some *)
(* lower bit j generates one and every bit between them propagates it.     *)
(* (x and y stand for the VALUES of a and b, which TLC then computes once  *)
(* and not once for each bit.)                                             *)
(***************************************************************************)
CarryInto(i, a, b) ==
  \E j \in a \cap b : j < i /\ (j + 1) .. (i - 1) \subseteq a \cup b

BorrowInto(i, a, b) ==
  \E j \in b \ a : j < i /\ a \cap ((j + 1) .. (i - 1)) \subseteq b

Plus(a, b) ==
  UNION {{i \in Bits : (i \in SymDiff(x, y)) # CarryInto(i, x, y)} :
           x \in {a}, y \in {b}}

Minus(a, b) ==
  UNION {{i \in Bits : (i \in SymDiff(x, y)) # BorrowInto(i, x, y)} :
           x \in {a}, y \in {b}}

(* The product modulo 2^XLEN: one shifted addend for each 1 bit of a.      *)
Times(a, b) ==
  FoldSet(LAMBDA n, sum : Plus(sum, {i \in Bits : i - n \in b}), {}, a)

Complement(a) == Bits \ a

(***************************************************************************)
(* Shifts: x << n, the arithmetic x >> n of an int64_t, and the logical    *)
(* x >> n of a uint64_t.                                                   *)
(***************************************************************************)
ShiftLeft(a, n) == {i + n : i \in a} \cap Bits

UnsignedShiftRight(a, n) == {i - n : i \in a} \cap Bits

SignedShiftRight(a, n) ==
  UnsignedShiftRight(a, n)
    \cup IF XLEN - 1 \in a THEN (XLEN - n) .. (XLEN - 1) \cap Bits ELSE {}

(* The low n bits of a, and the n-bit two's-complement value they denote.  *)
LowBits(a, n) == a \cap (0 .. n - 1)

SignExtend(a, n) == LowBits(a, n) \cup IF n - 1 \in a THEN n .. XLEN - 1 ELSE {}

(* The comparisons of uint64_t and of int64_t values.                      *)
UnsignedLess(a, b) == a # b /\ Max(SymDiff(a, b)) \in b

SignedLess(a, b) ==
  LET flip(x) == SymDiff(x, {XLEN - 1})
  IN  UnsignedLess(flip(a), flip(b))

(***************************************************************************)
(* Conversions between words and TLC's integers.  ToNat is the number a    *)
(* word denotes; FieldValue is the same for a field of at most six bits,   *)
(* as a sum without a fold, whose range can be proved; FromInt             *)
(* sign-extends n, which must be a 32-bit integer.  PowersDouble says what *)
(* a proof about ToNat needs of 2^0 .. 2^N, tlapm having no rules for ^.   *)
(***************************************************************************)
ToNat(a) == MapThenSumSet(LAMBDA i : 2 ^ i, a)

PowersDouble(N) == 2 ^ 0 = 1 /\ \A n \in 0 .. N - 1 : 2 ^ (n + 1) = 2 * 2 ^ n

FieldValue(a) ==
  LET weight(i, w) == IF i \in a THEN w ELSE 0
  IN  weight(0, 1) + weight(1, 2) + weight(2, 4)
        + weight(3, 8) + weight(4, 16) + weight(5, 32)

FromInt(n) ==
  {i \in Bits : IF i < 31 THEN (n \div 2 ^ i) % 2 = 1 ELSE n < 0}

=============================================================================
