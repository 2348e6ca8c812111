----------------------------- MODULE ShiftProofs -----------------------------
(***************************************************************************)
(* The shift functions of utilities.c compute what MCShifts says of them   *)
(* in integer arithmetic, for registers of any width: first where each of  *)
(* them moves the bits, then the number that a word cut at a bit denotes.  *)
(***************************************************************************)
EXTENDS MCShifts, WordProofs

(* Where the shifts move the bits.                                         *)
Amounts == 0 .. XLEN - 1

widthOf(c) == IF c THEN XLEN ELSE WLEN

(* n 1 bits, as the shifts make their masks: 1 << n, minus one.            *)
LEMMA LowMask ==
  ASSUME NEW n \in 0 .. MANTISSA, n <= XLEN PROVE pow2Minus1(n) = 0 .. n - 1
BY WidthAssumption DEF pow2Minus1, LowBits, Bits

(* The mask of a register is its width of 1 bits.                          *)
LEMMA WidthMaskBits ==
  ASSUME NEW b PROVE widthMask(b, FALSE) = LowBits(b, WLEN)
<1>1. pow2Minus1(WLEN) = 0 .. WLEN - 1
  BY LowMask, WidthAssumption, MantissaAssumption
<1>2. QED
  BY <1>1 DEF widthMask, LowBits

(* A bit of a logical right shift is n above its place.                    *)
LEMMA ShiftRightBits ==
  ASSUME NEW b \in Word, NEW s \in Nat, NEW i \in Bits
  PROVE  i \in UnsignedShiftRight(b, s) <=> s + i \in b
BY WidthAssumption DEF UnsignedShiftRight, Word, Bits

(* A bit of a left shift is n below its place.                             *)
LEMMA ShiftLeftBits ==
  ASSUME NEW b \in Word, NEW s \in Nat, NEW i \in Bits
  PROVE  i \in ShiftLeft(b, s) <=> i - s \in b
BY WidthAssumption DEF ShiftLeft, Word, Bits

(* An arithmetic shift of a word without a sign fills in nothing.          *)
LEMMA SignedShiftOfLow ==
  ASSUME NEW b \in Word, NEW s, XLEN - 1 \notin b
  PROVE  SignedShiftRight(b, s) = UnsignedShiftRight(b, s)
BY DEF SignedShiftRight

(* The bits of a logical left shift, within the width of the register.     *)
LEMMA LogicalLeftBits ==
  ASSUME NEW b \in Word, NEW c \in BOOLEAN, NEW s \in Amounts
  PROVE  /\ logicalLeft(b, c, s) \subseteq 0 .. widthOf(c) - 1
         /\ \A i \in 0 .. widthOf(c) - 1 : i \in logicalLeft(b, c, s) <=> i - s \in b
<1>1. s \in Nat
  BY DEF Amounts
<1>2. CASE c
  BY <1>1, <1>2, ShiftLeftBits, ShiftLeftIsWord DEF logicalLeft, widthOf, Word, Bits
<1>3. CASE ~c
  <2> DEFINE low == LowBits(b, WLEN)
  <2>1. logicalLeft(b, c, s) = ShiftLeft(low, s) \cap (0 .. WLEN - 1)
    <3>1. pow2Minus1(WLEN) = 0 .. WLEN - 1
      BY LowMask, WidthAssumption, MantissaAssumption
    <3>2. QED
      BY <1>3, <3>1, WidthMaskBits DEF logicalLeft
  <2>2. low \in Word /\ \A i \in 0 .. WLEN - 1 : i \in Bits
    BY LowBitsIsWord, WidthAssumption DEF Bits
  <2>3. \A i \in 0 .. WLEN - 1 : i \in ShiftLeft(low, s) <=> i - s \in low
    BY <1>1, <2>2, ShiftLeftBits
  <2>4. \A i \in 0 .. WLEN - 1 : i - s \in low <=> i - s \in b
    BY <1>1, WidthAssumption DEF LowBits, Word, Bits
  <2>5. QED
    BY <1>3, <2>1, <2>3, <2>4 DEF widthOf
<1>4. QED
  BY <1>2, <1>3

(* The sign of a 64-bit value, as logicalRight tests it.                   *)
LEMMA SignTest ==
  ASSUME NEW b \in Word PROVE bitMask64(b, XLEN - 1, 1) = {0} <=> XLEN - 1 \in b
<1>1. pow2Minus1(1) = {0}
  <2>1. pow2Minus1(1) = 0 .. 1 - 1
    BY LowMask, WidthAssumption, MantissaAssumption
  <2>2. QED
    BY <2>1
<1>2. 0 \in SignedShiftRight(b, XLEN - 1) <=> XLEN - 1 \in b
  <2>1. 0 \in UnsignedShiftRight(b, XLEN - 1) <=> (XLEN - 1) + 0 \in b
    <3>1. 0 \in Bits /\ XLEN - 1 \in Nat
      BY WidthAssumption DEF Bits
    <3>2. QED
      BY <3>1, ShiftRightBits
  <2>2. 0 \notin (XLEN - (XLEN - 1)) .. (XLEN - 1)
    BY WidthAssumption
  <2>3. (XLEN - 1) + 0 = XLEN - 1
    BY WidthAssumption
  <2>4. QED
    BY <2>1, <2>2, <2>3 DEF SignedShiftRight
<1>3. QED
  BY <1>1, <1>2 DEF bitMask64

(* The bits of a logical right shift, within the width of the register.    *)
LEMMA LogicalRightBits ==
  ASSUME NEW b \in Word, NEW c \in BOOLEAN, NEW s \in Amounts, s <= MANTISSA
  PROVE  logicalRight(b, c, s) = UnsignedShiftRight(LowBits(b, widthOf(c)), s)
<1>1. s \in Nat /\ XLEN \in Nat /\ s < XLEN
  BY WidthAssumption DEF Amounts
<1>2. CASE ~c
  <2>1. XLEN - 1 \notin LowBits(b, WLEN) /\ LowBits(b, WLEN) \in Word
    <3>1. XLEN - 1 \notin 0 .. WLEN - 1
      BY WidthAssumption
    <3>2. QED
      BY <3>1, LowBitsIsWord DEF LowBits
  <2>2. QED
    BY <1>2, <2>1, WidthMaskBits, SignedShiftOfLow DEF logicalRight, widthOf
<1>3. CASE c
  <2>1. LowBits(b, XLEN) = b
    BY DEF LowBits, Word, Bits
  <2>2. CASE XLEN - 1 \notin b
    BY <1>3, <2>1, <2>2, SignTest, SignedShiftOfLow DEF logicalRight, widthOf
  <2>3. CASE XLEN - 1 \in b
    <3> DEFINE signs == (XLEN - s) .. (XLEN - 1)
               shifted == UnsignedShiftRight(b, s)
    <3>1. signs \subseteq Bits
      BY <1>1 DEF Bits
    <3>2. SignedShiftRight(b, s) = shifted \cup signs
      BY <2>3, <3>1 DEF SignedShiftRight
    <3>3. ShiftLeft(pow2Minus1(s), ShiftCount(XLEN - s)) = signs
      <4>1. pow2Minus1(s) = 0 .. s - 1
        BY <1>1, LowMask
      <4>2. CASE s = 0
        <5>1. pow2Minus1(s) = {} /\ signs = {}
          BY <1>1, <4>1, <4>2
        <5>2. QED
          BY <5>1 DEF ShiftLeft
      <4>3. CASE s # 0
        <5>1. (XLEN - s) % XLEN = XLEN - s
          BY <1>1, <4>3
        <5>2. {i + (XLEN - s) : i \in 0 .. s - 1} = signs
          <6>1. ASSUME NEW j \in signs PROVE \E i \in 0 .. s - 1 : j = i + (XLEN - s)
            <7>1. j - (XLEN - s) \in 0 .. s - 1 /\ j = (j - (XLEN - s)) + (XLEN - s)
              BY <1>1
            <7>2. QED
              BY <7>1
          <6>2. \A i \in 0 .. s - 1 : i + (XLEN - s) \in signs
            BY <1>1
          <6>3. QED
            BY <6>1, <6>2
        <5>3. QED
          BY <3>1, <4>1, <5>1, <5>2 DEF ShiftLeft, ShiftCount
      <4>4. QED
        BY <4>2, <4>3
    <3>4. shifted \cap signs = {}
      <4>1. \A i \in signs : i \in Bits /\ s + i >= XLEN
        BY <1>1, <3>1
      <4>2. \A i \in b : i < XLEN
        BY <1>1 DEF Word, Bits
      <4>3. \A i \in Bits : i \in shifted <=> s + i \in b
        BY <1>1, ShiftRightBits
      <4> HIDE DEF signs, shifted
      <4>4. QED
        BY <1>1, <4>1, <4>2, <4>3 DEF Bits
    <3>5. shifted \cup signs \in Word
      BY <3>1, UnsignedShiftRightIsWord DEF Word
    <3> HIDE DEF signs, shifted
    <3>6. Minus(shifted \cup signs, signs) = shifted
      <4>1. signs \subseteq shifted \cup signs /\ (shifted \cup signs) \ signs = shifted
        BY <3>4
      <4>2. Minus(shifted \cup signs, signs) = (shifted \cup signs) \ signs
        BY <3>5, <4>1, MinusSubset
      <4>3. QED
        BY <4>1, <4>2
    <3>7. logicalRight(b, c, s)
            = Minus(SignedShiftRight(b, s), ShiftLeft(pow2Minus1(s), ShiftCount(XLEN - s)))
      BY <1>3, <2>3, SignTest DEF logicalRight
    <3>8. QED
      BY <1>3, <2>1, <3>2, <3>3, <3>6, <3>7 DEF widthOf, shifted
  <2>4. QED
    BY <2>2, <2>3
<1>4. QED
  BY <1>2, <1>3

(* The two tests of a sign, and the two fillings with it.                  *)
LEMMA NarrowSignTest ==
  ASSUME NEW b PROVE bitMask(LowBits(b, WLEN), WLEN - 1, 1) # {} <=> WLEN - 1 \in b
<1> DEFINE low == SignExtend(LowBits(b, WLEN), WLEN)
           m == bitMask64(low, WLEN - 1, 1)
<1>1. pow2Minus1(1) = {0}
  <2>1. pow2Minus1(1) = 0 .. 1 - 1
    BY LowMask, WidthAssumption, MantissaAssumption
  <2>2. QED
    BY <2>1
<1>2. low \in Word
  BY WidthAssumption DEF SignExtend, LowBits, Word, Bits
<1>3. 0 \in SignedShiftRight(low, WLEN - 1) <=> WLEN - 1 \in low
  <2>1. 0 \in UnsignedShiftRight(low, WLEN - 1) <=> (WLEN - 1) + 0 \in low
    <3>1. 0 \in Bits /\ WLEN - 1 \in Nat
      BY WidthAssumption DEF Bits
    <3>2. QED
      BY <1>2, <3>1, ShiftRightBits
  <2>2. 0 \notin (XLEN - (WLEN - 1)) .. (XLEN - 1)
    BY WidthAssumption
  <2>3. (WLEN - 1) + 0 = WLEN - 1
    BY WidthAssumption
  <2>4. QED
    BY <2>1, <2>2, <2>3 DEF SignedShiftRight
<1>4. WLEN - 1 \in low <=> WLEN - 1 \in b
  BY WidthAssumption DEF SignExtend, LowBits
<1>5. m = IF WLEN - 1 \in b THEN {0} ELSE {}
  BY <1>1, <1>3, <1>4 DEF bitMask64
<1>6. SignExtend(m, WLEN) # {} <=> m # {}
  <2>1. CASE m = {0}
    BY <2>1, WidthAssumption DEF SignExtend, LowBits
  <2>2. CASE m = {}
    BY <2>2 DEF SignExtend, LowBits
  <2>3. QED
    BY <1>5, <2>1, <2>2
<1>7. bitMask(LowBits(b, WLEN), WLEN - 1, 1) = SignExtend(m, WLEN)
  BY DEF bitMask
<1>8. QED
  BY <1>5, <1>6, <1>7

(* A block of s bits, moved to the top of n.                               *)
LEMMA TopBits ==
  ASSUME NEW a \in Word, NEW n \in 1 .. XLEN, NEW s \in 0 .. n - 1, a \subseteq 0 .. s - 1
  PROVE  /\ ShiftLeft(a, ShiftCount(n - s)) = {i \in (n - s) .. (n - 1) : i - (n - s) \in a}
         /\ ShiftLeft(a, ShiftCount(n - s)) \in Word
<1> DEFINE d == n - s
           block == {i \in d .. (n - 1) : i - d \in a}
<1>1. d \in 1 .. XLEN /\ n = d + s /\ s \in Nat
  BY WidthAssumption
<1>2. CASE s = 0
  <2>1. a = {}
    BY <1>2
  <2>2. ShiftLeft(a, ShiftCount(d)) = {} /\ block = {}
    BY <2>1 DEF ShiftLeft
  <2>3. QED
    BY <2>2 DEF Word
<1>3. CASE s # 0
  <2>1. ShiftCount(d) = d
    <3>1. XLEN \in Nat /\ d \in 1 .. XLEN - 1
      BY <1>1, <1>3, WidthAssumption
    <3>2. QED
      BY <3>1 DEF ShiftCount
  <2>2. ASSUME NEW i PROVE i \in ShiftLeft(a, d) <=> i \in block
    <3>1. ASSUME i \in ShiftLeft(a, d) PROVE i \in block
      <4>1. PICK k \in a : i = k + d
        BY <3>1 DEF ShiftLeft
      <4>2. k \in 0 .. s - 1
        OBVIOUS
      <4>3. i \in d .. (n - 1) /\ i - d = k
        BY <1>1, <4>1, <4>2
      <4>4. QED
        BY <4>3
    <3>2. ASSUME i \in block PROVE i \in ShiftLeft(a, d)
      <4>1. i \in d .. (n - 1) /\ i - d \in a
        BY <3>2
      <4>2. i = (i - d) + d /\ i \in Bits
        BY <1>1, <4>1, WidthAssumption DEF Bits
      <4>3. QED
        BY <4>1, <4>2 DEF ShiftLeft
    <3>3. QED
      BY <3>1, <3>2
  <2>3. ShiftLeft(a, ShiftCount(d)) = block
    BY <2>1, <2>2
  <2>4. QED
    BY <2>3, ShiftLeftIsWord
<1>4. QED
  BY <1>2, <1>3

(* The bits of an arithmetic right shift: the sign fills the top.          *)
LEMMA ArithmeticRightBits ==
  ASSUME NEW b \in Word, NEW c \in BOOLEAN, NEW s \in 0 .. widthOf(c) - 1
  PROVE  arithmeticRight(b, c, s)
           = UnsignedShiftRight(LowBits(b, widthOf(c)), s)
               \cup IF widthOf(c) - 1 \in b THEN (widthOf(c) - s) .. (widthOf(c) - 1) ELSE {}
<1>1. s \in Nat /\ XLEN \in Nat /\ s < XLEN
  BY WidthAssumption DEF widthOf
<1>2. CASE c
  <2>1. LowBits(b, XLEN) = b
    BY DEF LowBits, Word, Bits
  <2>2. (XLEN - s) .. (XLEN - 1) \cap Bits = (XLEN - s) .. (XLEN - 1)
    BY <1>1 DEF Bits
  <2>3. QED
    BY <1>2, <2>1, <2>2 DEF arithmeticRight, SignedShiftRight, widthOf
<1>3. CASE ~c
  <2> DEFINE low == LowBits(b, WLEN)
             shifted == UnsignedShiftRight(low, s)
             signs == (WLEN - s) .. (WLEN - 1)
  <2>1. low \in Word /\ XLEN - 1 \notin low /\ widthOf(c) = WLEN /\ s \in 0 .. WLEN - 1
    <3>1. XLEN - 1 \notin 0 .. WLEN - 1
      BY WidthAssumption
    <3>2. QED
      BY <1>3, <3>1, LowBitsIsWord DEF LowBits, widthOf
  <2>2. SignedShiftRight(low, s) = shifted
    BY <2>1, SignedShiftOfLow
  <2>3. CASE WLEN - 1 \notin b
    <3>1. arithmeticRight(b, c, s) = SignedShiftRight(low, s)
      BY <1>3, <2>3, WidthMaskBits, NarrowSignTest DEF arithmeticRight
    <3>2. QED
      BY <2>1, <2>2, <2>3, <3>1
  <2>4. CASE WLEN - 1 \in b
    <3> DEFINE sub == ShiftLeft(pow2Minus1(s), ShiftCount(WLEN - s))
    <3>1. arithmeticRight(b, c, s) = Plus(SignedShiftRight(low, s), sub)
      BY <1>3, <2>4, WidthMaskBits, NarrowSignTest DEF arithmeticRight
    <3>2. sub = signs /\ sub \in Word
      <4>1. pow2Minus1(s) = 0 .. s - 1
        BY <2>1, LowMask, WidthAssumption, MantissaAssumption
      <4>2. 0 .. s - 1 \in Word /\ WLEN \in 1 .. XLEN
        BY <1>1, WidthAssumption DEF Word, Bits
      <4>3. /\ sub = {i \in (WLEN - s) .. (WLEN - 1) : i - (WLEN - s) \in 0 .. s - 1}
            /\ sub \in Word
        BY <2>1, <4>1, <4>2, TopBits
      <4>4. \A i \in (WLEN - s) .. (WLEN - 1) : i - (WLEN - s) \in 0 .. s - 1
        BY <1>1, WidthAssumption
      <4>5. QED
        BY <4>3, <4>4
    <3>3. shifted \cap signs = {}
      <4>1. ASSUME NEW i \in signs, i \in shifted PROVE FALSE
        <5>1. i \in Bits /\ s + i >= WLEN
          BY <1>1, <2>1, <4>1, WidthAssumption DEF Bits
        <5>2. s + i \in low
          BY <1>1, <2>1, <4>1, <5>1, ShiftRightBits
        <5>3. s + i \in 0 .. WLEN - 1
          BY <5>2 DEF LowBits
        <5>4. QED
          BY <1>1, <5>1, <5>3, WidthAssumption
      <4>2. QED
        BY <4>1
    <3>4. shifted \in Word
      BY UnsignedShiftRightIsWord
    <3> HIDE DEF shifted, signs, sub
    <3>5. Plus(shifted, sub) = shifted \cup signs
      BY <3>2, <3>3, <3>4, PlusDisjoint
    <3>6. arithmeticRight(b, c, s) = shifted \cup signs
      BY <2>2, <3>1, <3>5
    <3>7. QED
      BY <2>1, <2>4, <3>6 DEF shifted, signs
  <2>5. QED
    BY <2>3, <2>4
<1>4. QED
  BY <1>2, <1>3


(* A shift by nothing.                                                     *)
LEMMA ShiftByNone ==
  ASSUME NEW b \in Word PROVE UnsignedShiftRight(b, 0) = b /\ ShiftLeft(b, 0) = b
<1>1. b \subseteq Bits /\ \A i \in Bits : 0 + i = i /\ i - 0 = i
  BY WidthAssumption DEF Word, Bits
<1>2. \A i \in Bits : (i \in UnsignedShiftRight(b, 0) <=> 0 + i \in b)
                     /\ (i \in ShiftLeft(b, 0) <=> i - 0 \in b)
  BY ShiftRightBits, ShiftLeftBits
<1>3. UnsignedShiftRight(b, 0) \subseteq Bits /\ ShiftLeft(b, 0) \subseteq Bits
  BY DEF UnsignedShiftRight, ShiftLeft
<1>4. QED
  BY <1>1, <1>2, <1>3

(* The bits that a rotation moves to the top.                              *)
LEMMA LowField ==
  ASSUME NEW b \in Word, NEW s \in 0 .. WLEN - 1 PROVE bitMask(b, 0, s) = LowBits(b, s)
<1> DEFINE x == SignExtend(b, WLEN)
           m == LowBits(b, s)
<1>1. pow2Minus1(s) = 0 .. s - 1
  BY LowMask, WidthAssumption, MantissaAssumption
<1>2. SignedShiftRight(x, 0) = x
  <2>1. x \in Word
    BY WidthAssumption DEF SignExtend, LowBits, Word, Bits
  <2>2. XLEN \in Nat
    BY WidthAssumption
  <2> HIDE DEF x
  <2>3. UnsignedShiftRight(x, 0) = x
    BY <2>1, ShiftByNone
  <2>4. (XLEN - 0) .. (XLEN - 1) = {}
    BY <2>2
  <2>5. QED
    BY <2>3, <2>4 DEF SignedShiftRight
<1>3. bitMask64(x, 0, s) = m
  <2>1. \A i \in 0 .. s - 1 : i \in x <=> i \in b
    BY WidthAssumption DEF SignExtend, LowBits
  <2> HIDE DEF x
  <2>2. bitMask64(x, 0, s) = (0 .. s - 1) \cap x
    BY <1>1, <1>2 DEF bitMask64
  <2>3. QED
    BY <2>1, <2>2 DEF LowBits
<1>4. SignExtend(m, WLEN) = m
  BY WidthAssumption DEF SignExtend, LowBits
<1>5. QED
  BY <1>3, <1>4 DEF bitMask

(* The bits of a rotation: the lowest s are now the highest.               *)
LEMMA RotateRightBits ==
  ASSUME NEW b \in Word, NEW c \in BOOLEAN, NEW s \in 0 .. widthOf(c) - 1
  PROVE  rotateRight(b, c, s)
           = UnsignedShiftRight(LowBits(b, widthOf(c)), s)
               \cup {i \in (widthOf(c) - s) .. (widthOf(c) - 1) : i - (widthOf(c) - s) \in b}
<1>1. s \in Nat /\ XLEN \in Nat /\ s < XLEN
  BY WidthAssumption DEF widthOf
<1>2. CASE c
  <2> DEFINE moved == ShiftLeft(b, ShiftCount(XLEN - s))
             top == {i \in (XLEN - s) .. (XLEN - 1) : i - (XLEN - s) \in b}
  <2>1. LowBits(b, XLEN) = b /\ b \subseteq 0 .. XLEN - 1
    BY DEF LowBits, Word, Bits
  <2>2. CASE s = 0
    <3>1. ShiftCount(XLEN - s) = 0
      BY <1>1, <2>2 DEF ShiftCount
    <3>2. UnsignedShiftRight(b, s) = b /\ ShiftLeft(b, 0) = b /\ top = {}
      <4>1. UnsignedShiftRight(b, 0) = b /\ ShiftLeft(b, 0) = b
        BY ShiftByNone
      <4>2. (XLEN - 0) .. (XLEN - 1) = {}
        BY <1>1
      <4>3. QED
        BY <2>2, <4>1, <4>2
    <3>3. QED
      BY <1>2, <2>1, <3>1, <3>2 DEF rotateRight, widthOf
  <2>3. CASE s # 0
    <3>1. ShiftCount(XLEN - s) = XLEN - s /\ XLEN - s \in Nat
      BY <1>1, <2>3 DEF ShiftCount
    <3>2. ASSUME NEW i PROVE i \in moved <=> i \in top
      <4>1. CASE i \in Bits
        <5>1. i \in moved <=> i - (XLEN - s) \in b
          BY <3>1, <4>1, ShiftLeftBits
        <5>2. i - (XLEN - s) \in b => i \in (XLEN - s) .. (XLEN - 1)
          BY <1>1, <2>1, <4>1 DEF Bits
        <5>3. QED
          BY <5>1, <5>2
      <4>2. CASE i \notin Bits
        BY <1>1, <4>2 DEF ShiftLeft, Bits
      <4>3. QED
        BY <4>1, <4>2
    <3>3. moved = top
      BY <3>2
    <3>4. QED
      BY <1>2, <2>1, <3>3 DEF rotateRight, widthOf
  <2>4. QED
    BY <2>2, <2>3
<1>3. CASE ~c
  <2> DEFINE low == LowBits(b, WLEN)
             shifted == UnsignedShiftRight(low, s)
             moved == ShiftLeft(LowBits(b, s), ShiftCount(WLEN - s))
             top == {i \in (WLEN - s) .. (WLEN - 1) : i - (WLEN - s) \in b}
  <2>1. low \in Word /\ XLEN - 1 \notin low /\ widthOf(c) = WLEN /\ s \in 0 .. WLEN - 1
    <3>1. XLEN - 1 \notin 0 .. WLEN - 1
      BY WidthAssumption
    <3>2. QED
      BY <1>3, <3>1, LowBitsIsWord DEF LowBits, widthOf
  <2>2. rotateRight(b, c, s) = Plus(shifted, moved)
    <3>1. SignedShiftRight(low, s) = shifted
      BY <2>1, SignedShiftOfLow
    <3>2. bitMask(b, 0, s) = LowBits(b, s)
      BY <2>1, LowField
    <3>3. QED
      BY <1>3, <3>1, <3>2, WidthMaskBits DEF rotateRight
  <2>3. moved = top /\ moved \in Word
    <3>1. LowBits(b, s) \in Word /\ LowBits(b, s) \subseteq 0 .. s - 1 /\ WLEN \in 1 .. XLEN
      <4>1. LowBits(b, s) \in Word
        BY LowBitsIsWord
      <4>2. WLEN \in 1 .. XLEN
        BY WidthAssumption
      <4>3. QED
        BY <4>1, <4>2 DEF LowBits
    <3>2. /\ moved = {i \in (WLEN - s) .. (WLEN - 1) : i - (WLEN - s) \in LowBits(b, s)}
          /\ moved \in Word
      BY <2>1, <3>1, TopBits
    <3>3. \A i \in (WLEN - s) .. (WLEN - 1) : i - (WLEN - s) \in 0 .. s - 1
      BY <1>1, WidthAssumption
    <3>4. QED
      BY <3>2, <3>3 DEF LowBits
  <2>4. shifted \cap top = {}
    <3>1. ASSUME NEW i \in top, i \in shifted PROVE FALSE
      <4>1. i \in Bits /\ s + i >= WLEN
        BY <1>1, <2>1, <3>1, WidthAssumption DEF Bits
      <4>2. s + i \in low
        BY <1>1, <2>1, <3>1, <4>1, ShiftRightBits
      <4>3. s + i \in 0 .. WLEN - 1
        BY <4>2 DEF LowBits
      <4>4. QED
        BY <1>1, <4>1, <4>3, WidthAssumption
    <3>2. QED
      BY <3>1
  <2>5. shifted \in Word
    BY UnsignedShiftRightIsWord
  <2> HIDE DEF shifted, moved, top
  <2>6. Plus(shifted, moved) = shifted \cup top
    BY <2>3, <2>4, <2>5, PlusDisjoint
  <2>7. QED
    BY <2>1, <2>2, <2>6 DEF shifted, top
<1>4. QED
  BY <1>2, <1>3

-----------------------------------------------------------------------------
(* Shifting right and left, in numbers: a word of n bits is cut at bit s.  *)
LEMMA CutNumbers ==
  ASSUME NEW n \in 0 .. XLEN, NEW s \in 0 .. n, NEW b
  PROVE  /\ 2 ^ n \in Nat \ {0} /\ 2 ^ s \in Nat \ {0} /\ 2 ^ (n - s) \in Nat \ {0}
         /\ 2 ^ n = 2 ^ s * 2 ^ (n - s)
         /\ ToNat(LowBits(b, s)) \in 0 .. 2 ^ s - 1
         /\ ToNat(LowBits(b, n - s)) \in 0 .. 2 ^ (n - s) - 1
         /\ ToNat(LowBits(b, n)) \in 0 .. 2 ^ n - 1
<1>1. XLEN \in Nat /\ s \in 0 .. XLEN /\ n - s \in 0 .. XLEN /\ s \in Nat /\ n - s \in Nat
      /\ s + (n - s) = n
  BY WidthAssumption
<1> DEFINE v(m) == ToNat(LowBits(b, m))
           p(m) == 2 ^ m
<1>2. \A m \in 0 .. XLEN : p(m) \in Nat \ {0} /\ v(m) \in Nat /\ v(m) < p(m)
  BY <1>1, PowersAssumption, PowersType, LowBitsBound
<1>3. p(s + (n - s)) = p(s) * p(n - s)
  BY <1>1, PowersAssumption, PowersAdd
<1> HIDE DEF v, p
<1>4. \A m \in 0 .. XLEN : v(m) \in 0 .. p(m) - 1
  BY <1>2
<1>5. QED
  BY <1>1, <1>2, <1>3, <1>4 DEF v, p

(* Cutting a word where it ends.                                           *)
LEMMA WholeWord ==
  ASSUME NEW a, NEW n \in Nat, a \subseteq 0 .. n - 1 PROVE LowBits(a, n) = a
BY DEF LowBits

(* A right shift of n bits by s is what is above bit s.                    *)
LEMMA CutRight ==
  ASSUME NEW b \in Word, NEW n \in 0 .. XLEN, NEW s \in 0 .. n
  PROVE  LET shifted == UnsignedShiftRight(LowBits(b, n), s)
         IN  /\ shifted \subseteq 0 .. n - s - 1
             /\ ToNat(LowBits(b, n)) = 2 ^ s * ToNat(shifted) + ToNat(LowBits(b, s))
             /\ ToNat(shifted) \in 0 .. 2 ^ (n - s) - 1
<1> DEFINE shifted == UnsignedShiftRight(LowBits(b, n), s)
<1>1. XLEN \in Nat /\ s \in Nat /\ n - s \in Nat /\ s + (n - s) = n /\ n \in Nat
  BY WidthAssumption
<1>2. LowBits(b, n) \in Word
  BY LowBitsIsWord
<1>3. \A i \in Bits : i \in shifted <=> s + i \in LowBits(b, n)
  BY <1>1, <1>2, ShiftRightBits
<1>4. \A i \in 0 .. n - s - 1 : i \in Bits /\ (s + i \in LowBits(b, n) <=> s + i \in b)
  BY <1>1 DEF Bits, LowBits
<1>5. shifted \subseteq 0 .. n - s - 1
  <2>1. \A i \in shifted : i \in Bits /\ s + i \in 0 .. n - 1
    BY <1>3 DEF UnsignedShiftRight, LowBits
  <2> HIDE DEF shifted
  <2>2. QED
    BY <1>1, <2>1 DEF Bits
<1>6. \A i \in 0 .. (n - s) - 1 : i \in shifted <=> s + i \in b
  <2> HIDE DEF shifted
  <2> QED BY <1>1, <1>3, <1>4
<1>7. LowBits(shifted, n - s) = shifted
  BY <1>1, <1>5, WholeWord
<1>8. ToNat(LowBits(b, s + (n - s))) = ToNat(LowBits(b, s)) + 2 ^ s * ToNat(LowBits(shifted, n - s))
  <2> HIDE DEF shifted
  <2> QED BY <1>1, <1>6, PowersAssumption, LowBitsSplit
<1> HIDE DEF shifted
<1>9. ToNat(shifted) \in 0 .. 2 ^ (n - s) - 1
  BY <1>7, CutNumbers
<1> DEFINE h == ToNat(shifted)
           l == ToNat(LowBits(b, s))
           p == 2 ^ s
<1>10. p \in Nat /\ l \in Nat /\ h \in Nat
  BY <1>9, CutNumbers
<1>11. ToNat(LowBits(b, n)) = l + p * h
  BY <1>1, <1>7, <1>8
<1>12. l + p * h = p * h + l
  <2> HIDE DEF l, p, h
  <2> QED BY <1>10
<1>13. QED
  BY <1>5, <1>9, <1>11, <1>12 DEF shifted

-----------------------------------------------------------------------------
(* The width of a register is one that a word has.                         *)
LEMMA WidthFacts ==
  ASSUME NEW c \in BOOLEAN
  PROVE  widthOf(c) \in 1 .. XLEN /\ XLEN \in Nat /\ widthOf(c) \in Nat
BY WidthAssumption DEF widthOf

(* The left shift of utilities.c, as a product.                            *)
LEMMA LeftShiftMultiplies ==
  ASSUME NEW b \in Word, NEW c \in BOOLEAN, NEW s \in Amounts
  PROVE  ToNat(logicalLeft(b, c, s))
           = (ToNat(LowBits(b, widthOf(c))) * 2 ^ s) % 2 ^ widthOf(c)
<1> DEFINE w == widthOf(c)
           L == logicalLeft(b, c, s)
<1>1. w \in 1 .. XLEN /\ XLEN \in Nat /\ s \in 0 .. XLEN /\ s \in Nat
  BY WidthFacts DEF Amounts
<1>2. L \subseteq 0 .. w - 1 /\ \A i \in 0 .. w - 1 : i \in L <=> i - s \in b
  BY LogicalLeftBits
<1>3. b \subseteq 0 .. XLEN - 1
  BY DEF Word, Bits
<1> HIDE DEF w, L
<1>4. LowBits(L, w) = L
  <2>1. w \in Nat
    BY <1>1
  <2>2. QED
    BY <1>2, <2>1, WholeWord
<1>5. CASE s <= w
  <2> DEFINE t == w - s
             h == ToNat(UnsignedShiftRight(LowBits(b, w), t))
             l == ToNat(LowBits(b, t))
             p == 2 ^ s
             q == 2 ^ t
             m == 2 ^ w
  <2>1. t \in Nat /\ t \in 0 .. w /\ s + t = w /\ w - t = s /\ s \in 0 .. w /\ w \in 0 .. XLEN
    BY <1>1, <1>5
  <2>2. ToNat(LowBits(b, w)) = q * h + l /\ h \in Nat
    BY <2>1, CutRight, CutNumbers
  <2>3. /\ m \in Nat \ {0} /\ p \in Nat \ {0} /\ q \in Nat \ {0}
        /\ m = p * q /\ l \in 0 .. q - 1
    BY <2>1, CutNumbers
  <2>4. ToNat(LowBits(L, s + t)) = ToNat(LowBits(L, s)) + p * l
    <3>1. \A i \in 0 .. t - 1 : i \in b <=> s + i \in L
      <4>1. \A i \in 0 .. t - 1 : s + i \in 0 .. w - 1 /\ (s + i) - s = i
        BY <2>1
      <4>2. QED
        BY <1>2, <4>1
    <3>2. s + t <= XLEN
      BY <1>1, <2>1
    <3> HIDE DEF t, p, l
    <3>3. s \in Nat /\ t \in Nat /\ XLEN \in Nat
      BY <1>1, <2>1
    <3>4. ToNat(LowBits(L, s + t)) = ToNat(LowBits(L, s)) + 2 ^ s * ToNat(LowBits(b, t))
      BY <3>1, <3>2, <3>3, PowersAssumption, LowBitsSplit
    <3>5. QED
      BY <3>4 DEF p, l
  <2>5. ToNat(LowBits(L, s)) = 0
    <3>1. \A i \in 0 .. s - 1 : i \notin L
      <4>1. \A i \in 0 .. s - 1 : i \in 0 .. w - 1 /\ i - s \notin b
        BY <1>1, <1>3, <1>5
      <4>2. QED
        BY <1>2, <4>1
    <3>2. LowBits(L, s) = {}
      BY <3>1 DEF LowBits
    <3>3. QED
      BY <3>2, ToNatEmpty
  <2>6. ToNat(L) = p * l
    <3>1. ToNat(L) = 0 + p * l
      BY <1>4, <2>1, <2>4, <2>5
    <3>2. p * l \in Nat
      BY <2>3
    <3>3. QED
      BY <3>1, <3>2
  <2> HIDE DEF t, h, l, p, q, m
  <2>7. (q * h + l) * p = m * h + p * l
    BY <2>2, <2>3
  <2>8. p * l \in 0 .. m - 1
    BY <2>3
  <2>9. (m * h + p * l) % m = p * l
    <3> DEFINE r == p * l
    <3>1. r \in 0 .. m - 1 /\ h \in Int /\ m \in Nat \ {0}
      BY <2>2, <2>3, <2>8
    <3> HIDE DEF r
    <3>2. (m * h + r) % m = r
      BY <3>1, QuotientAndRemainder
    <3>3. QED
      BY <3>2 DEF r
  <2>10. QED
    BY <2>2, <2>6, <2>7, <2>9 DEF w, L, p, m
<1>6. CASE s > w
  <2> DEFINE v == ToNat(LowBits(b, w))
             p == 2 ^ s
             q == 2 ^ (s - w)
             m == 2 ^ w
  <2>1. L = {}
    <3>1. \A i \in 0 .. w - 1 : i - s \notin b
      BY <1>1, <1>3, <1>6
    <3>2. QED
      BY <1>2, <3>1
  <2>2. w \in 0 .. s
    BY <1>1, <1>6
  <2>3. m \in Nat \ {0} /\ q \in Nat \ {0} /\ p = m * q /\ v \in Nat
    BY <1>1, <2>2, CutNumbers
  <2> HIDE DEF v, p, q, m
  <2>4. v * p = m * (v * q) + 0 /\ v * q \in Int
    BY <2>3
  <2>5. (m * (v * q) + 0) % m = 0
    BY <2>3, <2>4, QuotientAndRemainder
  <2>6. QED
    BY <2>1, <2>4, <2>5, ToNatEmpty DEF w, L, v, p, m
<1>7. QED
  BY <1>1, <1>5, <1>6

(* A number cut at bit s: quotient and remainder are what is above and     *)
(* below.                                                                  *)
LEMMA CutDivides ==
  ASSUME NEW b \in Word, NEW n \in 0 .. XLEN, NEW s \in 0 .. n
  PROVE  /\ ToNat(LowBits(b, n)) \div 2 ^ s = ToNat(UnsignedShiftRight(LowBits(b, n), s))
         /\ ToNat(LowBits(b, n)) % 2 ^ s = ToNat(LowBits(b, s))
<1> DEFINE h == ToNat(UnsignedShiftRight(LowBits(b, n), s))
           l == ToNat(LowBits(b, s))
           p == 2 ^ s
           q == 2 ^ (n - s)
           x == ToNat(LowBits(b, n))
<1>1. x = p * h + l /\ h \in 0 .. q - 1 /\ q \in Nat
  BY CutRight, CutNumbers
<1>2. p \in Nat \ {0} /\ l \in 0 .. p - 1
  BY CutNumbers
<1> HIDE DEF h, l, p, q, x
<1>3. h \in Int
  BY <1>1
<1>4. x \div p = h /\ x % p = l
  BY <1>1, <1>2, <1>3, QuotientAndRemainder
<1>5. QED
  BY <1>4 DEF h, l, p, x

(* Its logical right shift, as a quotient.                                 *)
LEMMA RightShiftDivides ==
  ASSUME NEW b \in Word, NEW c \in BOOLEAN, NEW s \in Amounts, s <= MANTISSA
  PROVE  ToNat(logicalRight(b, c, s)) = ToNat(LowBits(b, widthOf(c))) \div 2 ^ s
<1> DEFINE w == widthOf(c)
           R == UnsignedShiftRight(LowBits(b, w), s)
<1>1. w \in 1 .. XLEN /\ XLEN \in Nat /\ s \in 0 .. XLEN /\ s \in Nat
  BY WidthFacts DEF Amounts
<1>2. logicalRight(b, c, s) = R
  BY LogicalRightBits
<1>3. CASE s <= w
  <2>1. w \in 0 .. XLEN /\ s \in 0 .. w
    BY <1>1, <1>3
  <2> HIDE DEF w
  <2>2. QED
    BY <1>2, <2>1, CutDivides DEF w
<1>4. CASE s > w
  <2> DEFINE v == ToNat(LowBits(b, w))
             p == 2 ^ s
             q == 2 ^ (s - w)
             m == 2 ^ w
  <2>1. R = {}
    <3>1. LowBits(b, w) \in Word /\ \A i \in Bits : s + i \notin LowBits(b, w)
      BY <1>1, <1>4, LowBitsIsWord DEF LowBits, Bits
    <3>2. \A i \in Bits : i \notin R
      BY <1>1, <3>1, ShiftRightBits
    <3>3. QED
      BY <3>2 DEF UnsignedShiftRight
  <2>2. m \in Nat \ {0} /\ q \in Nat \ {0} /\ p \in Nat \ {0} /\ p = m * q
    <3>1. w \in 0 .. s
      BY <1>1, <1>4
    <3>2. QED
      BY <1>1, <3>1, CutNumbers
  <2>3. v \in 0 .. m - 1
    <3>1. w \in 0 .. XLEN /\ w \in 0 .. w
      BY <1>1
    <3> HIDE DEF w
    <3>2. QED
      BY <3>1, CutNumbers
  <2> HIDE DEF v, p, q, m, w
  <2>4. v \in 0 .. p - 1
    BY <2>2, <2>3
  <2>5. p * 0 + v = v
    BY <2>2, <2>4
  <2>6. v \div p = 0
    <3>1. (p * 0 + v) \div p = 0
      BY <2>2, <2>4, QuotientAndRemainder
    <3>2. QED
      BY <2>5, <3>1
  <2>7. QED
    BY <1>2, <2>1, <2>6, ToNatEmpty DEF v, p, w
<1>5. QED
  BY <1>1, <1>3, <1>4

(* LowBitsSplit, for the words of this machine.                            *)
LEMMA WordSplits ==
  ASSUME NEW t \in Nat, NEW d \in Nat, t + d <= XLEN, NEW a, NEW b,
         \A i \in 0 .. d - 1 : i \in b <=> t + i \in a
  PROVE  ToNat(LowBits(a, t + d)) = ToNat(LowBits(a, t)) + 2 ^ t * ToNat(LowBits(b, d))
<1>1. XLEN \in Nat
  BY WidthAssumption
<1>2. QED
  BY <1>1, PowersAssumption, LowBitsSplit

(* Word b, above a word of t bits, is d bits wide.                         *)
Parts(t, d, b, lower, upper) ==
  /\ t \in Nat /\ d \in Nat /\ t + d <= XLEN
  /\ lower \subseteq 0 .. t - 1 /\ upper \subseteq t .. t + d - 1
  /\ \A i \in 0 .. d - 1 : i \in b <=> t + i \in upper

(* A word made of two parts, the upper one starting at bit t.              *)
LEMMA PartsAdd ==
  ASSUME NEW t \in Nat, NEW d \in Nat, NEW b, NEW lower, NEW upper,
         Parts(t, d, b, lower, upper)
  PROVE  ToNat(lower \cup upper) = ToNat(lower) + 2 ^ t * ToNat(LowBits(b, d))
<1> DEFINE a == lower \cup upper
           n == t + d
<1>1. /\ t + d <= XLEN /\ lower \subseteq 0 .. t - 1 /\ upper \subseteq t .. t + d - 1
      /\ \A i \in 0 .. d - 1 : i \in b <=> t + i \in upper
  BY DEF Parts
<1>2. t + d <= XLEN /\ \A i \in 0 .. d - 1 : i \in b <=> t + i \in a
  <2>1. \A i \in 0 .. d - 1 : t + i \notin 0 .. t - 1
    OBVIOUS
  <2>2. QED
    BY <1>1, <2>1
<1>3. n \in Nat /\ a \subseteq 0 .. n - 1
  <2>1. \A i \in 0 .. t - 1 : i \in 0 .. n - 1
    OBVIOUS
  <2>2. \A i \in t .. t + d - 1 : i \in 0 .. n - 1
    OBVIOUS
  <2> HIDE DEF n
  <2>3. a \subseteq 0 .. n - 1
    BY <1>1, <2>1, <2>2
  <2>4. QED
    BY <2>3 DEF n
<1>4. \A i \in 0 .. t - 1 : i \in a <=> i \in lower
  <2>1. \A i \in t .. t + d - 1 : i \notin 0 .. t - 1
    OBVIOUS
  <2>2. QED
    BY <1>1, <2>1
<1> HIDE DEF a
<1>5. ToNat(LowBits(a, t + d)) = ToNat(LowBits(a, t)) + 2 ^ t * ToNat(LowBits(b, d))
  BY <1>2, WordSplits
<1> HIDE DEF n
<1>6. LowBits(a, n) = a
  BY <1>3, WholeWord
<1>7. LowBits(a, t) = lower
  <2>1. LowBits(lower, t) = lower
    BY <1>1, WholeWord
  <2>2. LowBits(a, t) = LowBits(lower, t)
    BY <1>4, SameLowBits
  <2>3. QED
    BY <2>1, <2>2
<1>8. QED
  BY <1>5, <1>6, <1>7 DEF a, n

(* Its rotation, as quotient and remainder in each other's place.          *)
LEMMA RotationSwaps ==
  ASSUME NEW b \in Word, NEW c \in BOOLEAN, NEW s \in 0 .. widthOf(c) - 1
  PROVE  ToNat(rotateRight(b, c, s))
           = ToNat(LowBits(b, widthOf(c))) \div 2 ^ s
               + (ToNat(LowBits(b, widthOf(c))) % 2 ^ s) * 2 ^ (widthOf(c) - s)
<1> DEFINE w == widthOf(c)
           R == UnsignedShiftRight(LowBits(b, w), s)
           top == {i \in (w - s) .. (w - 1) : i - (w - s) \in b}
           h == ToNat(R)
           l == ToNat(LowBits(b, s))
           q == 2 ^ (w - s)
           x == ToNat(LowBits(b, w))
           p == 2 ^ s
<1>1. w \in 0 .. XLEN /\ s \in 0 .. w /\ w - s \in 0 .. w /\ w - (w - s) = s
  BY WidthFacts
<1>2. rotateRight(b, c, s) = R \cup top
  BY RotateRightBits
<1>3. x \div p = h /\ x % p = l
  BY <1>1, CutDivides
<1>4. ToNat(R \cup top) = h + q * l
  <2> DEFINE t == w - s
  <2>1. t \in Nat /\ s \in Nat /\ t + s <= XLEN /\ R \subseteq 0 .. t - 1
    <3>1. R \subseteq 0 .. (w - s) - 1
      BY <1>1, CutRight
    <3>2. QED
      BY <1>1, <3>1, WidthAssumption
  <2>2. top \subseteq t .. t + s - 1
    BY <1>1
  <2>3. \A i \in 0 .. s - 1 : i \in b <=> t + i \in top
    <3>1. \A i \in 0 .. s - 1 : t + i \in t .. w - 1 /\ (t + i) - t = i
      BY <1>1
    <3>2. QED
      BY <3>1
  <2> HIDE DEF w, R, top, t
  <2>4. Parts(t, s, b, R, top)
    BY <2>1, <2>2, <2>3, Zenon DEF Parts
  <2>5. ToNat(R \cup top) = ToNat(R) + 2 ^ t * ToNat(LowBits(b, s))
    BY <2>1, <2>4, PartsAdd
  <2>6. QED
    BY <2>5 DEF t, h, q, l
<1>5. q \in Nat /\ l \in Nat
  BY <1>1, CutNumbers
<1> HIDE DEF h, l, q, x, p, R, top, w
<1>6. q * l = l * q
  BY <1>5
<1>7. QED
  BY <1>2, <1>3, <1>4, <1>6 DEF x, p, q, w

(* Its arithmetic right shift, as a quotient that rounds down.             *)
LEMMA ArithmeticShiftDivides ==
  ASSUME NEW b \in Word, NEW c \in BOOLEAN, NEW s \in 0 .. widthOf(c) - 1,
         NEW number, number = IF widthOf(c) - 1 \in b
                                THEN ToNat(LowBits(b, widthOf(c))) - 2 ^ widthOf(c)
                                ELSE ToNat(LowBits(b, widthOf(c)))
  PROVE  ToNat(arithmeticRight(b, c, s)) = (number \div 2 ^ s) % 2 ^ widthOf(c)
<1> DEFINE w == widthOf(c)
           R == UnsignedShiftRight(LowBits(b, w), s)
           signs == (w - s) .. (w - 1)
           h == ToNat(R)
           l == ToNat(LowBits(b, s))
           q == 2 ^ (w - s)
           x == ToNat(LowBits(b, w))
           p == 2 ^ s
           m == 2 ^ w
<1>1. w \in 0 .. XLEN /\ s \in 0 .. w /\ w - s \in 0 .. w /\ w - (w - s) = s
  BY WidthFacts
<1>2. arithmeticRight(b, c, s) = R \cup IF w - 1 \in b THEN signs ELSE {}
  BY ArithmeticRightBits
<1>3. x = p * h + l /\ h \in 0 .. q - 1 /\ R \subseteq 0 .. (w - s) - 1
  BY <1>1, CutRight
<1>4. /\ p \in Nat \ {0} /\ q \in Nat \ {0} /\ m \in Nat \ {0} /\ m = p * q
      /\ l \in 0 .. p - 1
  BY <1>1, CutNumbers
<1>5. number = IF w - 1 \in b THEN x - m ELSE x
  OBVIOUS
<1>6. w - 1 \in b => ToNat(R \cup signs) = h + q * (p - 1)
  <2> DEFINE t == w - s
  <2>1. t \in Nat /\ s \in Nat /\ t + s <= XLEN /\ R \subseteq 0 .. t - 1
    BY <1>1, <1>3, WidthAssumption
  <2>2. signs \subseteq t .. t + s - 1 /\ \A i \in 0 .. s - 1 : i \in Nat <=> t + i \in signs
    BY <1>1, <2>1
  <2> HIDE DEF w, R, signs, t
  <2>3. Parts(t, s, Nat, R, signs)
    BY <2>1, <2>2, Zenon DEF Parts
  <2>4. ToNat(R \cup signs) = ToNat(R) + 2 ^ t * ToNat(LowBits(Nat, s))
    BY <2>1, <2>3, PartsAdd
  <2>5. ToNat(LowBits(Nat, s)) = 2 ^ s - 1
    <3>1. s \in 0 .. XLEN /\ XLEN \in Nat /\ 0 .. s - 1 \subseteq Nat
      BY <1>1, WidthAssumption
    <3>2. QED
      BY <3>1, PowersAssumption, LowBitsAll
  <2>6. QED
    BY <2>4, <2>5 DEF t, h, q, p
<1> HIDE DEF w, R, signs, h, l, q, x, p, m
<1>7. CASE w - 1 \notin b
  <2>1. ToNat(arithmeticRight(b, c, s)) = h
    <3>1. R \cup {} = R
      OBVIOUS
    <3>2. QED
      BY <1>2, <1>7, <3>1 DEF h
  <2>2. number = p * h + l /\ h \in Int
    BY <1>3, <1>5, <1>7
  <2>3. number \div p = h
    BY <1>4, <2>2, QuotientAndRemainder
  <2>4. h \in 0 .. m - 1
    BY <1>3, <1>4
  <2>5. h % m = h
    <3>1. m * 0 + h = h
      BY <1>4, <2>4
    <3>2. (m * 0 + h) % m = h
      BY <1>4, <2>4, QuotientAndRemainder
    <3>3. QED
      BY <3>1, <3>2
  <2>6. QED
    BY <2>1, <2>3, <2>5 DEF w, p, m
<1>8. CASE w - 1 \in b
  <2>1. ToNat(arithmeticRight(b, c, s)) = h + q * (p - 1)
    BY <1>2, <1>6, <1>8
  <2>2. number = p * (h - q) + l /\ h - q \in Int
    BY <1>3, <1>4, <1>5, <1>8
  <2>3. number \div p = h - q
    <3> DEFINE k == h - q
    <3>1. number = p * k + l /\ k \in Int
      BY <2>2
    <3> HIDE DEF k
    <3>2. number \div p = k
      BY <1>4, <3>1, QuotientAndRemainder
    <3>3. QED
      BY <3>2 DEF k
  <2> DEFINE r == h + q * (p - 1)
  <2>4. h - q = m * (-1) + r /\ r \in 0 .. m - 1
    <3>1. q * (p - 1) = m - q /\ q * (p - 1) \in Nat
      BY <1>4
    <3>2. QED
      BY <1>3, <1>4, <3>1
  <2>5. (h - q) % m = r
    <3> HIDE DEF r
    <3>1. (m * (-1) + r) % m = r
      BY <1>4, <2>4, QuotientAndRemainder
    <3>2. QED
      BY <2>4, <3>1
  <2>6. QED
    BY <2>1, <2>3, <2>5 DEF w, p, m
<1>9. QED
  BY <1>7, <1>8

-----------------------------------------------------------------------------
ShiftType == bits \in Word /\ control \in BOOLEAN /\ shamt \in Amounts

(* Every step of the enumeration has arguments that a call can have.       *)
LEMMA ShiftInvariant == Spec => []ShiftType
<1>1. Init => ShiftType
  BY WidthAssumption DEF Init, ShiftType, Amounts
<1>2. ShiftType /\ [NextAmount]_args => ShiftType'
  <2>1. ASSUME ShiftType, NextAmount PROVE ShiftType'
    <3>1. (shamt + 1) % XLEN \in Amounts
      BY <2>1, WidthAssumption DEF ShiftType, Amounts
    <3>2. QED
      BY <2>1, <3>1 DEF ShiftType, NextAmount
  <2>2. ASSUME ShiftType, UNCHANGED args PROVE ShiftType'
    BY <2>2 DEF ShiftType, args
  <2>3. QED
    BY <2>1, <2>2
<1>3. QED
  BY <1>1, <1>2, PTL DEF Spec

(* The names of MCShifts for the width and the value of the operand.       *)
LEMMA WidthNamed == width = widthOf(control) /\ operand = ToNat(LowBits(bits, widthOf(control)))
BY DEF width, widthOf, operand

(* logicalLeft multiplies by a power of two, modulo the width of the       *)
(* register, for registers of any width.                                   *)
THEOREM LeftShifts == Spec => []LeftMultiplies
<1>1. ShiftType => LeftMultiplies
  BY LeftShiftMultiplies, WidthNamed DEF ShiftType, LeftMultiplies
<1>2. QED
  BY <1>1, ShiftInvariant, PTL

(* logicalRight divides the unsigned value by a power of two, for every    *)
(* amount up to the precision of pow(), for registers of any width.        *)
THEOREM RightShifts == Spec => []RightDivides
<1>1. ShiftType => RightDivides
  BY RightShiftDivides, WidthNamed DEF ShiftType, RightDivides
<1>2. QED
  BY <1>1, ShiftInvariant, PTL

(* The amounts the architecture defines, for that width.                   *)
LEMMA LegalAmount ==
  ASSUME ShiftType, legal PROVE shamt \in 0 .. widthOf(control) - 1
BY WidthNamed, WidthFacts DEF ShiftType, legal, Amounts

(* arithmeticRight divides the signed value and rounds down, and its W     *)
(* form leaves nothing above the register, for registers of any width.     *)
THEOREM ArithmeticShifts == Spec => []ArithmeticDivides
<1>1. ASSUME ShiftType, legal
      PROVE  ToNat(arithmeticRight(bits, control, shamt)) = (signed \div 2 ^ shamt) % 2 ^ width
  <2>1. signed = IF widthOf(control) - 1 \in bits
                   THEN ToNat(LowBits(bits, widthOf(control))) - 2 ^ widthOf(control)
                   ELSE ToNat(LowBits(bits, widthOf(control)))
    BY WidthNamed, Zenon DEF signed
  <2>2. bits \in Word /\ control \in BOOLEAN /\ shamt \in 0 .. widthOf(control) - 1
    BY <1>1, LegalAmount DEF ShiftType
  <2>3. ToNat(arithmeticRight(bits, control, shamt))
          = (signed \div 2 ^ shamt) % 2 ^ widthOf(control)
    BY <2>1, <2>2, ArithmeticShiftDivides
  <2>4. QED
    BY <2>3, WidthNamed
<1>2. ShiftType => ArithmeticDivides
  BY <1>1 DEF ArithmeticDivides
<1>3. QED
  BY <1>2, ShiftInvariant, PTL

(* rotateRight makes quotient and remainder of a division change places,   *)
(* for registers of any width: no bit is lost or doubled.                  *)
THEOREM Rotations == Spec => []RotateSwaps
<1>1. ASSUME ShiftType, legal
      PROVE  ToNat(rotateRight(bits, control, shamt))
               = operand \div 2 ^ shamt + (operand % 2 ^ shamt) * 2 ^ (width - shamt)
  <2>1. bits \in Word /\ control \in BOOLEAN /\ shamt \in 0 .. widthOf(control) - 1
    BY <1>1, LegalAmount DEF ShiftType
  <2>2. QED
    BY <2>1, RotationSwaps, WidthNamed
<1>2. ShiftType => RotateSwaps
  BY <1>1 DEF RotateSwaps
<1>3. QED
  BY <1>2, ShiftInvariant, PTL

=============================================================================
