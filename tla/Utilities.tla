----------------------------- MODULE Utilities ------------------------------
(***************************************************************************)
(* The emulator's bit utilities (utilities.c).  Each operator has the name *)
(* of its C function; 'control' is TRUE for the 64-bit form (1 in C).      *)
(*                                                                         *)
(* C leaves a shift by a negative count or by the whole width undefined.   *)
(* Such counts do occur (64 - shamt with shamt = 0); the shift             *)
(* instructions gcc emits take the count modulo 64, which is what          *)
(* ShiftCount says.                                                        *)
(***************************************************************************)
EXTENDS Words

CONSTANT
  MANTISSA   \* bits of precision of a double: pow(2, n) - 1 is exact up to
             \* n = MANTISSA (53), and rounds to pow(2, n) above it

ASSUME MantissaAssumption == MANTISSA \in Nat /\ WLEN <= MANTISSA

ShiftCount(n) == n % XLEN

(* (int64_t)(pow(2, num) - 1)                                              *)
pow2Minus1(num) ==
  IF num <= MANTISSA THEN LowBits(Bits, num) ELSE {num} \cap Bits

bitMask64(bits, start, num) ==
  pow2Minus1(num) \cap SignedShiftRight(bits, start)

(* Parameter and result are int32_t: both conversions sign-extend.         *)
bitMask(bits, start, num) ==
  SignExtend(bitMask64(SignExtend(bits, WLEN), start, num), WLEN)

getBit(bits, bitNum) == bitNum \in bits

(* Mutant of signedMask: the sign of the field is lost.                    *)
signedMaskUnsigned(bits, start, num) == bitMask(bits, start, num)

signedMask(bits, start, num) ==
  LET unsignedBits == bitMask(bits, start, num)
  IN  IF bitMask(unsignedBits, num - 1, 1) # {}
        THEN SignExtend(unsignedBits, num)   \* -1 - (2^num - 1) + unsignedBits
        ELSE unsignedBits

widthMask(bits, control) ==
  pow2Minus1(WLEN) \cap (IF control THEN SignedShiftRight(bits, WLEN) ELSE bits)

(* Mutant of logicalLeft: the W form keeps what leaves its 32 bits.        *)
logicalLeftUnmasked(bits, control, shamt) ==
  ShiftLeft(IF control THEN bits ELSE widthMask(bits, FALSE), shamt)

logicalLeft(bits, control, shamt) ==
  IF control
    THEN ShiftLeft(bits, shamt)
    ELSE ShiftLeft(widthMask(bits, FALSE), shamt) \cap pow2Minus1(WLEN)

(* Mutant of logicalRight: the copies of the sign bit stay.                *)
logicalRightSigned(bits, control, shamt) ==
  SignedShiftRight(IF control THEN bits ELSE widthMask(bits, FALSE), shamt)

(* Mutant of logicalRight: the W form shifts the whole register.           *)
logicalRightUnmasked(bits, control, shamt) ==
  LET sub == ShiftLeft(pow2Minus1(shamt), ShiftCount(XLEN - shamt))
  IN  IF control /\ bitMask64(bits, XLEN - 1, 1) = {0}
        THEN Minus(SignedShiftRight(bits, shamt), sub)
        ELSE SignedShiftRight(bits, shamt)

(* A negative 64-bit value is shifted arithmetically; the copies of the    *)
(* sign bit are then subtracted again.                                     *)
logicalRight(bits, control, shamt) ==
  LET sub == ShiftLeft(pow2Minus1(shamt), ShiftCount(XLEN - shamt))
  IN  IF ~control
        THEN SignedShiftRight(widthMask(bits, FALSE), shamt)
        ELSE IF bitMask64(bits, XLEN - 1, 1) = {0}
          THEN Minus(SignedShiftRight(bits, shamt), sub)
          ELSE SignedShiftRight(bits, shamt)

(* Mutant of arithmeticRight: the W form does not copy its sign bit.       *)
arithmeticRightUnsigned(bits, control, shamt) ==
  SignedShiftRight(IF control THEN bits ELSE widthMask(bits, FALSE), shamt)

arithmeticRight(bits, control, shamt) ==
  LET low == widthMask(bits, FALSE)
      sub == ShiftLeft(pow2Minus1(shamt), ShiftCount(WLEN - shamt))
  IN  IF control
        THEN SignedShiftRight(bits, shamt)
        ELSE IF bitMask(low, WLEN - 1, 1) # {}
          THEN Plus(SignedShiftRight(low, shamt), sub)
          ELSE SignedShiftRight(low, shamt)

(* Mutant of rotateRight: no casts to uint64_t in the X form.              *)
rotateRightSigned(bits, control, shamt) ==
  SignedShiftRight(IF control THEN bits ELSE widthMask(bits, FALSE), shamt)
    \cup ShiftLeft(bits, ShiftCount((IF control THEN XLEN ELSE WLEN) - shamt))

rotateRight(bits, control, shamt) ==
  IF control
    THEN UnsignedShiftRight(bits, shamt)
           \cup ShiftLeft(bits, ShiftCount(XLEN - shamt))
    ELSE Plus(SignedShiftRight(widthMask(bits, FALSE), shamt),
              ShiftLeft(bitMask(bits, 0, shamt), ShiftCount(WLEN - shamt)))

=============================================================================
