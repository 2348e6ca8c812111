------------------------------ MODULE MCShifts ------------------------------
(***************************************************************************)
(* The shift functions of utilities.c over every word of a small width,    *)
(* compared with their meaning in integer arithmetic.  A state holds the   *)
(* arguments of one call; a step moves on to the next shift amount.        *)
(***************************************************************************)
EXTENDS Utilities

(* Arithmetic, which tlapm knows for numerals only.                        *)
ASSUME PowersAssumption == PowersDouble(XLEN)

VARIABLES bits, control, shamt

args == <<bits, control, shamt>>

Init == bits \in Word /\ control \in BOOLEAN /\ shamt = 0

(* The shift amount is a 6-bit field in both forms, hence 0 .. XLEN - 1.   *)
NextAmount == shamt' = (shamt + 1) % XLEN /\ UNCHANGED <<bits, control>>

Spec == Init /\ [][NextAmount]_args

-----------------------------------------------------------------------------
width   == IF control THEN XLEN ELSE WLEN
operand == ToNat(LowBits(bits, width))
signed  == IF width - 1 \in bits THEN operand - 2 ^ width ELSE operand

(* Amounts the architecture defines: below the width of the register.      *)
legal == shamt < width

(* A left shift multiplies by a power of two, modulo the register's width. *)
LeftMultiplies ==
  ToNat(logicalLeft(bits, control, shamt)) = (operand * 2 ^ shamt) % 2 ^ width

(* A logical right shift divides the unsigned value by a power of two, for *)
(* every amount whose mask pow() gives exactly.                            *)
RightDivides ==
  shamt <= MANTISSA =>
    ToNat(logicalRight(bits, control, shamt)) = operand \div 2 ^ shamt

(* An arithmetic right shift divides the signed value, rounding down, and  *)
(* its 32-bit form leaves nothing above the register's width.              *)
ArithmeticDivides ==
  legal => ToNat(arithmeticRight(bits, control, shamt))
             = (signed \div 2 ^ shamt) % 2 ^ width

(* A rotation moves the low bits to the top: quotient and remainder of a   *)
(* division change places, and no bit is lost or seen twice.              *)
RotateSwaps ==
  legal => ToNat(rotateRight(bits, control, shamt))
             = operand \div 2 ^ shamt
                 + (operand % 2 ^ shamt) * 2 ^ (width - shamt)

(* "performs logical right shift" (utilities.c:89), whatever the amount.   *)
RightShiftIsLogical ==
  ToNat(logicalRight(bits, control, shamt)) = operand \div 2 ^ shamt

=============================================================================
