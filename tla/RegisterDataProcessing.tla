----------------------- MODULE RegisterDataProcessing -----------------------
(***************************************************************************)
(* Data processing with register operands (register_data_proc.c):          *)
(* multiply, add and subtract, and bitwise logic on a shifted register.    *)
(*                                                                         *)
(* The C file keeps the decoded fields in static variables.  Each call     *)
(* sets every one of them before it reads any, so they are not state: here *)
(* they are the parameters of the operators.                               *)
(***************************************************************************)
EXTENDS Data

oprField(instr)     == field(instr, 21, 4)
shiftAmount(instr)  == field(instr, 10, 6)
rmValue(instr)      == valueOrZero(field(instr, 16, 5))
rnValue(instr)      == valueOrZero(field(instr, 5, 5))
mFlag(instr)        == getBit(instr, 28)

(* Bits 3 and 0 of opr: arithmetic rather than logic, and complement op2.  *)
isArithmetic(opr) == opr >= 8
isNegated(opr)    == opr % 2 = 1

-----------------------------------------------------------------------------
(* The second operand.  Shift type 3 rotates in the logical instructions   *)
(* and does not shift in the arithmetic ones.                              *)
regShift(opr, sf, shamt, rm) ==
  LET shiftType == (opr \div 2) % 4
      op2 == CASE shiftType = 0 -> logicalLeft(rm, sf, shamt)
               [] shiftType = 1 -> logicalRight(rm, sf, shamt)
               [] shiftType = 2 -> arithmeticRight(rm, sf, shamt)
               [] OTHER         -> IF isArithmetic(opr)
                                     THEN rm ELSE rotateRight(rm, sf, shamt)
  IN  IF isNegated(opr) THEN Complement(op2) ELSE op2

(* Mutant of sumOrDifference: the W form is not narrowed.                  *)
sumOrDifferenceWide(sf, isSub, r1, r2) ==
  IF isSub THEN Minus(r1, r2) ELSE Plus(r1, r2)

(* addOrSubtract: the operands are not narrowed for the 32-bit form, only  *)
(* the result is.                                                          *)
sumOrDifference(sf, isSub, r1, r2) ==
  LET output == IF isSub THEN Minus(r1, r2) ELSE Plus(r1, r2)
  IN  IF sf THEN output ELSE LowBits(output, WLEN)

registerFlags(sf, isSub, r1, r2) ==
  LET output == sumOrDifference(sf, isSub, r1, r2)
      m   == getBit(r1, MSB(sf))
      n   == getBit(r2, MSB(sf))
      out == getBit(output, MSB(sf))
  IN  [neg      |-> out,
       zero     |-> output = {},
       carry    |-> IF isSub THEN ~UnsignedLess(r1, r2)
                             ELSE ((m \/ n) /\ ~out) \/ (m /\ n /\ out),
       overflow |-> IF isSub THEN m # n /\ n = out
                             ELSE m = n /\ m # out]

(* Destination 31 is the stack pointer in every instruction of this file.  *)
writeResult(rd, output) ==
  IF rd = ZERO
    THEN stackPtr' = output /\ UNCHANGED genRegisters
    ELSE genRegisters' = [genRegisters EXCEPT ![rd] = output] /\ UNCHANGED stackPtr

-----------------------------------------------------------------------------
(* The bits of opc say 'subtract' (bit 1) and 'set the flags' (bit 0).     *)
arithmeticReg(sf, opc, rn, op2, rd) ==
  LET isSub == opc >= 2
  IN  /\ writeResult(rd, sumOrDifference(sf, isSub, rn, op2))
      /\ psregisters' = IF opc % 2 = 1 THEN registerFlags(sf, isSub, rn, op2)
                                       ELSE psregisters

(* ra + rm * rn or ra - rm * rn; bit 5 of the operand field says which.    *)
multiplyReg(sf, operand, rm, rn, rd) ==
  LET isSub == operand >= 32
      ra    == valueOrZero(operand % 32)
  IN  /\ writeResult(rd, sumOrDifference(sf, isSub, ra, Times(rm, rn)))
      /\ UNCHANGED psregisters

bitwiseResult(sf, opc, rn, op2) ==
  LET output == CASE opc = 1 -> rn \cup op2
                  [] opc = 2 -> SymDiff(rn, op2)
                  [] OTHER   -> rn \cap op2
  IN  IF sf THEN output ELSE LowBits(output, WLEN)

logicalReg(sf, opc, rn, op2, rd) ==
  LET output == bitwiseResult(sf, opc, rn, op2)
  IN  /\ writeResult(rd, output)
      /\ psregisters' = IF opc = 3
                          THEN [neg      |-> getBit(output, MSB(sf)),
                                zero     |-> output = {},
                                carry    |-> FALSE,
                                overflow |-> FALSE]
                          ELSE psregisters

-----------------------------------------------------------------------------
isMultiply(instr)      == oprField(instr) = 8 /\ mFlag(instr)
isArithmeticReg(instr) == /\ isArithmetic(oprField(instr))
                          /\ ~isNegated(oprField(instr))
                          /\ ~mFlag(instr)
isLogicalReg(instr)    == ~isArithmetic(oprField(instr)) /\ ~mFlag(instr)

(* Any other encoding is reported on stderr and has no effect.             *)
registerDataProcessing(instr) ==
  LET sf    == sfFlag(instr)
      opc   == opcField(instr)
      opr   == oprField(instr)
      shamt == shiftAmount(instr)
      rm    == rmValue(instr)
      rn    == rnValue(instr)
      rd    == rdField(instr)
      op2   == regShift(opr, sf, shamt, rm)
  IN  \/ isMultiply(instr) /\ multiplyReg(sf, shamt, rm, rn, rd)
      \/ isArithmeticReg(instr) /\ arithmeticReg(sf, opc, rn, op2, rd)
      \/ isLogicalReg(instr) /\ logicalReg(sf, opc, rn, op2, rd)
      \/ /\ ~isMultiply(instr) /\ ~isArithmeticReg(instr) /\ ~isLogicalReg(instr)
         /\ UNCHANGED <<genRegisters, stackPtr, psregisters>>

=============================================================================
