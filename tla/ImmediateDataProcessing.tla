---------------------- MODULE ImmediateDataProcessing -----------------------
(***************************************************************************)
(* Data processing with an immediate operand                               *)
(* (immediate_data_processing.c): add and subtract, and the wide moves.    *)
(* An action of this module says what its C function does to the           *)
(* registers and the flags; Emulator adds what the run loop does.          *)
(***************************************************************************)
EXTENDS Data

operandField(instr)    == bitMask(instr, 5, 18)
isWideMove(instr)      == field(instr, 23, 3) = 5
isArithmeticImm(instr) == field(instr, 23, 3) = 2

-----------------------------------------------------------------------------
(***************************************************************************)
(* arithmetic_imm                                                          *)
(***************************************************************************)
immediateOperand(operand) ==
  LET imm12 == bitMask(operand, 5, 12)
  IN  IF bitMask(operand, 17, 1) # {} THEN ShiftLeft(imm12, 12) ELSE imm12

(* The left operand: register 31 is the stack pointer here.                *)
immediateRn(sf, operand) ==
  LET rn  == field(operand, 0, 5)
      val == IF rn = ZERO THEN stackPtr ELSE genRegisters[rn]
  IN  IF sf THEN val ELSE LowBits(val, WLEN)

immediateResult(sf, isSub, rnVal, op2) ==
  LET result == IF isSub THEN Minus(rnVal, op2) ELSE Plus(rnVal, op2)
  IN  IF sf THEN result ELSE LowBits(result, WLEN)

(* LLONG_MAX and INT_MAX as int64_t values.                                *)
MaxInt(sf) == LowBits(Bits, MSB(sf))

(* The carry flag of an addition is set when a signed comparison says that *)
(* the sum exceeds the largest signed value.                               *)
immediateCarry(sf, isSub, rnVal, op2) ==
  IF isSub THEN ~UnsignedLess(rnVal, op2)
           ELSE SignedLess(Minus(MaxInt(sf), op2), rnVal)

immediateOverflow(sf, isSub, rnVal, op2, result) ==
  LET rnSign  == getBit(rnVal, MSB(sf))
      opSign  == getBit(op2, MSB(sf))
      resSign == getBit(result, MSB(sf))
  IN  IF isSub THEN rnSign # opSign /\ resSign = opSign
               ELSE rnSign = opSign /\ resSign # rnSign

(* Mutant of immediateFlags: Z is set by a zero result and never cleared.  *)
immediateFlagsSticky(sf, isSub, rnVal, op2) ==
  LET result == immediateResult(sf, isSub, rnVal, op2)
  IN  [neg      |-> getBit(result, MSB(sf)),
       zero     |-> result = {} \/ psregisters.zero,
       carry    |-> immediateCarry(sf, isSub, rnVal, op2),
       overflow |-> immediateOverflow(sf, isSub, rnVal, op2, result)]

immediateFlags(sf, isSub, rnVal, op2) ==
  LET result == immediateResult(sf, isSub, rnVal, op2)
  IN  [neg      |-> getBit(result, MSB(sf)),
       zero     |-> result = {},
       carry    |-> immediateCarry(sf, isSub, rnVal, op2),
       overflow |-> immediateOverflow(sf, isSub, rnVal, op2, result)]

(* Destination 31 is the stack pointer, or nothing when the flags are set. *)
arithmetic_imm(sf, opc, operand, rd) ==
  LET setPstate == opc % 2 = 1
      isSub     == opc >= 2
      rnVal     == immediateRn(sf, operand)
      op2       == immediateOperand(operand)
      result    == immediateResult(sf, isSub, rnVal, op2)
  IN  /\ psregisters' = IF setPstate THEN immediateFlags(sf, isSub, rnVal, op2)
                                     ELSE psregisters
      /\ genRegisters' = IF rd = ZERO THEN genRegisters
                                      ELSE [genRegisters EXCEPT ![rd] = result]
      /\ stackPtr' = IF rd = ZERO /\ ~setPstate THEN result ELSE stackPtr

-----------------------------------------------------------------------------
(***************************************************************************)
(* wide_move.  The destination of movn, movz and movk is always an element *)
(* of genRegisters; opc = 1 is not an instruction, and clears it.          *)
(***************************************************************************)
wideMoveResult(sf, opc, operand, rdVal) ==
  LET shift  == 16 * field(operand, 16, 2)
      op2    == ShiftLeft(bitMask(operand, 0, 16), shift)
      result == CASE opc = 0 -> Complement(op2)
                  [] opc = 2 -> op2
                  [] opc = 3 -> ((IF sf THEN rdVal ELSE LowBits(rdVal, WLEN))
                                   \ ShiftLeft(0 .. 15, shift)) \cup op2
                  [] OTHER   -> {}
  IN  IF sf THEN result ELSE LowBits(result, WLEN)

wide_move(sf, opc, operand, rd) ==
  /\ rd \in Registers
  /\ genRegisters' =
       [genRegisters EXCEPT ![rd] = wideMoveResult(sf, opc, operand, @)]
  /\ UNCHANGED <<stackPtr, psregisters>>

-----------------------------------------------------------------------------
(* The immediate form leaves every other value of opi without effect.      *)
immediate_data_processing(instr) ==
  LET sf      == sfFlag(instr)
      opc     == opcField(instr)
      operand == operandField(instr)
      rd      == rdField(instr)
  IN  \/ isWideMove(instr) /\ wide_move(sf, opc, operand, rd)
      \/ isArithmeticImm(instr) /\ arithmetic_imm(sf, opc, operand, rd)
      \/ /\ ~isWideMove(instr) /\ ~isArithmeticImm(instr)
         /\ UNCHANGED <<genRegisters, stackPtr, psregisters>>

(* A wide move to register 31 writes past the end of genRegisters.         *)
immediateOutOfBounds(instr) == isWideMove(instr) /\ rdField(instr) \notin Registers

=============================================================================
