----------------------------- MODULE LowHalves ------------------------------
(***************************************************************************)
(* The emulator as an observer of the W registers sees it.  The handlers   *)
(* of 32-bit instructions compute in 64-bit variables from whole registers *)
(* and narrow the result at the end; what they compute must not depend on  *)
(* the halves they are not about.                                          *)
(***************************************************************************)
EXTENDS Emulator

LowHalf(word) == LowBits(word, WLEN)

lowRegisters == [r \in Registers |-> LowHalf(genRegisters[r])]

(* The same machine with the upper halves of the registers cleared; in the *)
(* second one the carry flag always is c, whatever an instruction makes it.*)
Low == INSTANCE Emulator WITH genRegisters <- lowRegisters, stackPtr <- LowHalf(stackPtr)

LowButCarry(c) ==
  INSTANCE Emulator WITH genRegisters <- lowRegisters, stackPtr <- LowHalf(stackPtr),
                         psregisters <- [psregisters EXCEPT !.carry = c]

(* subs, cmp and negs on registers: their carry does compare whole         *)
(* registers (register_data_proc.c:114).                                   *)
comparesWholeRegisters ==
  /\ classOf(instruction) = "register"
  /\ isArithmeticReg(instruction)
  /\ opcField(instruction) = 3

(* What a 32-bit data processing instruction does to the low halves of the *)
(* registers and to the flags is what it does on a machine whose upper     *)
(* halves are clear: no shift, sum, product or flag of a W form lets a bit *)
(* of an upper half through, but for the carry of a subtraction.           *)
UpperHalvesInvisible ==
  [][isNarrowProcessing =>
       IF comparesWholeRegisters THEN \E c \in BOOLEAN : LowButCarry(c)!Next
                                 ELSE Low!Next]_vars

=============================================================================
