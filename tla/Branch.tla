------------------------------- MODULE Branch -------------------------------
(***************************************************************************)
(* The branch instructions (branch.c).  A handler sets pCounter four bytes *)
(* short of its target, because the run loop adds four after every         *)
(* instruction.                                                            *)
(***************************************************************************)
EXTENDS Data

FOUR == {2}

(* Mutant of byteOffset: the offset is taken for a number of halfwords.    *)
halfwordOffset(simm) == ShiftLeft(simm, 1)

(* A branch offset counts instructions: the byte offset is four times it.  *)
byteOffset(simm) == ShiftLeft(simm, 2)

uncondBranch(simm26) == Plus(pCounter, Minus(byteOffset(simm26), FOUR))

regBranch(xn) == Minus(genRegisters[xn], FOUR)

(* Mutant of conditionHolds: GE looks at N alone.                          *)
conditionHoldsByN(condType) ==
  LET zero == psregisters.zero
      ge   == ~psregisters.neg
  IN  \/ condType = 0  /\ zero
      \/ condType = 1  /\ ~zero
      \/ condType = 10 /\ ge
      \/ condType = 11 /\ ~ge
      \/ condType = 12 /\ ~zero /\ ge
      \/ condType = 13 /\ ~(~zero /\ ge)
      \/ condType = 14

(* The condition codes EQ, NE, GE, LT, GT, LE and AL; every other code     *)
(* never branches.                                                         *)
conditionHolds(condType) ==
  LET zero == psregisters.zero
      ge   == psregisters.neg = psregisters.overflow
  IN  \/ condType = 0  /\ zero
      \/ condType = 1  /\ ~zero
      \/ condType = 10 /\ ge
      \/ condType = 11 /\ ~ge
      \/ condType = 12 /\ ~zero /\ ge
      \/ condType = 13 /\ ~(~zero /\ ge)
      \/ condType = 14

condBranch(simm19, condType) ==
  IF conditionHolds(condType)
    THEN Plus(pCounter, Minus(byteOffset(simm19), FOUR))
    ELSE pCounter

branchType(instr) == field(instr, 30, 2)
branchXn(instr)   == field(instr, 5, 5)
condField(instr)  == field(instr, 0, 4)

(* pCounter when decodeBranchInstruction returns.  Branch type 2 is        *)
(* reported on stderr and has no effect.                                   *)
decodeBranchInstruction(instr) ==
  CASE branchType(instr) = 0 -> uncondBranch(signedMask(instr, 0, 26))
    [] branchType(instr) = 1 -> condBranch(signedMask(instr, 5, 19), condField(instr))
    [] branchType(instr) = 3 -> regBranch(branchXn(instr))
    [] OTHER                 -> pCounter

(* A branch to register 31 reads past the end of genRegisters.             *)
branchOutOfBounds(instr) ==
  branchType(instr) = 3 /\ branchXn(instr) \notin Registers

=============================================================================
