--------------------------- MODULE EmulatorProofs ---------------------------
(***************************************************************************)
(* Proofs of the emulator's safety properties, for every memory size and   *)
(* every program image.                                                    *)
(***************************************************************************)
EXTENDS Emulator, WordProofs

(* A register field names an element of genRegisters or is 31.             *)
LEMMA RegisterField ==
  ASSUME NEW instr, NEW start PROVE field(instr, start, 5) \in 0 .. 31
<1>1. bitMask(instr, start, 5) \subseteq 0 .. 4
  BY BitMaskBits, RegisterWidthAssumption
<1>2. QED
  BY <1>1, FieldValueOfFive DEF field

LEMMA OperandIsWord ==
  ASSUME TypeOK, NEW instr, NEW start
  PROVE  valueOrZero(field(instr, start, 5)) \in Word
<1>1. CASE field(instr, start, 5) = ZERO
  BY <1>1 DEF valueOrZero, Word
<1>2. CASE field(instr, start, 5) # ZERO
  <2>1. field(instr, start, 5) \in Registers
    BY <1>2, RegisterField DEF Registers, NUM_REGISTERS, ZERO
  <2>2. QED
    BY <1>2, <2>1 DEF valueOrZero, TypeOK
<1>3. QED
  BY <1>1, <1>2

-----------------------------------------------------------------------------
(* What the handlers compute.                                              *)
LEMMA RegShiftIsWord ==
  ASSUME NEW opr, NEW sf, NEW shamt, NEW rm \in Word
  PROVE  regShift(opr, sf, shamt, rm) \in Word
BY LogicalLeftIsWord, LogicalRightIsWord, ArithmeticRightIsWord,
   RotateRightIsWord, ComplementIsWord, Zenon DEF regShift

LEMMA BitwiseResultIsWord ==
  ASSUME NEW sf, NEW opc, NEW rn \in Word, NEW op2 \in Word
  PROVE  bitwiseResult(sf, opc, rn, op2) \in Word
<1>1. rn \cup op2 \in Word /\ SymDiff(rn, op2) \in Word /\ rn \cap op2 \in Word
  BY UnionIsWord, SymDiffIsWord DEF Word
<1>2. QED
  BY <1>1, LowBitsIsWord, Zenon DEF bitwiseResult

LEMMA SumOrDifferenceIsWord ==
  ASSUME NEW sf, NEW isSub, NEW r1, NEW r2
  PROVE  sumOrDifference(sf, isSub, r1, r2) \in Word
BY PlusIsWord, MinusIsWord, LowBitsIsWord DEF sumOrDifference

LEMMA ImmediateResultIsWord ==
  ASSUME NEW sf, NEW isSub, NEW rnVal, NEW op2
  PROVE  immediateResult(sf, isSub, rnVal, op2) \in Word
BY PlusIsWord, MinusIsWord, LowBitsIsWord DEF immediateResult

LEMMA WideMoveResultIsWord ==
  ASSUME NEW sf, NEW opc, NEW operand, NEW rdVal \in Word
  PROVE  wideMoveResult(sf, opc, operand, rdVal) \in Word
<1> DEFINE shift  == 16 * field(operand, 16, 2)
           op2    == ShiftLeft(bitMask(operand, 0, 16), shift)
           rd     == IF sf THEN rdVal ELSE LowBits(rdVal, WLEN)
           merged == (rd \ ShiftLeft(0 .. 15, shift)) \cup op2
           result == CASE opc = 0 -> Complement(op2)
                       [] opc = 2 -> op2
                       [] opc = 3 -> merged
                       [] OTHER   -> {}
<1>1. op2 \in Word
  BY ShiftLeftIsWord
<1>2. merged \in Word
  BY <1>1, LowBitsIsWord DEF Word
<1>3. {} \in Word
  BY DEF Word
<1>4. result \in Word
  <2> HIDE DEF op2, merged
  <2> QED BY <1>1, <1>2, <1>3, ComplementIsWord, Zenon
<1>5. wideMoveResult(sf, opc, operand, rdVal)
        = IF sf THEN result ELSE LowBits(result, WLEN)
  BY Zenon DEF wideMoveResult
<1> HIDE DEF result
<1>6. QED
  BY <1>4, <1>5, LowBitsIsWord

(* Every flag is a truth value.                                            *)
LEMMA FlagRecord ==
  ASSUME NEW n \in BOOLEAN, NEW z \in BOOLEAN, NEW c \in BOOLEAN, NEW v \in BOOLEAN
  PROVE  [neg |-> n, zero |-> z, carry |-> c, overflow |-> v] \in PSTATE
BY DEF PSTATE

LEMMA BitIsBoolean == ASSUME NEW a, NEW i PROVE getBit(a, i) \in BOOLEAN
BY DEF getBit

LEMMA ImmediateFlagsType ==
  ASSUME NEW sf, NEW isSub, NEW rnVal, NEW op2
  PROVE  immediateFlags(sf, isSub, rnVal, op2) \in PSTATE
<1> DEFINE result == immediateResult(sf, isSub, rnVal, op2)
<1>1. getBit(result, MSB(sf)) \in BOOLEAN
  BY BitIsBoolean
<1>2. immediateCarry(sf, isSub, rnVal, op2) \in BOOLEAN
  BY Zenon DEF immediateCarry, SignedLess, UnsignedLess
<1>3. immediateOverflow(sf, isSub, rnVal, op2, result) \in BOOLEAN
  BY Zenon DEF immediateOverflow
<1>4. (result = {}) \in BOOLEAN
  OBVIOUS
<1>5. QED
  BY <1>1, <1>2, <1>3, <1>4, FlagRecord, Zenon DEF immediateFlags

LEMMA RegisterFlagsType ==
  ASSUME NEW sf, NEW isSub, NEW r1, NEW r2
  PROVE  registerFlags(sf, isSub, r1, r2) \in PSTATE
<1> DEFINE output == sumOrDifference(sf, isSub, r1, r2)
           m   == getBit(r1, MSB(sf))
           n   == getBit(r2, MSB(sf))
           out == getBit(output, MSB(sf))
           carry == IF isSub THEN ~UnsignedLess(r1, r2)
                             ELSE ((m \/ n) /\ ~out) \/ (m /\ n /\ out)
           overflow == IF isSub THEN m # n /\ n = out ELSE m = n /\ m # out
<1>1. out \in BOOLEAN
  BY BitIsBoolean
<1>2. carry \in BOOLEAN
  BY Zenon DEF UnsignedLess
<1>3. overflow \in BOOLEAN
  OBVIOUS
<1>4. (output = {}) \in BOOLEAN
  OBVIOUS
<1>5. QED
  BY <1>1, <1>2, <1>3, <1>4, FlagRecord, Zenon DEF registerFlags

(* A byte of a doubleword.                                                 *)
LEMMA ByteIsByte ==
  ASSUME NEW data, NEW i PROVE getByteFromLong(data, i) \subseteq 0 .. 7
BY DEF getByteFromLong

LEMMA ByteIndexRange == ASSUME NEW address PROVE ByteIndex(address) \in 0 .. 7
<1>1. LowBits(address, 3) \subseteq 0 .. 2
  BY DEF LowBits
<1>2. QED
  BY <1>1, FieldValueOfThree DEF ByteIndex

LEMMA LoadedBitsIsWord ==
  ASSUME NEW address, NEW sizeFlag PROVE loadedBits(address, sizeFlag) \in Word
<1>1. ASSUME NEW i \in accessBytes(sizeFlag),
             NEW j \in getByteFromMemory(byteAddress(address, i))
      PROVE  8 * i + j \in Bits
  <2>1. i \in 0 .. 7
    BY DEF accessBytes
  <2>2. j \in 0 .. 7
    BY ByteIsByte DEF getByteFromMemory
  <2>3. QED
    BY <2>1, <2>2, RegisterWidthAssumption DEF Bits
<1>2. QED
  BY <1>1 DEF loadedBits, Word

LEMMA LoadIsRegisterFile ==
  ASSUME NEW registers \in [Registers -> Word], NEW rt \in Registers,
         NEW address, NEW sizeFlag
  PROVE  load(registers, rt, address, sizeFlag) \in [Registers -> Word]
<1> DEFINE kept == {b \in registers[rt] : b \div 8 \notin accessBytes(sizeFlag)}
<1>1. kept \in Word
  BY DEF Word
<1>2. kept \cup loadedBits(address, sizeFlag) \in Word
  BY <1>1, LoadedBitsIsWord, UnionIsWord
<1>3. QED
  BY <1>2 DEF load

LEMMA StoreIsMemory ==
  ASSUME TypeOK, NEW registers, NEW rt, NEW address, NEW sizeFlag
  PROVE  store(registers, rt, address, sizeFlag) \in [Longs -> Word]
<1> DEFINE destinations == {destination(address, i) : i \in accessBytes(sizeFlag)}
           here(k) == {d \in destinations : d.long = k}
           new(k)  == {b \in memory[k] : \A d \in here(k) : b \div 8 # d.byte}
                        \cup UNION {{8 * d.byte + j :
                               j \in getByteFromLong(registers[rt], d.i)} : d \in here(k)}
<1>1. ASSUME NEW k \in Longs, NEW d \in here(k),
             NEW j \in getByteFromLong(registers[rt], d.i)
      PROVE  8 * d.byte + j \in Bits
  <2>1. d.byte \in 0 .. 7
    BY ByteIndexRange DEF destination
  <2>2. j \in 0 .. 7
    BY ByteIsByte
  <2>3. QED
    BY <2>1, <2>2, RegisterWidthAssumption DEF Bits
<1>2. ASSUME NEW k \in Longs PROVE new(k) \in Word
  <2>1. memory[k] \subseteq Bits
    BY DEF TypeOK, Word
  <2> HIDE DEF here
  <2>2. QED
    BY <1>1, <2>1 DEF Word
<1>3. store(registers, rt, address, sizeFlag) = [k \in Longs |-> new(k)]
  BY DEF store
<1> HIDE DEF new
<1>4. QED
  BY <1>2, <1>3

-----------------------------------------------------------------------------
(* Type correctness, one lemma for each kind of step.                      *)
LEMMA ContinueType ==
  ASSUME TypeOK, NEW nextPC, Continue(nextPC)
  PROVE  pCounter' \in Word /\ HALTED' \in BOOLEAN /\ undefined' \in BOOLEAN
BY PlusIsWord DEF Continue, TypeOK

LEMMA ImmediateType ==
  ASSUME TypeOK, ExecuteImmediate PROVE TypeOK'
<1> DEFINE instr == instruction
           sf == sfFlag(instr)
           opc == opcField(instr)
           operand == operandField(instr)
           rd == rdField(instr)
           rnVal == immediateRn(sf, operand)
           op2 == immediateOperand(operand)
           result == immediateResult(sf, opc >= 2, rnVal, op2)
<1> USE DEF ExecuteImmediate, TypeOK
<1>1. pCounter' \in Word /\ HALTED' \in BOOLEAN /\ undefined' \in BOOLEAN
  BY ContinueType
<1>2. memory' = memory
  OBVIOUS
<1>3. CASE wide_move(sf, opc, operand, rd)
  <2>1. wideMoveResult(sf, opc, operand, genRegisters[rd]) \in Word
    BY <1>3, WideMoveResultIsWord DEF wide_move
  <2>2. genRegisters' \in [Registers -> Word]
    BY <1>3, <2>1 DEF wide_move
  <2>3. QED
    BY <1>1, <1>2, <1>3, <2>2 DEF wide_move
<1>4. CASE arithmetic_imm(sf, opc, operand, rd)
  <2>1. result \in Word
    BY ImmediateResultIsWord
  <2>2. genRegisters' \in [Registers -> Word] /\ stackPtr' \in Word
    BY <1>4, <2>1 DEF arithmetic_imm
  <2>3. immediateFlags(sf, opc >= 2, rnVal, op2) \in PSTATE
    BY ImmediateFlagsType
  <2>4. psregisters' \in PSTATE
    BY <1>4, <2>3 DEF arithmetic_imm
  <2>5. QED
    BY <1>1, <1>2, <2>2, <2>4
<1>5. CASE UNCHANGED <<genRegisters, stackPtr, psregisters>>
  BY <1>1, <1>2, <1>5
<1>6. QED
  BY <1>3, <1>4, <1>5 DEF immediate_data_processing

LEMMA WriteResultType ==
  ASSUME TypeOK, NEW rd, NEW output \in Word, writeResult(rd, output)
  PROVE  genRegisters' \in [Registers -> Word] /\ stackPtr' \in Word
BY DEF writeResult, TypeOK

LEMMA RegisterType ==
  ASSUME TypeOK, ExecuteRegister PROVE TypeOK'
<1> DEFINE instr == instruction
           sf == sfFlag(instr)
           opc == opcField(instr)
           opr == oprField(instr)
           shamt == shiftAmount(instr)
           rm == rmValue(instr)
           rn == rnValue(instr)
           rd == rdField(instr)
           op2 == regShift(opr, sf, shamt, rm)
<1> USE DEF ExecuteRegister
<1>1. pCounter' \in Word /\ HALTED' \in BOOLEAN /\ undefined' \in BOOLEAN
  BY ContinueType
<1>2. memory' \in [Longs -> Word]
  BY DEF TypeOK
<1>3. rm \in Word /\ rn \in Word /\ op2 \in Word
  BY OperandIsWord, RegShiftIsWord DEF rmValue, rnValue
<1>4. psregisters \in PSTATE
  BY DEF TypeOK
<1>5. CASE multiplyReg(sf, shamt, rm, rn, rd)
  <2>1. genRegisters' \in [Registers -> Word] /\ stackPtr' \in Word
    BY <1>5, WriteResultType, SumOrDifferenceIsWord DEF multiplyReg
  <2>2. QED
    BY <1>1, <1>2, <1>4, <1>5, <2>1 DEF multiplyReg, TypeOK
<1>6. CASE arithmeticReg(sf, opc, rn, op2, rd)
  <2>1. genRegisters' \in [Registers -> Word] /\ stackPtr' \in Word
    BY <1>6, WriteResultType, SumOrDifferenceIsWord DEF arithmeticReg
  <2>2. registerFlags(sf, opc >= 2, rn, op2) \in PSTATE
    BY RegisterFlagsType
  <2>3. psregisters' \in PSTATE
    BY <1>4, <1>6, <2>2 DEF arithmeticReg
  <2>4. QED
    BY <1>1, <1>2, <2>1, <2>3 DEF TypeOK
<1>7. CASE logicalReg(sf, opc, rn, op2, rd)
  <2>1. genRegisters' \in [Registers -> Word] /\ stackPtr' \in Word
    BY <1>3, <1>7, WriteResultType, BitwiseResultIsWord DEF logicalReg
  <2>2. psregisters' \in PSTATE
    BY <1>4, <1>7 DEF logicalReg, getBit, PSTATE
  <2>3. QED
    BY <1>1, <1>2, <2>1, <2>2 DEF TypeOK
<1>8. CASE UNCHANGED <<genRegisters, stackPtr, psregisters>>
  BY <1>1, <1>2, <1>8 DEF TypeOK
<1>9. QED
  BY <1>5, <1>6, <1>7, <1>8 DEF registerDataProcessing

LEMMA TransferType ==
  ASSUME TypeOK, ExecuteTransfer PROVE TypeOK'
<1> DEFINE instr == instruction
           rt == rtIndexOf(instr)
<1> USE DEF ExecuteTransfer
<1>1. /\ pCounter' \in Word /\ HALTED' \in BOOLEAN /\ undefined' \in BOOLEAN
      /\ stackPtr' \in Word /\ psregisters' \in PSTATE
  BY ContinueType DEF TypeOK
<1>2. rt \in Registers
  BY DEF transferInBounds, registersUsed
<1>3. PICK address \in {transferAddress(instr)}, registers \in {registersAfterIndexing(instr)} :
        \/ /\ isLoad(instr)
           /\ genRegisters' = load(registers, rt, address, sizeFlagOf(instr))
           /\ UNCHANGED memory
        \/ /\ ~isLoad(instr)
           /\ genRegisters' = registers
           /\ memory' = store(registers, rt, address, sizeFlagOf(instr))
  BY Zenon DEF decodeSingleDataTransferInstruction
<1>4. registers \in [Registers -> Word]
  BY PlusIsWord DEF registersAfterIndexing, indexedBase, TypeOK
<1>5. genRegisters' \in [Registers -> Word]
  BY <1>2, <1>3, <1>4, LoadIsRegisterFile
<1>6. memory' \in [Longs -> Word]
  BY <1>3, StoreIsMemory DEF TypeOK
<1>7. QED
  BY <1>1, <1>5, <1>6 DEF TypeOK

(* Every iteration of the run loop leaves a machine state.                 *)
LEMMA TypeKept == TypeOK /\ [Next]_vars => TypeOK'
<1> SUFFICES ASSUME TypeOK, [Next]_vars PROVE TypeOK'
  OBVIOUS
<1>1. CASE Halt
  BY <1>1 DEF Halt, TypeOK
<1>2. CASE Skip
  BY <1>2, ContinueType DEF Skip, TypeOK
<1>3. CASE ExecuteImmediate
  BY <1>3, ImmediateType
<1>4. CASE ExecuteRegister
  BY <1>4, RegisterType
<1>5. CASE ExecuteTransfer
  BY <1>5, TransferType
<1>6. CASE ExecuteBranch
  BY <1>6, ContinueType DEF ExecuteBranch, TypeOK
<1>7. CASE AccessOutOfBounds
  BY <1>7 DEF AccessOutOfBounds, TypeOK
<1>8. CASE Stopped
  BY <1>8 DEF Stopped, vars, TypeOK
<1>9. CASE UNCHANGED vars
  BY <1>9 DEF vars, TypeOK
<1>10. QED
  BY <1>1, <1>2, <1>3, <1>4, <1>5, <1>6, <1>7, <1>8, <1>9 DEF Next

(* Theorem: from any program image, the emulator's global state is always  *)
(* a machine state (data.h): 31 registers and a memory of 64-bit words.    *)
THEOREM TypeCorrect == Spec => []TypeOK
<1>1. Init => TypeOK
  <2>1. {} \in Word
    BY DEF Word
  <2>2. Init => psregisters \in PSTATE
    BY FlagRecord DEF Init, initialise_registers
  <2>3. Init => memory \in [Longs -> Word]
    BY ImageAssumption DEF Init
  <2>4. QED
    BY <2>1, <2>2, <2>3 DEF Init, initialise_registers, TypeOK
<1>2. QED
  BY <1>1, TypeKept, PTL DEF Spec

-----------------------------------------------------------------------------
(* A result is not zero when one of its bits, the sign, is 1; so both      *)
(* handlers that set flags set exclusive ones.                             *)
LEMMA FlagsOfOneResult ==
  /\ \A sf, isSub, rnVal, op2 :
        LET flags == immediateFlags(sf, isSub, rnVal, op2)
        IN  ~(flags.neg /\ flags.zero)
  /\ \A sf, isSub, r1, r2 :
        LET flags == registerFlags(sf, isSub, r1, r2)
        IN  ~(flags.neg /\ flags.zero)
<1>1. ASSUME NEW sf, NEW isSub, NEW rnVal, NEW op2
      PROVE  ~(immediateFlags(sf, isSub, rnVal, op2).neg
                 /\ immediateFlags(sf, isSub, rnVal, op2).zero)
  BY DEF immediateFlags, getBit
<1>2. ASSUME NEW sf, NEW isSub, NEW r1, NEW r2
      PROVE  ~(registerFlags(sf, isSub, r1, r2).neg
                 /\ registerFlags(sf, isSub, r1, r2).zero)
  BY DEF registerFlags, getBit
<1>3. QED
  BY <1>1, <1>2

(* Theorem: N and Z are never both set, so that no comparison satisfies    *)
(* both GT and LE (branch.c).                                              *)
THEOREM FlagsStayExclusive == Spec => []FlagsExclusive
<1>1. Init => FlagsExclusive
  BY DEF Init, initialise_registers, FlagsExclusive
<1>2. FlagsExclusive /\ [Next]_vars => FlagsExclusive'
  <2> SUFFICES ASSUME FlagsExclusive, [Next]_vars PROVE FlagsExclusive'
    OBVIOUS
  <2> DEFINE sf == sfFlag(instruction)
             opc == opcField(instruction)
             operand == operandField(instruction)
             rd == rdField(instruction)
             shamt == shiftAmount(instruction)
             rn == rnValue(instruction)
             rm == rmValue(instruction)
             op2 == regShift(oprField(instruction), sf, shamt, rm)
  <2>1. CASE UNCHANGED psregisters
    BY <2>1 DEF FlagsExclusive
  <2>2. CASE ExecuteImmediate
    <3>1. CASE arithmetic_imm(sf, opc, operand, rd)
      BY <3>1, FlagsOfOneResult DEF arithmetic_imm, FlagsExclusive
    <3>2. CASE wide_move(sf, opc, operand, rd)
      BY <3>2, <2>1 DEF wide_move
    <3>3. QED
      BY <2>1, <2>2, <3>1, <3>2 DEF ExecuteImmediate, immediate_data_processing
  <2>3. CASE ExecuteRegister
    <3>1. CASE arithmeticReg(sf, opc, rn, op2, rd)
      BY <3>1, FlagsOfOneResult DEF arithmeticReg, FlagsExclusive
    <3>2. CASE logicalReg(sf, opc, rn, op2, rd)
      BY <3>2 DEF logicalReg, getBit, FlagsExclusive
    <3>3. CASE multiplyReg(sf, shamt, rm, rn, rd)
      BY <3>3, <2>1 DEF multiplyReg
    <3>4. QED
      BY <2>1, <2>3, <3>1, <3>2, <3>3 DEF ExecuteRegister, registerDataProcessing
  <2>4. QED
    BY <2>1, <2>2, <2>3
       DEF Next, Halt, Skip, ExecuteTransfer, ExecuteBranch, AccessOutOfBounds, Stopped, vars
<1>3. QED
  BY <1>1, <1>2, PTL DEF Spec

-----------------------------------------------------------------------------
LEMMA HaltClass ==
  ASSUME classOf(instruction) = "halt" PROVE instruction = HALT
<1>1. patternClass(instruction) # "halt"
  BY Zenon DEF patternClass
<1>2. QED
  BY <1>1 DEF classOf

(* Theorem: a halted machine is at a HALT instruction, which is what the   *)
(* printed PC stands for (runEmulator in emulate.c).                       *)
THEOREM HaltsAtHalt == Spec => []HaltedAtHalt
<1>1. Init => HaltedAtHalt
  BY DEF Init, initialise_registers, HaltedAtHalt
<1>2. HaltedAtHalt /\ [Next]_vars => HaltedAtHalt'
  <2> SUFFICES ASSUME HaltedAtHalt, [Next]_vars PROVE HaltedAtHalt'
    OBVIOUS
  <2>1. CASE UNCHANGED <<memory, pCounter>> /\ FetchInMemory /\ instruction = HALT
    BY <2>1 DEF HaltedAtHalt, FetchInMemory, instruction
  <2>2. CASE UNCHANGED vars
    BY <2>2 DEF vars, HaltedAtHalt, FetchInMemory, instruction
  <2>3. CASE Halt
    BY <2>1, <2>3, HaltClass DEF Halt, Executing
  <2>4. CASE ~HALTED /\ UNCHANGED HALTED
    BY <2>4 DEF HaltedAtHalt
  <2>5. QED
    BY <2>2, <2>3, <2>4
       DEF Next, Skip, ExecuteImmediate, ExecuteRegister, ExecuteTransfer,
           ExecuteBranch, Executing, Continue, AccessOutOfBounds, Stopped
<1>3. QED
  BY <1>1, <1>2, PTL DEF Spec

-----------------------------------------------------------------------------
(* Sums and differences of multiples of four are multiples of four: no     *)
(* carry enters the two lowest bits.                                       *)
LEMMA PlusAligned ==
  ASSUME NEW a \in Word, NEW b \in Word, Aligned(a), Aligned(b)
  PROVE  Aligned(Plus(a, b))
<1>1. ASSUME NEW i \in Plus(a, b) PROVE (i \in SymDiff(a, b)) # CarryInto(i, a, b)
  BY <1>1 DEF Plus
<1>2. ASSUME NEW i \in {0, 1}
      PROVE  CarryInto(i, a, b) = FALSE /\ (i \in SymDiff(a, b)) = FALSE
  BY <1>2 DEF CarryInto, SymDiff, Aligned, Word, Bits
<1>3. QED
  BY <1>1, <1>2 DEF Aligned

LEMMA MinusAligned ==
  ASSUME NEW a \in Word, NEW b \in Word, Aligned(a), Aligned(b)
  PROVE  Aligned(Minus(a, b))
<1>1. ASSUME NEW i \in Minus(a, b) PROVE (i \in SymDiff(a, b)) # BorrowInto(i, a, b)
  BY <1>1 DEF Minus
<1>2. ASSUME NEW i \in {0, 1}
      PROVE  BorrowInto(i, a, b) = FALSE /\ (i \in SymDiff(a, b)) = FALSE
  BY <1>2 DEF BorrowInto, SymDiff, Aligned, Word, Bits
<1>3. QED
  BY <1>1, <1>2 DEF Aligned

LEMMA FourAligned == FOUR \in Word /\ Aligned(FOUR)
BY RegisterWidthAssumption DEF FOUR, Word, Bits, Aligned

(* A branch offset counts instructions.                                    *)
LEMMA SignedMaskNat ==
  ASSUME NEW instr, NEW start, NEW num \in Nat
  PROVE  signedMask(instr, start, num) \subseteq Nat
<1>1. ASSUME NEW a, NEW n \in Nat PROVE SignExtend(a, n) \subseteq Nat
  BY <1>1, RegisterWidthAssumption DEF SignExtend, LowBits
<1>2. bitMask(instr, start, num) \subseteq Nat
  BY <1>1, RegisterWidthAssumption DEF bitMask
<1>3. QED
  BY <1>1, <1>2 DEF signedMask

LEMMA OffsetAligned ==
  ASSUME NEW simm, simm \subseteq Nat
  PROVE  byteOffset(simm) \in Word /\ Aligned(byteOffset(simm))
<1>1. byteOffset(simm) \in Word
  BY ShiftLeftIsWord DEF byteOffset
<1>2. QED
  BY <1>1 DEF byteOffset, ShiftLeft, Aligned

LEMMA BranchAligned ==
  ASSUME NEW instr, pCounter \in Word, Aligned(pCounter), branchType(instr) # 3
  PROVE  /\ decodeBranchInstruction(instr) \in Word
         /\ Aligned(decodeBranchInstruction(instr))
<1> DEFINE target(simm) == Plus(pCounter, Minus(byteOffset(simm), FOUR))
<1>1. ASSUME NEW simm, simm \subseteq Nat
      PROVE  target(simm) \in Word /\ Aligned(target(simm))
  BY <1>1, OffsetAligned, FourAligned, MinusAligned, MinusIsWord, PlusAligned, PlusIsWord
<1>2. /\ uncondBranch(signedMask(instr, 0, 26)) \in Word
      /\ Aligned(uncondBranch(signedMask(instr, 0, 26)))
  BY <1>1, SignedMaskNat DEF uncondBranch
<1>3. ASSUME NEW cond
      PROVE  /\ condBranch(signedMask(instr, 5, 19), cond) \in Word
             /\ Aligned(condBranch(signedMask(instr, 5, 19), cond))
  BY <1>1, SignedMaskNat DEF condBranch
<1>4. QED
  BY <1>2, <1>3, Zenon DEF decodeBranchInstruction

LEMMA ContinueAligned ==
  ASSUME NEW nextPC \in Word, Aligned(nextPC), Continue(nextPC)
  PROVE  Aligned(pCounter')
BY PlusAligned, FourAligned DEF Continue

(* Theorem: only a register branch takes pCounter off a 4-byte boundary.   *)
THEOREM AlignmentKept == Spec => BranchesKeepAlignment
<1>1. TypeOK /\ [Next]_vars
        => [Aligned(pCounter) /\ ~isRegisterBranch => Aligned(pCounter')]_vars
  <2> SUFFICES ASSUME TypeOK, Next, Aligned(pCounter), ~isRegisterBranch
               PROVE  Aligned(pCounter')
    OBVIOUS
  <2>1. pCounter \in Word
    BY DEF TypeOK
  <2>2. CASE UNCHANGED pCounter
    BY <2>2
  <2>3. CASE Continue(pCounter)
    BY <2>1, <2>3, ContinueAligned
  <2>4. CASE ExecuteBranch
    <3>1. branchType(instruction) # 3
      BY <2>4 DEF ExecuteBranch, Executing, isRegisterBranch
    <3>2. QED
      BY <2>1, <2>4, <3>1, BranchAligned, ContinueAligned DEF ExecuteBranch
  <2>5. QED
    BY <2>2, <2>3, <2>4
       DEF Next, Halt, Skip, ExecuteImmediate, ExecuteRegister, ExecuteTransfer,
           AccessOutOfBounds, Stopped, vars
<1>2. QED
  BY <1>1, TypeCorrect, PTL DEF Spec, BranchesKeepAlignment

-----------------------------------------------------------------------------
(* Theorem: the W form of a data processing instruction leaves nothing in  *)
(* the upper half of the register it changes.                              *)
THEOREM NarrowResults == Spec => NarrowResultsAreClean
<1>1. TypeOK /\ [Next]_vars
        => [isNarrowProcessing =>
              \A r \in Registers : \/ genRegisters'[r] = genRegisters[r]
                                    \/ genRegisters'[r] \subseteq 0 .. WLEN - 1]_vars
  <2> DEFINE narrow(r) == \/ genRegisters'[r] = genRegisters[r]
                          \/ genRegisters'[r] \subseteq 0 .. WLEN - 1
  <2> SUFFICES ASSUME TypeOK, Next, isNarrowProcessing, NEW r \in Registers
               PROVE  narrow(r)
    OBVIOUS
  <2> DEFINE opc == opcField(instruction)
             operand == operandField(instruction)
             rd == rdField(instruction)
             shamt == shiftAmount(instruction)
             rn == rnValue(instruction)
             rm == rmValue(instruction)
             op2 == regShift(oprField(instruction), FALSE, shamt, rm)
  <2>1. sfFlag(instruction) = FALSE
    BY DEF isNarrowProcessing, sfFlag
  <2>2. ASSUME NEW output, output \subseteq 0 .. WLEN - 1, NEW i,
               genRegisters' = [genRegisters EXCEPT ![i] = output]
        PROVE  narrow(r)
    BY <2>2 DEF TypeOK
  <2>3. CASE UNCHANGED genRegisters
    BY <2>3
  <2>4. CASE ExecuteImmediate
    <3>1. CASE arithmetic_imm(FALSE, opc, operand, rd)
      BY <2>2, <3>1, LowBitsIsNarrow DEF arithmetic_imm, immediateResult
    <3>2. CASE wide_move(FALSE, opc, operand, rd)
      <4>1. wideMoveResult(FALSE, opc, operand, genRegisters[rd]) \subseteq 0 .. WLEN - 1
        BY LowBitsIsNarrow, Zenon DEF wideMoveResult
      <4>2. QED
        BY <2>2, <3>2, <4>1 DEF wide_move
    <3>3. QED
      BY <2>1, <2>3, <2>4, <3>1, <3>2 DEF ExecuteImmediate, immediate_data_processing
  <2>5. CASE ExecuteRegister
    <3>1. ASSUME NEW output, output \subseteq 0 .. WLEN - 1, writeResult(rd, output)
          PROVE  narrow(r)
      BY <2>2, <3>1 DEF writeResult
    <3>2. CASE arithmeticReg(FALSE, opc, rn, op2, rd)
      BY <3>1, <3>2, LowBitsIsNarrow DEF arithmeticReg, sumOrDifference
    <3>3. CASE multiplyReg(FALSE, shamt, rm, rn, rd)
      BY <3>1, <3>3, LowBitsIsNarrow DEF multiplyReg, sumOrDifference
    <3>4. CASE logicalReg(FALSE, opc, rn, op2, rd)
      <4>1. bitwiseResult(FALSE, opc, rn, op2) \subseteq 0 .. WLEN - 1
        BY LowBitsIsNarrow, Zenon DEF bitwiseResult
      <4>2. QED
        BY <3>1, <3>4, <4>1 DEF logicalReg
    <3>5. QED
      BY <2>1, <2>3, <2>5, <3>2, <3>3, <3>4 DEF ExecuteRegister, registerDataProcessing
  <2>6. ~ExecuteTransfer
    BY DEF isNarrowProcessing, ExecuteTransfer, Executing
  <2>7. QED
    BY <2>3, <2>4, <2>5, <2>6
       DEF Next, Halt, Skip, ExecuteBranch, AccessOutOfBounds, Stopped, vars
<1>2. QED
  BY <1>1, TypeCorrect, PTL DEF Spec, NarrowResultsAreClean

-----------------------------------------------------------------------------
(* The powers of two that an address is made of.                           *)
LEMMA SmallPowers ==
  /\ PowersDouble(35)
  /\ 2 ^ 0 = 1 /\ 2 ^ 1 = 2 /\ 2 ^ 2 = 4 /\ 2 ^ 3 = 8 /\ 2 ^ 33 = 8589934592
  /\ 2 ^ 35 = 34359738368
BY PowersUpTo35

(* A doubleword is at least eight bytes of address.                        *)
LEMMA PowersFrom3 == \A n \in 3 .. 35 : 2 ^ n >= 8
<1> DEFINE T == {n \in Nat : n <= 32 => (2 ^ (n + 3) \in Nat /\ 2 ^ (n + 3) >= 8)}
<1>1. 0 \in T
  BY SmallPowers
<1>2. ASSUME NEW n \in Nat, n \in T PROVE n + 1 \in T
  <2>1. CASE n + 1 <= 32
    <3>1. n + 3 \in 0 .. 34 /\ (n + 1) + 3 = (n + 3) + 1
      BY <2>1
    <3>2. 2 ^ ((n + 3) + 1) = 2 * 2 ^ (n + 3)
      <4> DEFINE k == n + 3
      <4>1. k \in 0 .. 35 - 1
        BY <3>1
      <4>2. \A j \in 0 .. 35 - 1 : 2 ^ (j + 1) = 2 * 2 ^ j
        BY PowersUpTo35 DEF PowersDouble
      <4> HIDE DEF k
      <4>3. 2 ^ (k + 1) = 2 * 2 ^ k
        BY <4>1, <4>2, Zenon
      <4>4. QED
        BY <4>3 DEF k
    <3>3. 2 ^ (n + 3) \in Nat /\ 2 ^ (n + 3) >= 8
      BY <1>2, <2>1
    <3>4. QED
      BY <3>1, <3>2, <3>3
  <2>2. QED
    BY <2>1
<1>3. \A n \in Nat : n \in T
  <2> HIDE DEF T
  <2> QED BY <1>1, <1>2, SetInduction
<1>4. ASSUME NEW n \in 3 .. 35 PROVE 2 ^ n >= 8
  <2>1. n - 3 \in Nat /\ n - 3 <= 32 /\ (n - 3) + 3 = n
    OBVIOUS
  <2>2. 2 ^ ((n - 3) + 3) >= 8
    BY <1>3, <2>1
  <2>3. QED
    BY <2>1, <2>2
<1>5. QED
  BY <1>4

(* The number that a field of three bits holds.                            *)
LEMMA FieldValueOfThreeBits ==
  ASSUME NEW a PROVE ToNat(LowBits(a, 3)) = FieldValue(LowBits(a, 3))
<1> DEFINE v(n) == ToNat(LowBits(a, n))
<1>1. v(0) = 0
  BY LowBitsNone
<1>2. \A n \in 0 .. 2 : v(n + 1) = v(n) + IF n \in a THEN 2 ^ n ELSE 0
  BY PowersUpTo35, LowBitsStep
<1> HIDE DEF v
<1>3. v(0 + 1) = v(0) + (IF 0 \in a THEN 2 ^ 0 ELSE 0)
  BY <1>2
<1>4. v(1 + 1) = v(1) + (IF 1 \in a THEN 2 ^ 1 ELSE 0)
  BY <1>2
<1>5. v(2 + 1) = v(2) + (IF 2 \in a THEN 2 ^ 2 ELSE 0)
  BY <1>2
<1>6. v(3) = (IF 0 \in a THEN 1 ELSE 0) + (IF 1 \in a THEN 2 ELSE 0)
               + (IF 2 \in a THEN 4 ELSE 0)
  BY <1>1, <1>3, <1>4, <1>5, SmallPowers
<1>7. FieldValue(LowBits(a, 3)) = (IF 0 \in a THEN 1 ELSE 0) + (IF 1 \in a THEN 2 ELSE 0)
                                    + (IF 2 \in a THEN 4 ELSE 0)
  BY DEF FieldValue, LowBits
<1>8. QED
  BY <1>6, <1>7 DEF v

(* A number below eight is at most three bits.                             *)
LEMMA SmallNumberBits ==
  ASSUME NEW i \in 0 .. 7
  PROVE  /\ FromInt(i) \in Word
         /\ ToNat(LowBits(FromInt(i), 35)) = i
<1> DEFINE x == FromInt(i)
           v(n) == ToNat(LowBits(x, n))
<1>1. x \subseteq Bits /\ 63 \in Nat /\ Bits = 0 .. 63
  BY RegisterWidthAssumption DEF FromInt, Bits
<1>2. \A j \in 3 .. 63 : j \notin x
  <2>1. ASSUME NEW j \in 3 .. 30 PROVE j \notin x
    <3>1. 2 ^ j \in Nat /\ 2 ^ j >= 8
      <4>1. j \in 3 .. 35 /\ j \in 0 .. 35
        OBVIOUS
      <4>2. \A k \in 0 .. 35 : 2 ^ k \in Nat
        BY PowersUpTo35, PowersType
      <4>3. QED
        BY <4>1, <4>2, PowersFrom3, Zenon
    <3>2. i \div 2 ^ j = 0
      <4> DEFINE w == 2 ^ j
      <4>1. w \in Nat /\ w >= 8
        BY <3>1
      <4> HIDE DEF w
      <4>2. i \div w = 0
        BY <4>1
      <4>3. QED
        BY <4>2 DEF w
    <3>3. 0 % 2 # 1 /\ j < 31
      OBVIOUS
    <3>4. (i \div 2 ^ j) % 2 # 1
      BY <3>2, <3>3, Zenon
    <3>5. QED
      BY <3>3, <3>4, Zenon DEF FromInt
  <2>2. ASSUME NEW j \in 31 .. 63 PROVE j \notin x
    BY DEF FromInt
  <2>3. QED
    BY <2>1, <2>2
<1>3. /\ 0 \in x <=> i % 2 = 1
      /\ 1 \in x <=> (i \div 2) % 2 = 1
      /\ 2 \in x <=> (i \div 4) % 2 = 1
  <2>1. ASSUME NEW j \in 0 .. 2 PROVE j \in x <=> (i \div 2 ^ j) % 2 = 1
    BY <1>1 DEF FromInt
  <2>2. (i \div 1) = i
    OBVIOUS
  <2>3. QED
    BY <2>1, <2>2, SmallPowers
<1>4. LowBits(x, 35) = LowBits(x, 3)
  BY <1>1, <1>2 DEF LowBits
<1>5. v(3) = FieldValue(LowBits(x, 3))
  BY FieldValueOfThreeBits
<1>6. FieldValue(LowBits(x, 3)) = i
  <2>1. FieldValue(LowBits(x, 3)) = (IF 0 \in x THEN 1 ELSE 0) + (IF 1 \in x THEN 2 ELSE 0)
                                      + (IF 2 \in x THEN 4 ELSE 0)
    BY DEF FieldValue, LowBits
  <2>2. QED
    BY <1>3, <2>1
<1>7. QED
  BY <1>1, <1>4, <1>5, <1>6 DEF Word

(* An address is eight times its doubleword and its byte in it.            *)
LEMMA LongAndByte ==
  ASSUME NEW x \in Word
  PROVE  /\ ToNat(LowBits(x, 35)) = 8 * ToNat(LongIndex(x)) + ByteIndex(x)
         /\ ToNat(LongIndex(x)) \in Nat
<1> DEFINE q == UnsignedShiftRight(x, 3)
           vx(n) == ToNat(LowBits(x, n))
           vq(n) == ToNat(LowBits(q, n))
           T == {n \in Nat : vx(n + 3) = 8 * vq(n) + vx(3)}
<1>1. \A n \in 0 .. 31 : n \in q <=> n + 3 \in x
  <2>1. x \subseteq 0 .. 63 /\ Bits = 0 .. 63
    BY RegisterWidthAssumption DEF Word, Bits
  <2>2. QED
    BY <2>1 DEF UnsignedShiftRight
<1>2. 0 \in T
  <2>1. vq(0) = 0
    BY LowBitsNone
  <2>2. vx(3) \in Nat
    BY PowersUpTo35, LowBitsBound
  <2> HIDE DEF vx, vq
  <2>3. vx(0 + 3) = 8 * vq(0) + vx(3)
    BY <2>1, <2>2
  <2>4. QED
    BY <2>3
<1>3. ASSUME NEW n \in 0 .. 31, n \in T PROVE n + 1 \in T
  <2> DEFINE w == 2 ^ n
             w3 == 2 ^ (n + 3)
             inx == n + 3 \in x
             inq == n \in q
  <2>1. /\ vx(n + 3) \in Nat
        /\ vx((n + 3) + 1) = vx(n + 3) + (IF inx THEN w3 ELSE 0)
    <3>1. n + 3 \in 0 .. 35 - 1
      OBVIOUS
    <3>2. QED
      BY <3>1, PowersUpTo35, LowBitsStep
  <2>2. vq(n) \in Nat /\ vq(n + 1) = vq(n) + (IF inq THEN w ELSE 0)
    <3>1. n \in 0 .. 35 - 1
      OBVIOUS
    <3>2. QED
      BY <3>1, PowersUpTo35, LowBitsStep
  <2>3. w3 = 8 * w /\ w \in Nat
    <3>1. n \in 0 .. 34 /\ n + 1 \in 0 .. 34 /\ n + 2 \in 0 .. 34
      OBVIOUS
    <3>2. 2 ^ (n + 1) = 2 * 2 ^ n /\ 2 ^ ((n + 1) + 1) = 2 * 2 ^ (n + 1)
            /\ 2 ^ ((n + 2) + 1) = 2 * 2 ^ (n + 2)
      <4>1. \A m \in 0 .. 34 : 2 ^ (m + 1) = 2 * 2 ^ m
        <5>1. 35 - 1 = 34
          OBVIOUS
        <5>2. \A m \in 0 .. 35 - 1 : 2 ^ (m + 1) = 2 * 2 ^ m
          BY PowersUpTo35, Zenon DEF PowersDouble
        <5>3. QED
          BY <5>1, <5>2, Zenon
      <4>2. QED
        BY <3>1, <4>1, Zenon
    <3>3. (n + 1) + 1 = n + 2 /\ (n + 2) + 1 = n + 3
      OBVIOUS
    <3>4. 2 ^ n \in Nat
      BY PowersUpTo35, PowersType
    <3>5. QED
      BY <3>2, <3>3, <3>4
  <2>4. inx <=> inq
    BY <1>1
  <2>5. vx(n + 3) = 8 * vq(n) + vx(3)
    BY <1>3
  <2>6. vx(3) \in Nat
    BY PowersUpTo35, LowBitsBound
  <2>7. (n + 3) + 1 = (n + 1) + 3
    OBVIOUS
  <2>8. vx((n + 1) + 3) = vx(n + 3) + (IF inx THEN w3 ELSE 0)
    BY <2>1, <2>7
  <2> HIDE DEF vx, vq, w, w3, inx, inq
  <2>9. vx((n + 1) + 3) = 8 * vq(n + 1) + vx(3)
    BY <2>1, <2>2, <2>3, <2>4, <2>5, <2>6, <2>8
  <2>10. QED
    BY <2>9
<1>4. \A n \in 0 .. 32 : n \in T
  <2> HIDE DEF T
  <2> QED BY <1>2, <1>3, BoundedInduction
<1>5. vx(32 + 3) = 8 * vq(32) + vx(3)
  BY <1>4
<1>6. vx(3) = ByteIndex(x)
  BY FieldValueOfThreeBits DEF ByteIndex
<1>7. vq(32) = ToNat(LongIndex(x)) /\ vq(32) \in Nat
  BY PowersUpTo35, LowBitsBound DEF LongIndex
<1>8. QED
  BY <1>5, <1>6, <1>7

(* The sum with the word of the number zero.                               *)
LEMMA PlusZero == ASSUME NEW a \in Word PROVE Plus(a, FromInt(0)) = a
<1>1. FromInt(0) = {}
  <2>1. ASSUME NEW j \in Bits PROVE j \notin FromInt(0)
    <3>1. CASE j < 31
      <4>1. j \in 0 .. 35
        BY <3>1 DEF Bits
      <4> DEFINE w == 2 ^ j
      <4>2. w \in Nat \ {0}
        BY <4>1, PowersUpTo35, PowersType
      <4> HIDE DEF w
      <4>3. (0 \div w) % 2 = 0
        BY <4>2
      <4>4. QED
        BY <3>1, <4>3 DEF FromInt, w
    <3>2. CASE ~(j < 31)
      BY <3>2 DEF FromInt
    <3>3. QED
      BY <3>1, <3>2
  <2>2. FromInt(0) \subseteq Bits
    BY DEF FromInt
  <2>3. QED
    BY <2>1, <2>2
<1>2. ASSUME NEW n \in Bits PROVE n \in Plus(a, {}) <=> n \in a
  <2>1. ~CarryInto(n, a, {})
    BY DEF CarryInto
  <2> DEFINE sum == n \in Plus(a, {})
             ina == n \in a
             none == n \in {}
             carry == CarryInto(n, a, {})
  <2>2. sum <=> ((ina # none) # carry)
    BY PlusBit
  <2>3. carry = FALSE /\ none = FALSE /\ ina \in BOOLEAN
    BY <2>1 DEF CarryInto
  <2> HIDE DEF sum, ina, none, carry
  <2>4. sum <=> ina
    BY <2>2, <2>3
  <2>5. QED
    BY <2>4 DEF sum, ina
<1>3. Plus(a, {}) \subseteq Bits /\ a \subseteq Bits
  BY PlusIsWord DEF Word
<1>4. QED
  BY <1>1, <1>2, <1>3

(* The addresses of the bytes of an access follow each other.              *)
LEMMA BytesFollow ==
  ASSUME NEW address \in Word, LongIndex(address) \subseteq 0 .. 29, NEW i \in 0 .. 7
  PROVE  ToNat(LowBits(byteAddress(address, i), 35)) = ToNat(LowBits(address, 35)) + i
<1> DEFINE step == FromInt(i)
           va == ToNat(LowBits(address, 35))
           vs == ToNat(LowBits(Plus(address, step), 35))
           carry == CarryInto(35, address, step)
           w == 2 ^ 35
<1>1. step \in Word /\ ToNat(LowBits(step, 35)) = i
  BY SmallNumberBits
<1>2. vs + (IF carry THEN w ELSE 0) = va + i
  <2>1. 35 \in 0 .. XLEN /\ 35 \in 0 .. 35
    BY RegisterWidthAssumption
  <2>2. vs + (IF carry THEN w ELSE 0) = va + ToNat(LowBits(step, 35))
    BY <1>1, <2>1, PlusAdds, PowersUpTo35
  <2>3. QED
    BY <1>1, <2>2
<1>3. va < 2 ^ 33
  <2>1. 33 \notin address /\ 34 \notin address
    <3>1. \A n \in 0 .. 31 : n + 3 \in address => n \in LongIndex(address)
      <4>1. address \subseteq 0 .. 63 /\ Bits = 0 .. 63
        BY RegisterWidthAssumption DEF Word, Bits
      <4>2. QED
        BY <4>1 DEF LongIndex, LowBits, UnsignedShiftRight
    <3>2. 30 \notin LongIndex(address) /\ 31 \notin LongIndex(address)
      OBVIOUS
    <3>3. QED
      BY <3>1, <3>2
  <2>2. LowBits(address, 35) = LowBits(address, 33)
    BY <2>1 DEF LowBits
  <2> DEFINE p(n) == 2 ^ n
  <2>3. \A n \in 0 .. 35 : ToNat(LowBits(address, n)) < p(n)
    BY PowersUpTo35, LowBitsBound
  <2> HIDE DEF p
  <2>4. va < p(33)
    BY <2>2, <2>3
  <2>5. QED
    BY <2>4 DEF p
<1>4. va \in Nat /\ vs \in Nat
  BY PowersUpTo35, LowBitsBound
<1>5. w = 34359738368 /\ 2 ^ 33 = 8589934592
  BY SmallPowers
<1> HIDE DEF va, vs, carry, w, step
<1>6. vs = va + i
  BY <1>2, <1>3, <1>4, <1>5
<1>7. QED
  BY <1>6 DEF va, vs, byteAddress, step

(* Where byte i of an access is.                                           *)
LEMMA ByteIsThere ==
  ASSUME NEW address \in Word, NEW sizeFlag, NEW i \in accessBytes(sizeFlag),
         \A k \in accessBytes(sizeFlag) : inMemory(byteAddress(address, k))
  PROVE  LET x == byteAddress(address, i)
         IN  /\ ToNat(LongIndex(x)) \in Longs /\ ByteIndex(x) \in 0 .. 7
             /\ 8 * ToNat(LongIndex(x)) + ByteIndex(x) = ToNat(LowBits(address, 35)) + i
<1> DEFINE x == byteAddress(address, i)
<1>1. 0 \in accessBytes(sizeFlag) /\ i \in 0 .. 7
  BY DEF accessBytes
<1>2. LongIndex(address) \subseteq 0 .. 29
  <2>1. byteAddress(address, 0) = address
    BY PlusZero DEF byteAddress
  <2>2. QED
    BY <1>1, <2>1 DEF inMemory
<1>3. x \in Word
  BY PlusIsWord DEF byteAddress
<1>4. ToNat(LongIndex(x)) \in Longs /\ ByteIndex(x) \in 0 .. 7
  BY ByteIndexRange DEF inMemory
<1>5. QED
  BY <1>1, <1>2, <1>3, <1>4, BytesFollow, LongAndByte

(* Where bit k of an access is in the memory.                              *)
LEMMA BitIsThere ==
  ASSUME NEW address \in Word, NEW sizeFlag,
         \A i \in accessBytes(sizeFlag) : inMemory(byteAddress(address, i)),
         NEW k \in 0 .. (IF sizeFlag THEN XLEN ELSE WLEN) - 1
  PROVE  LET i == k \div 8
             x == byteAddress(address, i)
             n == 8 * ToNat(LowBits(address, 35)) + k
         IN  /\ i \in accessBytes(sizeFlag) /\ k % 8 \in 0 .. 7 /\ 8 * i + (k % 8) = k
             /\ n \div XLEN = ToNat(LongIndex(x)) /\ n % XLEN = 8 * ByteIndex(x) + (k % 8)
<1> DEFINE i == k \div 8
           j == k % 8
           x == byteAddress(address, i)
           long == ToNat(LongIndex(x))
           byte == ByteIndex(x)
           first == ToNat(LowBits(address, 35))
<1>1. i \in accessBytes(sizeFlag) /\ j \in 0 .. 7 /\ 8 * i + j = k /\ i \in Nat
  BY RegisterWidthAssumption DEF accessBytes
<1>2. long \in Nat /\ byte \in 0 .. 7 /\ 8 * long + byte = first + i
  BY <1>1, ByteIsThere DEF Longs
<1>3. first \in Nat
  BY PowersUpTo35, LowBitsBound
<1> HIDE DEF i, j, long, byte, first
<1>4. 8 * first + k = 64 * long + (8 * byte + j)
  BY <1>1, <1>2, <1>3
<1>5. 8 * byte + j \in 0 .. 63
  BY <1>1, <1>2
<1>6. (8 * first + k) \div 64 = long /\ (8 * first + k) % 64 = 8 * byte + j
  BY <1>2, <1>4, <1>5
<1>7. QED
  BY <1>1, <1>6, RegisterWidthAssumption DEF i, j, long, byte, first

(* What a load reads is what the bytes hold, lowest first.                 *)
LEMMA LoadAgrees ==
  ASSUME NEW registers \in [Registers -> Word], NEW rt \in Registers,
         NEW address \in Word, NEW sizeFlag,
         \A i \in accessBytes(sizeFlag) : inMemory(byteAddress(address, i)),
         NEW k \in 0 .. (IF sizeFlag THEN XLEN ELSE WLEN) - 1
  PROVE  (k \in load(registers, rt, address, sizeFlag)[rt])
           = MemoryBit(memory, 8 * ToNat(LowBits(address, 35)) + k)
<1> DEFINE i == k \div 8
           j == k % 8
           x == byteAddress(address, i)
           long == ToNat(LongIndex(x))
           byte == ByteIndex(x)
           n == 8 * ToNat(LowBits(address, 35)) + k
           loaded == load(registers, rt, address, sizeFlag)[rt]
           kept == {b \in registers[rt] : b \div 8 \notin accessBytes(sizeFlag)}
<1>1. /\ i \in accessBytes(sizeFlag) /\ j \in 0 .. 7 /\ 8 * i + j = k
      /\ n \div XLEN = long /\ n % XLEN = 8 * byte + j
  BY BitIsThere
<1>2. loaded = kept \cup loadedBits(address, sizeFlag)
  BY DEF load
<1>3. k \notin kept
  BY <1>1
<1>4. k \in loadedBits(address, sizeFlag) <=> j \in getByteFromMemory(x)
  <2>1. ASSUME NEW m \in accessBytes(sizeFlag), NEW l \in getByteFromMemory(byteAddress(address, m)),
               k = 8 * m + l
        PROVE  m = i /\ l = j
    <3>1. m \in 0 .. 7 /\ l \in 0 .. 7
      BY ByteIsByte DEF accessBytes, getByteFromMemory
    <3>2. QED
      BY <2>1, <3>1
  <2>2. k \in loadedBits(address, sizeFlag)
          <=> \E m \in accessBytes(sizeFlag) : \E l \in getByteFromMemory(byteAddress(address, m)) :
                k = 8 * m + l
    BY DEF loadedBits
  <2> HIDE DEF i, j
  <2>3. QED
    BY <1>1, <2>1, <2>2
<1>5. j \in getByteFromMemory(x) <=> 8 * byte + j \in memory[long]
  BY <1>1 DEF getByteFromMemory, getByteFromLong
<1>6. MemoryBit(memory, n) <=> 8 * byte + j \in memory[long]
  BY <1>1 DEF MemoryBit
<1>7. MemoryBit(memory, n) \in BOOLEAN
  BY DEF MemoryBit
<1> HIDE DEF i, j, x, long, byte, n, loaded, kept
<1>8. (k \in loaded) = MemoryBit(memory, n)
  BY <1>2, <1>3, <1>4, <1>5, <1>6, <1>7
<1>9. QED
  BY <1>8 DEF loaded, n

(* What a store writes into one element of the memory.                     *)
LEMMA StoredBit ==
  ASSUME NEW registers, NEW rt, NEW address, NEW sizeFlag, NEW long \in Longs, NEW b
  PROVE  b \in store(registers, rt, address, sizeFlag)[long]
           <=> \/ /\ b \in memory[long]
                  /\ \A i \in accessBytes(sizeFlag) :
                       ToNat(LongIndex(byteAddress(address, i))) = long
                         => b \div 8 # ByteIndex(byteAddress(address, i))
               \/ \E i \in accessBytes(sizeFlag) :
                    /\ ToNat(LongIndex(byteAddress(address, i))) = long
                    /\ \E j \in 0 .. 7 : /\ 8 * i + j \in registers[rt]
                                         /\ b = 8 * ByteIndex(byteAddress(address, i)) + j
<1> DEFINE destinations == {destination(address, i) : i \in accessBytes(sizeFlag)}
           here == {d \in destinations : d.long = long}
           kept == {c \in memory[long] : \A d \in here : c \div 8 # d.byte}
           bits(d) == {8 * d.byte + j : j \in getByteFromLong(registers[rt], d.i)}
<1>1. store(registers, rt, address, sizeFlag)[long]
        = kept \cup UNION {bits(d) : d \in here}
  BY DEF store
<1>2. \A i : /\ destination(address, i).i = i
             /\ destination(address, i).long = ToNat(LongIndex(byteAddress(address, i)))
             /\ destination(address, i).byte = ByteIndex(byteAddress(address, i))
  BY DEF destination
<1>3. \A d : d \in here <=> \E i \in accessBytes(sizeFlag) :
                              /\ d = destination(address, i)
                              /\ ToNat(LongIndex(byteAddress(address, i))) = long
  BY <1>2
<1>4. b \in kept <=> /\ b \in memory[long]
                     /\ \A i \in accessBytes(sizeFlag) :
                          ToNat(LongIndex(byteAddress(address, i))) = long
                            => b \div 8 # ByteIndex(byteAddress(address, i))
  <2> HIDE DEF here
  <2> QED BY <1>2, <1>3
<1>5. b \in UNION {bits(d) : d \in here} <=> \E d \in here : b \in bits(d)
  <2> HIDE DEF here, bits
  <2> QED OBVIOUS
<1>6. \A i : b \in bits(destination(address, i))
               <=> \E j \in 0 .. 7 : /\ 8 * i + j \in registers[rt]
                                     /\ b = 8 * ByteIndex(byteAddress(address, i)) + j
  BY <1>2 DEF getByteFromLong
<1> HIDE DEF here, kept, bits
<1>7. QED
  BY <1>1, <1>3, <1>4, <1>5, <1>6

(* The bytes that a store reaches hold the bytes of its register.          *)
LEMMA StoreAgrees ==
  ASSUME NEW registers \in [Registers -> Word], NEW rt \in Registers,
         NEW address \in Word, NEW sizeFlag,
         \A i \in accessBytes(sizeFlag) : inMemory(byteAddress(address, i)),
         NEW k \in 0 .. (IF sizeFlag THEN XLEN ELSE WLEN) - 1
  PROVE  (k \in registers[rt])
           = MemoryBit(store(registers, rt, address, sizeFlag),
                       8 * ToNat(LowBits(address, 35)) + k)
<1> DEFINE i == k \div 8
           j == k % 8
           long(m) == ToNat(LongIndex(byteAddress(address, m)))
           byte(m) == ByteIndex(byteAddress(address, m))
           first == ToNat(LowBits(address, 35))
           n == 8 * ToNat(LowBits(address, 35)) + k
           stored == store(registers, rt, address, sizeFlag)
           bytes == accessBytes(sizeFlag)
<1>1. /\ i \in bytes /\ j \in 0 .. 7 /\ 8 * i + j = k
      /\ n \div XLEN = long(i) /\ n % XLEN = 8 * byte(i) + j
  BY BitIsThere
<1>2. \A m \in bytes : /\ long(m) \in Longs /\ byte(m) \in 0 .. 7
                       /\ 8 * long(m) + byte(m) = first + m /\ m \in Nat
  BY ByteIsThere DEF accessBytes
<1>3. first \in Nat
  BY PowersUpTo35, LowBitsBound
<1>4. 8 * byte(i) + j \in stored[long(i)]
        <=> \/ /\ 8 * byte(i) + j \in memory[long(i)]
               /\ \A m \in bytes : long(m) = long(i) => (8 * byte(i) + j) \div 8 # byte(m)
            \/ \E m \in bytes :
                 /\ long(m) = long(i)
                 /\ \E l \in 0 .. 7 : /\ 8 * m + l \in registers[rt]
                                      /\ 8 * byte(i) + j = 8 * byte(m) + l
  <2>1. long(i) \in Longs
    BY <1>1, <1>2
  <2>2. QED
    BY <2>1, StoredBit
<1>5. MemoryBit(stored, n) = (8 * byte(i) + j \in stored[long(i)])
  BY <1>1 DEF MemoryBit
<1> HIDE DEF i, j, long, byte, first, n, stored, bytes
<1>6. (8 * byte(i) + j) \div 8 = byte(i)
  BY <1>1, <1>2
<1>7. ASSUME NEW m \in bytes, long(m) = long(i), NEW l \in 0 .. 7,
             8 * byte(i) + j = 8 * byte(m) + l
      PROVE  m = i /\ l = j
  <2>1. byte(m) = byte(i) /\ l = j
    BY <1>1, <1>2, <1>7
  <2>2. first + m = first + i
    BY <1>1, <1>2, <1>7, <2>1
  <2>3. m \in Nat /\ i \in Nat
    BY <1>1, <1>2
  <2>4. m = i
    BY <1>3, <2>2, <2>3
  <2>5. QED
    BY <2>1, <2>4
<1>8. 8 * byte(i) + j \in stored[long(i)] <=> k \in registers[rt]
  BY <1>1, <1>4, <1>6, <1>7
<1>9. QED
  BY <1>5, <1>8 DEF n, stored

(* The bytes that a store does not reach keep their values.                *)
LEMMA StoreKeeps ==
  ASSUME NEW registers, NEW rt, NEW address \in Word, NEW sizeFlag,
         \A i \in accessBytes(sizeFlag) : inMemory(byteAddress(address, i)),
         NEW first, first = 8 * ToNat(LowBits(address, 35)),
         NEW n \in MemoryBits \ (first .. first + (IF sizeFlag THEN XLEN ELSE WLEN) - 1)
  PROVE  MemoryBit(store(registers, rt, address, sizeFlag), n) = MemoryBit(memory, n)
<1> DEFINE long(m) == ToNat(LongIndex(byteAddress(address, m)))
           byte(m) == ByteIndex(byteAddress(address, m))
           start == ToNat(LowBits(address, 35))
           stored == store(registers, rt, address, sizeFlag)
           bytes == accessBytes(sizeFlag)
           last == IF sizeFlag THEN 7 ELSE 3
           k == n \div 64
           b == n % 64
<1>1. \A m \in bytes : /\ long(m) \in Longs /\ byte(m) \in 0 .. 7
                       /\ 8 * long(m) + byte(m) = start + m /\ m \in 0 .. last
  BY ByteIsThere DEF accessBytes
<1>2. start \in Nat /\ last \in {3, 7}
  BY PowersUpTo35, LowBitsBound
<1>3. n \in 0 .. 64 * MEMORY_SIZE - 1 /\ n \notin first .. first + 8 * last + 7
  BY RegisterWidthAssumption DEF MemoryBits
<1>4. k \in Longs /\ b \in 0 .. 63 /\ n = 64 * k + b
  BY <1>3, MemoryAssumption DEF Longs
<1>5. b \in stored[k]
        <=> \/ /\ b \in memory[k]
               /\ \A m \in bytes : long(m) = k => b \div 8 # byte(m)
            \/ \E m \in bytes :
                 /\ long(m) = k
                 /\ \E l \in 0 .. 7 : 8 * m + l \in registers[rt] /\ b = 8 * byte(m) + l
  BY <1>4, StoredBit
<1>6. MemoryBit(stored, n) = (b \in stored[k]) /\ MemoryBit(memory, n) = (b \in memory[k])
  BY RegisterWidthAssumption DEF MemoryBit
<1>7. first = 8 * start
  OBVIOUS
<1> HIDE DEF long, byte, start, stored, bytes, last, k, b
<1>8. ASSUME NEW m \in bytes, long(m) = k, NEW l \in 0 .. 7, b = 8 * byte(m) + l PROVE FALSE
  <2>1. n = 64 * long(m) + 8 * byte(m) + l /\ 8 * long(m) + byte(m) = start + m
        /\ byte(m) \in 0 .. 7 /\ m \in 0 .. last /\ long(m) \in Nat
    BY <1>1, <1>4, <1>8 DEF Longs
  <2>2. n = 8 * (start + m) + l
    BY <2>1, <1>2
  <2>3. QED
    BY <1>2, <1>3, <1>7, <2>1, <2>2
<1>9. ASSUME NEW m \in bytes, long(m) = k, b \div 8 = byte(m) PROVE FALSE
  <2>1. b % 8 \in 0 .. 7 /\ b = 8 * byte(m) + (b % 8)
    BY <1>4, <1>9
  <2>2. QED
    BY <1>8, <1>9, <2>1
<1>10. b \in stored[k] <=> b \in memory[k]
  BY <1>5, <1>8, <1>9
<1>11. QED
  BY <1>6, <1>10 DEF stored

(* Every address that a transfer computes is a word.                       *)
LEMMA AddressIsWord ==
  ASSUME TypeOK, NEW instr, registersUsed(instr) \subseteq Registers
  PROVE  transferAddress(instr) \in Word
<1> DEFINE xn == genRegisters[xnIndexOf(instr)]
<1>1. CASE isLiteral(instr)
  <2>1. \A a, b : Plus(a, b) \in Word
    BY PlusIsWord
  <2>2. ~isUnsignedOffset(instr) /\ ~isRegisterOffset(instr) /\ ~isPreIndexed(instr)
    BY <1>1, Zenon DEF isUnsignedOffset, isRegisterOffset, isPreIndexed, isIndexed
  <2>3. QED
    BY <1>1, <2>1, <2>2, Zenon DEF transferAddress
<1>2. CASE ~isLiteral(instr)
  <2>1. xn \in Word
    BY <1>2 DEF registersUsed, TypeOK
  <2>2. \A a, b : Plus(a, b) \in Word
    BY PlusIsWord
  <2>3. QED
    BY <1>2, <2>1, <2>2, Zenon DEF transferAddress, indexedBase
<1>3. QED
  BY <1>1, <1>2

(* A load changes only the bytes it reads.                                 *)
LEMMA LoadKeeps ==
  ASSUME NEW registers \in [Registers -> Word], NEW rt \in Registers, NEW address, NEW sizeFlag,
         NEW width, width = IF sizeFlag THEN XLEN ELSE WLEN
  PROVE  /\ load(registers, rt, address, sizeFlag)[rt] \ (0 .. width - 1)
              = registers[rt] \ (0 .. width - 1)
         /\ \A r \in Registers \ {rt} : load(registers, rt, address, sizeFlag)[r] = registers[r]
<1> DEFINE kept == {b \in registers[rt] : b \div 8 \notin accessBytes(sizeFlag)}
<1>1. load(registers, rt, address, sizeFlag)[rt] = kept \cup loadedBits(address, sizeFlag)
  BY DEF load
<1>2. loadedBits(address, sizeFlag) \subseteq 0 .. width - 1
  <2>1. ASSUME NEW m \in accessBytes(sizeFlag), NEW l \in getByteFromMemory(byteAddress(address, m))
        PROVE  8 * m + l \in 0 .. width - 1
    <3>1. l \in 0 .. 7 /\ m \in 0 .. (IF sizeFlag THEN 7 ELSE 3)
      BY ByteIsByte DEF accessBytes, getByteFromMemory
    <3>2. QED
      BY <3>1, RegisterWidthAssumption
  <2>2. QED
    BY <2>1 DEF loadedBits
<1>3. \A b \in registers[rt] : b \div 8 \notin accessBytes(sizeFlag) <=> b \notin 0 .. width - 1
  <2>1. registers[rt] \subseteq 0 .. 63
    BY RegisterWidthAssumption DEF Word, Bits
  <2>2. \A b \in 0 .. 63 : b \div 8 \notin accessBytes(sizeFlag) <=> b \notin 0 .. width - 1
    BY RegisterWidthAssumption DEF accessBytes
  <2>3. QED
    BY <2>1, <2>2
<1>4. load(registers, rt, address, sizeFlag)[rt] \ (0 .. width - 1)
        = registers[rt] \ (0 .. width - 1)
  BY <1>1, <1>2, <1>3
<1>5. \A r \in Registers \ {rt} : load(registers, rt, address, sizeFlag)[r] = registers[r]
  BY DEF load
<1>6. QED
  BY <1>4, <1>5

(* A transfer that the emulator executes agrees with a memory of bytes,    *)
(* lowest first: a load reads the bytes at its address, a store writes     *)
(* them and no others.                                                     *)
THEOREM TransfersAgree == Spec => TransferAgrees
<1> DEFINE address == transferAddress(instruction)
           size == sizeFlagOf(instruction)
           first == 8 * ToNat(LowBits(address, 35))
           width == IF size THEN XLEN ELSE WLEN
           rt == rtIndexOf(instruction)
           base == IF isIndexed(instruction) THEN {xnIndexOf(instruction)} ELSE {}
           loaded == IF isLoad(instruction) THEN 0 .. width - 1 ELSE {}
           stored == IF isLoad(instruction) THEN {} ELSE first .. first + width - 1
           agrees == \A k \in 0 .. width - 1 :
                       (k \in genRegisters'[rt]) = MemoryBit(memory', first + k)
           keepsMemory == \A n \in MemoryBits \ stored :
                            MemoryBit(memory', n) = MemoryBit(memory, n)
           keepsRegisters == \A r \in Registers \ (base \cup {rt}) :
                               genRegisters'[r] = genRegisters[r]
           keepsRest == rt \in base \/ genRegisters'[rt] \ loaded = genRegisters[rt] \ loaded
<1>1. ASSUME TypeOK, Next, isTransfer
      PROVE  \/ agrees /\ keepsMemory /\ keepsRegisters /\ keepsRest
             \/ UNCHANGED vars
  <2>1. ExecuteTransfer \/ UNCHANGED vars
    BY <1>1
       DEF Next, Halt, Skip, ExecuteImmediate, ExecuteRegister, ExecuteBranch,
           AccessOutOfBounds, Stopped, isTransfer, Executing
  <2>2. CASE ExecuteTransfer
    <3> DEFINE registers == registersAfterIndexing(instruction)
    <3>1. \/ /\ isLoad(instruction)
             /\ genRegisters' = load(registers, rt, address, size)
             /\ memory' = memory
          \/ /\ ~isLoad(instruction)
             /\ genRegisters' = registers
             /\ memory' = store(registers, rt, address, size)
      BY <2>2 DEF ExecuteTransfer, decodeSingleDataTransferInstruction
    <3>2. registers \in [Registers -> Word]
      BY <1>1, PlusIsWord DEF registersAfterIndexing, indexedBase, TypeOK
    <3>3. rt \in Registers /\ \A i \in accessBytes(size) : inMemory(byteAddress(address, i))
      BY <1>1 DEF isTransfer, transferInBounds, registersUsed
    <3>4. address \in Word
      BY <1>1, AddressIsWord DEF isTransfer, transferInBounds
    <3>5. \A r \in Registers \ base : registers[r] = genRegisters[r]
      BY <1>1 DEF registersAfterIndexing, TypeOK
    <3> HIDE DEF registers, address, size, base, rt
    <3>6. CASE isLoad(instruction) /\ memory' = memory
                 /\ genRegisters' = load(registers, rt, address, size)
      <4>1. agrees
        BY <3>2, <3>3, <3>4, <3>6, LoadAgrees DEF MemoryBit
      <4>2. keepsMemory
        BY <3>6 DEF MemoryBit
      <4>3. /\ genRegisters'[rt] \ (0 .. width - 1) = registers[rt] \ (0 .. width - 1)
            /\ \A r \in Registers \ {rt} : genRegisters'[r] = registers[r]
        BY <3>2, <3>3, <3>6, LoadKeeps
      <4>4. loaded = 0 .. width - 1
        BY <3>6
      <4>5. keepsRegisters
        BY <3>5, <4>3
      <4>6. keepsRest
        BY <3>3, <3>5, <4>3, <4>4
      <4>7. QED
        BY <4>1, <4>2, <4>5, <4>6
    <3>7. CASE ~isLoad(instruction) /\ genRegisters' = registers
                 /\ memory' = store(registers, rt, address, size)
      <4>1. agrees
        BY <3>2, <3>3, <3>4, <3>7, StoreAgrees DEF MemoryBit
      <4>2. keepsMemory
        BY <3>3, <3>4, <3>7, StoreKeeps DEF MemoryBit
      <4>3. loaded = {}
        BY <3>7
      <4>4. keepsRegisters
        BY <3>5, <3>7
      <4>5. keepsRest
        BY <3>3, <3>5, <3>7
      <4>6. QED
        BY <4>1, <4>2, <4>4, <4>5
    <3>8. QED
      BY <3>1, <3>6, <3>7
  <2>3. QED
    BY <2>1, <2>2
<1>2. QED
  BY <1>1, TypeCorrect, PTL DEF Spec, TransferAgrees

=============================================================================
