------------------------------ MODULE Emulator ------------------------------
(***************************************************************************)
(* The emulator (emulate.c): a processor of one thread that fetches four   *)
(* bytes at pCounter, hands them to the handler of their instruction       *)
(* class, and adds four to pCounter unless the instruction was HALT.  One  *)
(* step is one iteration of the run loop.                                  *)
(*                                                                         *)
(* Images is the set of memory contents a run may start from: the program  *)
(* file, read to the bottom of a zeroed memory (binaryfilereader.c).       *)
(***************************************************************************)
EXTENDS ImmediateDataProcessing, RegisterDataProcessing, SingleDataTransfer,
        Branch

CONSTANT Images

ASSUME ImageAssumption == Images \subseteq [Longs -> Word]

(* The two encodings runInstruction compares against before it decodes:    *)
(* 0x8A000000 and 0xD503201F.                                              *)
HALT == {31, 27, 25}
NOP  == {31, 30, 28, 26, 24, 17, 16, 13} \cup 0 .. 4

-----------------------------------------------------------------------------
(***************************************************************************)
(* Fetch.  pCounter is signed and nothing keeps it inside the program; a   *)
(* fetch that needs a byte outside memory is undefined.                    *)
(***************************************************************************)
FetchInMemory ==
  pCounter \subseteq 0 .. 29 /\ ToNat(pCounter) + 4 <= 8 * MEMORY_SIZE

instruction ==
  LET start == ToNat(pCounter)
      byteOf(b) == start + (b \div 8)
  IN  {b \in 0 .. 31 : 8 * (byteOf(b) % 8) + (b % 8) \in memory[byteOf(b) \div 8]}

(* The instruction class.  HALT would otherwise be a register instruction   *)
(* and NOP a branch; the tests of the bit patterns exclude one another.    *)
patternClass(instr) ==
  CASE field(instr, 26, 3) = 4          -> "immediate"
    [] field(instr, 26, 3) = 5          -> "branch"
    [] field(instr, 25, 3) = 5          -> "register"
    [] {25, 27} \cap instr = {27}       -> "transfer"
    [] OTHER                            -> "unallocated"

classOf(instr) ==
  IF instr = HALT THEN "halt"
                  ELSE IF instr = NOP THEN "nop" ELSE patternClass(instr)

-----------------------------------------------------------------------------
(* Mutant of loadFileIntoMemory: MEMORY_SIZE is taken for a number of bytes.*)
loadBytesIntoMemory(words) ==
  LET word(i) == IF i \in DOMAIN words /\ 4 * i <= MEMORY_SIZE THEN words[i] ELSE {}
  IN  [k \in Longs |-> word(2 * k + 1) \cup {WLEN + b : b \in word(2 * k + 2)}]

(* The memory after fread has put a file of 4-byte words at its bottom.    *)
(* fread is asked for MEMORY_SIZE of them, which is half of the memory:    *)
(* what a longer file holds behind that is not read.                       *)
loadFileIntoMemory(words) ==
  LET word(i) == IF i \in DOMAIN words /\ i <= MEMORY_SIZE THEN words[i] ELSE {}
  IN  [k \in Longs |-> word(2 * k + 1) \cup {WLEN + b : b \in word(2 * k + 2)}]

initialise_registers ==
  /\ genRegisters = [r \in Registers |-> {}]
  /\ pCounter = {}
  /\ stackPtr = {}
  /\ psregisters = [neg |-> FALSE, zero |-> TRUE, carry |-> FALSE, overflow |-> FALSE]
  /\ HALTED = FALSE
  /\ undefined = FALSE

(* main: the memory is allocated and the program file read into it.        *)
Init == initialise_registers /\ memory \in Images

(* The loop condition, and the fetch of an instruction of this class.      *)
Executing(class) ==
  /\ ~HALTED /\ ~undefined
  /\ FetchInMemory
  /\ classOf(instruction) = class

Continue(nextPC) ==
  /\ pCounter' = Plus(nextPC, FOUR)
  /\ UNCHANGED <<HALTED, undefined>>

(* Mutant of Halt: pCounter moves on after HALT too.                       *)
HaltAndAdvance ==
  /\ Executing("halt")
  /\ HALTED' = TRUE
  /\ pCounter' = Plus(pCounter, FOUR)
  /\ UNCHANGED <<genRegisters, stackPtr, psregisters, memory, undefined>>

Halt ==
  /\ Executing("halt")
  /\ HALTED' = TRUE
  /\ UNCHANGED <<genRegisters, pCounter, stackPtr, psregisters, memory, undefined>>

(* NOP, and every encoding that belongs to no class.                       *)
Skip ==
  /\ Executing("nop") \/ Executing("unallocated")
  /\ Continue(pCounter)
  /\ UNCHANGED <<genRegisters, stackPtr, psregisters, memory>>

ExecuteImmediate ==
  /\ Executing("immediate")
  /\ ~immediateOutOfBounds(instruction)
  /\ immediate_data_processing(instruction)
  /\ Continue(pCounter)
  /\ UNCHANGED memory

ExecuteRegister ==
  /\ Executing("register")
  /\ registerDataProcessing(instruction)
  /\ Continue(pCounter)
  /\ UNCHANGED memory

ExecuteTransfer ==
  /\ Executing("transfer")
  /\ transferInBounds(instruction)
  /\ decodeSingleDataTransferInstruction(instruction)
  /\ Continue(pCounter)
  /\ UNCHANGED <<stackPtr, psregisters>>

ExecuteBranch ==
  /\ Executing("branch")
  /\ ~branchOutOfBounds(instruction)
  /\ Continue(decodeBranchInstruction(instruction))
  /\ UNCHANGED <<genRegisters, stackPtr, psregisters, memory>>

(* The next iteration reads or writes outside an array.                    *)
AccessOutOfBounds ==
  /\ ~HALTED /\ ~undefined
  /\ \/ ~FetchInMemory
     \/ Executing("immediate") /\ immediateOutOfBounds(instruction)
     \/ Executing("transfer") /\ ~transferInBounds(instruction)
     \/ Executing("branch") /\ branchOutOfBounds(instruction)
  /\ undefined' = TRUE
  /\ UNCHANGED <<genRegisters, pCounter, stackPtr, psregisters, memory, HALTED>>

(* The loop has ended: main prints the state and exits.                    *)
Stopped ==
  /\ HALTED \/ undefined
  /\ UNCHANGED vars

Next ==
  \/ Halt
  \/ Skip
  \/ ExecuteImmediate
  \/ ExecuteRegister
  \/ ExecuteTransfer
  \/ ExecuteBranch
  \/ AccessOutOfBounds
  \/ Stopped

(* The loop runs until it ends: nothing else competes for the processor.   *)
Spec == Init /\ [][Next]_vars /\ WF_vars(Next)

-----------------------------------------------------------------------------
(* A result cannot be negative and zero, so that the conditions GT and LE  *)
(* exclude each other: every instruction derives N and Z from the same,    *)
(* already narrowed, result.                                               *)
FlagsExclusive == ~(psregisters.neg /\ psregisters.zero)

(* The state that is printed shows the address of the HALT: the run loop   *)
(* does not move pCounter past it, and the instruction is still in memory. *)
HaltedAtHalt == HALTED => FetchInMemory /\ instruction = HALT

(* No instruction but a register branch takes pCounter off a 4-byte        *)
(* boundary: offsets count instructions, and the four bytes a handler      *)
(* holds back are the four the run loop adds.                              *)
Aligned(address) == address \cap {0, 1} = {}

isRegisterBranch ==
  /\ FetchInMemory
  /\ classOf(instruction) = "branch"
  /\ branchType(instruction) = 3

BranchesKeepAlignment ==
  [][Aligned(pCounter) /\ ~isRegisterBranch => Aligned(pCounter')]_vars

(* The W form of a data processing instruction clears the upper half of    *)
(* the register it changes, whatever its operands held there.              *)
isNarrowProcessing ==
  /\ FetchInMemory
  /\ classOf(instruction) \in {"immediate", "register"}
  /\ ~sfFlag(instruction)

NarrowResultsAreClean ==
  [][isNarrowProcessing =>
       \A r \in Registers : \/ genRegisters'[r] = genRegisters[r]
                             \/ genRegisters'[r] \subseteq 0 .. WLEN - 1]_vars

(* A transfer moves a register's low bytes to or from the bytes that start *)
(* at its address, wherever they lie: after it the two agree, even when    *)
(* the data register is the base that was indexed before the transfer (a   *)
(* store then stores the new base, a load discards it).  Every other byte  *)
(* of memory, every other register, and the upper half of a register that  *)
(* four bytes are loaded into, is what it was.                             *)
isTransfer ==
  /\ FetchInMemory
  /\ classOf(instruction) = "transfer"
  /\ transferInBounds(instruction)

MemoryBits == 0 .. XLEN * MEMORY_SIZE - 1
MemoryBit(mem, n) == n % XLEN \in mem[n \div XLEN]

TransferAgrees ==
  [][isTransfer =>
       LET first   == 8 * ToNat(LowBits(transferAddress(instruction), 35))
           width   == IF sizeFlagOf(instruction) THEN XLEN ELSE WLEN
           rt      == rtIndexOf(instruction)
           base    == IF isIndexed(instruction) THEN {xnIndexOf(instruction)} ELSE {}
           loaded  == IF isLoad(instruction) THEN 0 .. width - 1 ELSE {}
           stored  == IF isLoad(instruction) THEN {} ELSE first .. first + width - 1
       IN  /\ \A k \in 0 .. width - 1 :
                (k \in genRegisters'[rt]) = MemoryBit(memory', first + k)
           /\ \A n \in MemoryBits \ stored : MemoryBit(memory', n) = MemoryBit(memory, n)
           /\ \A r \in Registers \ (base \cup {rt}) : genRegisters'[r] = genRegisters[r]
           /\ rt \in base \/ genRegisters'[rt] \ loaded = genRegisters[rt] \ loaded]_vars

(* "Test for carry & overflow" (immediate_data_processing.c:65): an adds   *)
(* with an immediate sets C when the unsigned sum does not fit, which is   *)
(* when the result is less than the operand.                               *)
isFlagSettingAddition ==
  /\ FetchInMemory
  /\ classOf(instruction) = "immediate"
  /\ isArithmeticImm(instruction)
  /\ opcField(instruction) = 1

AdditionCarriesOut ==
  [][isFlagSettingAddition =>
       LET sf    == sfFlag(instruction)
           rnVal == immediateRn(sf, operandField(instruction))
           op2   == immediateOperand(operandField(instruction))
       IN  psregisters'.carry = UnsignedLess(immediateResult(sf, FALSE, rnVal, op2), rnVal)]_vars

(* Register 31 of a register instruction is "the zero register"            *)
(* (assembler_utilities.c:30, ZERO_R in emulate.c:13): what is written to  *)
(* it, the difference a cmp computes for one, goes nowhere.                *)
ZeroRegisterDiscards ==
  [][FetchInMemory /\ classOf(instruction) = "register" /\ rdField(instruction) = ZERO
       => UNCHANGED <<genRegisters, stackPtr>>]_vars

=============================================================================
