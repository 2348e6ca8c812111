-------------------------------- MODULE Data --------------------------------
(***************************************************************************)
(* The state the emulator's source files share (data.h): the register      *)
(* file, the flags and the memory, which are C globals that every handler  *)
(* reads and writes.                                                       *)
(*                                                                         *)
(* genRegisters has 31 elements, but a 5-bit register field can also be    *)
(* 31, and an address can lie outside the array behind 'memory'.  C gives  *)
(* such an access no meaning: 'undefined' becomes TRUE, the machine stops  *)
(* and the model claims nothing about what a build does from there on.     *)
(***************************************************************************)
EXTENDS Utilities

CONSTANT MEMORY_SIZE   \* int64_t elements of memory (1 << 18 in the build)

ASSUME MemoryAssumption == MEMORY_SIZE \in Nat \ {0}

(* regSize is int64_t, and an instruction is an int32_t.                   *)
ASSUME RegisterWidthAssumption == XLEN = 64 /\ WLEN = 32

VARIABLES
  genRegisters,  \* X0 .. X30
  pCounter,      \* byte address of the instruction being executed
  stackPtr,      \* SP
  psregisters,   \* the condition flags
  memory,        \* int64_t elements; byte b of the memory is in element b \div 8
  HALTED,        \* the HALT instruction has been executed
  undefined      \* an access left the bounds of an array

vars ==
  <<genRegisters, pCounter, stackPtr, psregisters, memory, HALTED, undefined>>

NUM_REGISTERS == 31
Registers == 0 .. NUM_REGISTERS - 1
ZERO      == 31          \* the zero register or the stack pointer, by context
Longs     == 0 .. MEMORY_SIZE - 1
PSTATE    == [neg : BOOLEAN, zero : BOOLEAN, carry : BOOLEAN, overflow : BOOLEAN]

(* The global state is always a machine state: what a handler computes is  *)
(* a word of the right width, whatever it was given.                       *)
TypeOK ==
  /\ genRegisters \in [Registers -> Word]
  /\ pCounter \in Word
  /\ stackPtr \in Word
  /\ psregisters \in PSTATE
  /\ memory \in [Longs -> Word]
  /\ HALTED \in BOOLEAN
  /\ undefined \in BOOLEAN

(* An unsigned field of an instruction, as a number.                       *)
field(instr, start, num) == FieldValue(bitMask(instr, start, num))

(* The fields both data processing formats share: bit 31 chooses the width,  *)
(* bits 30-29 the operation, bits 4-0 the destination register.            *)
sfFlag(instr)   == bitMask(instr, 31, 1) # {}
opcField(instr) == field(instr, 29, 2)
rdField(instr)  == field(instr, 0, 5)

(* bitMask(operand, 0, 5) == ZERO ? ZERO_R : genRegisters[...]             *)
valueOrZero(index) == IF index = ZERO THEN {} ELSE genRegisters[index]

=============================================================================
