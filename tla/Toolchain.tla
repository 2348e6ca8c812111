------------------------------ MODULE Toolchain -----------------------------
(***************************************************************************)
(* The two programs one after the other: a source program is assembled,    *)
(* the output file is loaded at the bottom of a zeroed memory              *)
(* (binaryfilereader.c), and the emulator runs it.  The refinement says    *)
(* that what happens is what an A64 processor does with the source.        *)
(***************************************************************************)
EXTENDS Emulator, Assembly

CONSTANT Sources

VARIABLES
  source,     \* the program: lines of the assembly language
  iteration   \* changes with every iteration of the run loop

toolVars == <<vars, source, iteration>>

ToolchainInit ==
  /\ source \in Sources
  /\ iteration = FALSE
  /\ initialise_registers
  /\ \E words \in {Assembled(source)} : memory = loadFileIntoMemory(words)

Running == ~HALTED /\ ~undefined

Iterate ==
  /\ Running /\ Next
  /\ iteration' = ~iteration
  /\ UNCHANGED source

ToolchainNext ==
  \/ Iterate
  \/ Stopped /\ UNCHANGED <<source, iteration>>

(* While it runs, the loop goes on to its next iteration: one is always    *)
(* possible, and iteration tells it from a step that changes nothing else. *)
ToolchainSpec ==
  /\ ToolchainInit
  /\ [][ToolchainNext]_toolVars
  /\ WF_iteration(Running /\ iteration' = ~iteration)

(* The stack pointer is hidden: no source line the assembler accepts names *)
(* it as an operand.                                                       *)
Processor ==
  INSTANCE A64 WITH X <- genRegisters, flags <- psregisters, mem <- memory,
                    pc <- ToNat(pCounter), halted <- HALTED

(* Assembling and emulating a program is executing it on an A64 processor, *)
(* step for step: the layouts the encoders write, the fields the decoders  *)
(* read and what the handlers compute fit together.                        *)
ImplementsA64 == Processor!Spec

(* Every one of the programs reaches its HALT: the emulator neither leaves *)
(* its memory nor runs in circles, where the source does not.              *)
Halts == <>HALTED

=============================================================================
