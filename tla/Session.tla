------------------------------- MODULE Session ------------------------------
(***************************************************************************)
(* A user's session: the assembler writes the output file, the emulator    *)
(* loads it, runs it and leaves a report.  The output file is all that the *)
(* two programs share, and it outlives them: an assembler may have been    *)
(* killed, or not have been able to write a word or even to open the file, *)
(* before the emulator is started on what there is; then the user may      *)
(* assemble again.                                                         *)
(*                                                                         *)
(* Simplifications: the emulator is not started while the assembler runs,  *)
(* and at most once after each run of the assembler; it always finds its   *)
(* memory and its input (without them it ends before it has a state).      *)
(***************************************************************************)
EXTENDS FileHandling, Emulator, ProcessorState

CONSTANT MaxIterations   \* bound: iterations of the run loop

VARIABLES
  machine,    \* the emulator: "off", "running", or how it has ended
  report,     \* what it has left: at most one report
  iterations, \* iterations of the run loop so far
  origin      \* history: the source the output was written from, and the
              \* lines of it whose word was lost

assemblerVars == <<fileVars, origin>>
sessionVars   == <<assemblerVars, vars, machine, report, iterations>>

SessionInit ==
  /\ FileInit
  /\ initialise_registers
  /\ memory = loadFileIntoMemory(<<>>)
  /\ machine = "off"
  /\ report = {}
  /\ iterations = 0
  /\ origin = [source |-> <<>>, lost |-> {}]

-----------------------------------------------------------------------------
(* From the moment it has been cleared the output belongs to this run.     *)
Assembling ==
  /\ machine # "running"
  /\ FileNext
  /\ origin' = IF phase' \in {"start", "untouched"}
                 THEN origin ELSE [source |-> Source', lost |-> lost']
  /\ machine' = "off"
  /\ UNCHANGED <<vars, report, iterations>>

(* main of emulate.c up to the call of the run loop.                       *)
Load ==
  /\ phase \in Ended /\ machine = "off"
  /\ machine' = "running"
  /\ memory' = loadFileIntoMemory(output)
  /\ genRegisters' = [r \in Registers |-> {}]
  /\ pCounter' = {}
  /\ stackPtr' = {}
  /\ psregisters' = [neg |-> FALSE, zero |-> TRUE, carry |-> FALSE, overflow |-> FALSE]
  /\ HALTED' = FALSE
  /\ undefined' = FALSE
  /\ report' = {}
  /\ iterations' = 0
  /\ UNCHANGED assemblerVars

Iterating ==
  /\ machine = "running" /\ ~HALTED /\ ~undefined
  /\ iterations < MaxIterations

Iterate ==
  /\ Iterating /\ Next
  /\ iterations' = iterations + 1
  /\ UNCHANGED <<assemblerVars, machine, report>>

(* After the loop: the report, unless its file cannot be opened.           *)
Report ==
  /\ machine = "running" /\ HALTED
  /\ machine' = "ended"
  /\ report' \in {{}, {output_processor_state}}
  /\ UNCHANGED <<assemblerVars, vars, iterations>>

(* The user interrupts a program, one that may never halt; or it has left  *)
(* its arrays, and nothing is claimed of what follows.                     *)
Interrupt ==
  /\ machine = "running"
  /\ machine' = "interrupted"
  /\ UNCHANGED <<assemblerVars, vars, report, iterations>>

SessionNext ==
  \/ Assembling
  \/ Load
  \/ Iterate
  \/ Report
  \/ Interrupt

(* Each program goes on while it runs; the user need not do anything.      *)
SessionSpec ==
  /\ SessionInit
  /\ [][SessionNext]_sessionVars
  /\ WF_iterations(Iterating /\ iterations' = iterations + 1)

-----------------------------------------------------------------------------
Processor ==
  INSTANCE A64 WITH source <- origin.source, X <- genRegisters,
                    flags <- psregisters, mem <- memory,
                    pc <- ToNat(pCounter), halted <- HALTED

(* The next instruction is one the output holds.                           *)
InOutput == pCounter \subseteq 0 .. 29 /\ ToNat(pCounter) < 4 * Len(output)

(* Whatever happened to the assembler, as far as the output goes the       *)
(* emulator executes the source it was made from: a run that was killed,   *)
(* or stopped at a line, has left the beginning of its program, and one    *)
(* that could not open the output has left the program of an earlier run.  *)
(* Only a word that was lost moves what follows.                           *)
ExecutesTheSource ==
  [][Iterating /\ iterations' # iterations /\ origin.lost = {} /\ InOutput
       => Processor!Next]_sessionVars

(* A program that was assembled to its end and without a loss halts, if    *)
(* nobody interrupts it; and it does so within the bound.                  *)
Complete == phase = "done" /\ lost = {}

CompleteProgramsHalt ==
  machine = "running" /\ Complete ~> HALTED \/ machine = "interrupted"

(* The report tells the machine's state, memory included, whatever the     *)
(* program has stored there; only the stack pointer it does not tell.      *)
ReportShowsState == \A r \in report : Shows(r)

=============================================================================
