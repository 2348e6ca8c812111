--------------------------- MODULE ProcessorState ---------------------------
(***************************************************************************)
(* The report the emulator leaves (output_processor_state in utilities.c): *)
(* the registers, the program counter, a letter or a dash for each flag,   *)
(* and the 4-byte words of memory that are not zero with their addresses.  *)
(* The stack pointer is not in it.                                         *)
(*                                                                         *)
(* A report is a record of what its lines say.  How numbers are written,   *)
(* and the name of the file, are left out.                                 *)
(***************************************************************************)
EXTENDS Data

letters ==
  <<IF psregisters.neg      THEN "N" ELSE "-",
    IF psregisters.zero     THEN "Z" ELSE "-",
    IF psregisters.carry    THEN "C" ELSE "-",
    IF psregisters.overflow THEN "V" ELSE "-">>

memoryLine(i, upper) ==
  [address |-> 8 * i + IF upper THEN 4 ELSE 0, value |-> widthMask(memory[i], upper)]

(* Mutant of nonZeroMemory: the lower half is tested for both lines.       *)
nonZeroMemoryByLowerHalf ==
  {memoryLine(i, upper) :
     i \in {k \in Longs : widthMask(memory[k], FALSE) # {}}, upper \in BOOLEAN}

nonZeroMemory ==
  {l \in {memoryLine(i, upper) : i \in Longs, upper \in BOOLEAN} : l.value # {}}

output_processor_state ==
  [registers |-> genRegisters, pc |-> pCounter, pstate |-> letters,
   memory |-> nonZeroMemory]

-----------------------------------------------------------------------------
(* What a reader of a report knows of the machine.                         *)
wordAt(report, address) == UNION {l.value : l \in {m \in report.memory : m.address = address}}

memoryOf(report) ==
  [i \in Longs |-> wordAt(report, 8 * i) \cup {WLEN + b : b \in wordAt(report, 8 * i + 4)}]

flagsOf(report) ==
  [neg      |-> report.pstate[1] = "N", zero     |-> report.pstate[2] = "Z",
   carry    |-> report.pstate[3] = "C", overflow |-> report.pstate[4] = "V"]

(* The report shows the state the machine was in.                          *)
Shows(report) ==
  /\ report.registers = genRegisters
  /\ report.pc = pCounter
  /\ flagsOf(report) = psregisters
  /\ memoryOf(report) = memory

=============================================================================
