# Verification of the A64 emulator and assembler

The repository holds two C programs. `assemble` translates a source file of a
subset of the A64 assembly language into a binary file of 32-bit words; `emulate`
loads such a file and executes it. This directory models both in TLA+,
model-checks the models with TLC and proves, with TLAPS, what the machine words, the
shifts, the emulator's handlers, the hash table, the two passes and the report promise,
for every value of the parameters. Paths below are relative to `src/C-emulator-and-assembler/src/`.

## 1. Inventory

| Part | Files | State | Operations | What makes it correct |
|---|---|---|---|---|
| Machine state | `Emulator/data.h` | `genRegisters[31]`, `pCounter`, `stackPtr`, `psregisters`, `memory`, `HALTED` (C globals) | read and written by every handler | always a machine state of the right widths |
| Bit utilities | `Emulator/utilities.c` | none | masks, field extraction, four shifts | shifts are divisions and multiplications modulo the register width |
| Immediate data processing | `Emulator/immediate_data_processing.c` | the globals | `arithmetic_imm`, `wide_move` | result, flags and destination are A64's |
| Register data processing | `Emulator/register_data_proc.c` | the globals; file statics set anew by every call | `multiplyReg`, `arithmeticReg`, `logicalReg` | same |
| Single data transfer | `Emulator/singledatatransfer.c` | the globals | `load`, `store`, five addressing modes | bytes reach the right place in an array of longs |
| Branches | `Emulator/branch.c` | `pCounter` | three branch types | the target, with the run loop's increment |
| Run loop, loader | `Emulator/emulate.c`, `binaryfilereader.c` | the globals | fetch, dispatch, HALT, NOP | one instruction per iteration, stops at HALT |
| Processor state output | `utilities.c:153-184` | the report file | prints registers, flags and non-zero memory | the report tells the state |
| Instruction formats | `Assembler/instructionFormats.*` | none | bit-field layouts | the layouts are those the emulator decodes |
| Encoders | `dataProcessingAssembler.*`, `branchAssembler.c`, `sdpinstructions.*`, `special_instructions.*`, `instructionProcessor.c` | read `symbolTable`, `currentAddress` | one encoder per group, dispatch | a line becomes the word that means it |
| Symbol table | `hashTable.*` | size, count, chains, heap blocks | create, insert, search, rehash, free | it is a map |
| File handling | `filehandling.*`, `assemble.c` | tokenised lines, `currentAddress`, the symbol table, the output file | clearing the output, first pass, second pass, appending a word | the output is the program, with every label resolved, wherever the process ends |
| String utilities | `assembler_utilities.*` | none | numbers, register names, error exits | values only, see section 6 |
| Command lines | `assemble.c`, `emulate.c`, `binaryfilereader.c` | the files named | argument checks, opening files | what is left behind when a file cannot be opened |
| Makefile, commented-out tests | `emulate.c:115-210`, `Makefile` | none | none | not modelled |

Interaction: the encoders are called by the second pass and read two globals the
passes write; the passes use the hash table for labels; the binary file is the
only link between the two programs; within the emulator all handlers share the
globals of `data.h`, and a branch handler leaves `pCounter` four short because it
knows that the run loop adds four.

The output file is the only state that outlives a process: an assembler that stops
in the middle, for whatever reason, leaves it as it is, and both the next assembler and
the emulator start from it.

Both programs are sequential. What is hard in them is not interleaving but

* arithmetic at the edges of two widths inside 64-bit C variables, partly computed
  in floating point (`pow`);
* one layout described twice, as bit-fields by one program and as masks by the other;
* a protocol between handlers and run loop (increment, HALT before decoding);
* two passes that must agree on addresses, with forward references;
* a table that grows while it is used, and re-inserts through its own insert;
* processes that end in the middle (a line that cannot be encoded, a kill), writes that
  fail one by one and go unnoticed, outputs of earlier runs;
* programs that never reach a HALT;
* lines that are taken for something else than they look (comments, missing operands,
  an instruction behind a label, labels too long for a token);
* array accesses nothing bounds (register 31, addresses, `pCounter`).

`PROJECT.json` lists these hazards line by line.

## 2. Modules

A machine word is the set of the positions of its 1 bits (`Words`), so that 64-bit
values are exact although TLC's integers have 32 bits, C's bitwise operators are set
operators, and facts about words are facts about sets that a prover can handle.
No module declares a recursive operator.

Emulator:

* `Words` - arithmetic modulo 2^XLEN, shifts, comparisons; the meaning of C's
  operators on `int64_t` (signed overflow wraps, as it does in the unoptimised
  gcc build of the Makefile).
* `Utilities` - `utilities.c`, function by function. `pow(2, n) - 1` is exact up to
  n = MANTISSA and rounds above it; a shift count C leaves undefined is taken modulo
  the width, as the x86 instructions gcc emits do.
* `Data` - the globals and the type invariant. C gives an access outside an array no
  meaning: `undefined` becomes TRUE, the machine stops, and nothing is claimed of what
  follows.
* `ImmediateDataProcessing`, `RegisterDataProcessing`, `SingleDataTransfer`, `Branch` -
  one module per handler file; an operator named for each C function.
* `Emulator` - composes them. One step is one iteration of `runEmulator`: the guard
  `Executing(class)` is fetch and dispatch, `Continue` the increment. Actions: `Halt`,
  `Skip` (NOP and unallocated words), `ExecuteImmediate`, `ExecuteRegister`,
  `ExecuteTransfer`, `ExecuteBranch`, `AccessOutOfBounds`, `Stopped`. `Init` is `main`
  up to the call of the run loop, with the file already in memory; `loadFileIntoMemory`
  puts it there, as much of it as `fread` is asked for.
* `LowHalves` - the emulator as an observer of W registers sees it: the same module
  instantiated with the upper halves of the registers cleared.
* `ProcessorState` - the report: what its lines say, and what a reader concludes.

Assembler:

* `InstructionFormats` - the bit-field structs, and the words of a line as records
  (a register with its bank, an immediate, a label, a base with or without its closing
  bracket ...). Strings are not modelled character by character. A word that is not
  there is `Missing`: an empty string, read as register 0 or as the number 0.
* `DataProcessingAssembler`, `BranchAssembler`, `SdpInstructions`,
  `InstructionProcessor` - the encoders as operators. `accepts` is false of the lines on
  which the process exits, fails an assertion or dereferences a null pointer;
  `corruptsHeap` is true of those on which it may.
* `HashTable` - the table as a value, its operations and djb2; `HashTableMachine` - the
  life of one table with the number of heap blocks in use.
* `FileHandling` - `main` and `process_assembly_file`; one step is one line of one pass.
  The process: `ClearOutput`, `OpenInput`, `SkipEmptyLine`, `EnterLabel`, `Tokenize`,
  `EndFirstPass`, `SkipBlankLine`, `Encode`, `Finish`. What may go wrong: `CannotClear`
  (the output cannot be opened: `fclose(NULL)`), `OpenInput` ending "unread" (no input),
  `LoseWord` (the output cannot be opened for one word, which is dropped), `Reject`
  (a line ends the process), `Kill` (a signal, at any moment). `RunAgain` starts a new
  process on the same or another source; only the output file is kept.

What is promised:

* `A64` - a machine that executes source LINES: it knows no encodings, no symbol table
  and no trick for computing a flag. Its carry says that an unsigned sum is less than
  an operand, its overflow that a signed sum is on the wrong side.
* `Assembly` - the words of a source program, labels standing for the address of the
  next instruction, without passes.
* `SymbolTable` - a map.
* `Toolchain` - composes assembler and emulator: `memory` starts as the loaded
  `Assembled(source)`. `ImplementsA64` is the refinement: `A64` with X, flags, mem, pc
  and halted read off the emulator's globals. `Assembled` is also what `FileHandling`
  is shown to write, which is how the two halves meet.
* `Session` - composes them with nothing assumed to go well: `FileHandling`, the output
  file, the loader, the run loop and the report. Actions: `Assembling` (any step of
  `FileHandling`), `Load`, `Iterate`, `Report`, `Interrupt`. `origin` is a history
  variable, the source that the words in the output came from.

Proofs, each module about the one it extends:

* `InductionProofs` - induction over the naturals and what follows from it about
  sequences, and about selecting from them and joining them.
* `WordProofs` - the operators on words: their ranges, and as numbers (`Plus` adds, words
  are cut and joined at a bit, words of n bits are below 2^n).
* `ShiftProofs` (of `MCShifts`, which states what the shifts compute), `EmulatorProofs`.
* `TableProofs` - what the operations do to a table; `HashTableProofs` - its life.
* `FileHandlingProofs`, `SessionProofs`.

## 3. Runs

| Run | Question | Instance |
|---|---|---|
| `shifts` | Are the shift functions the arithmetic they stand for? | every word of 8 bits with W = 4, every amount, MANTISSA 6 |
| `shift_rounding` | "performs logical right shift"? (violated) | the same |
| `toolchain` | Does assembling and emulating a program do what A64 says, and does it halt? | 5112 programs, 64/32 bits |
| `narrow_offset` | Do both programs scale a W offset alike? (violated) | one program |
| `machine_words` | What holds of the emulator on ANY word? | 2635 images: every form with unallocated opcodes, register 31, dirty upper halves, unaligned addresses and addresses off both ends |
| `carry` | Does C say that an immediate addition carried? (violated) | the same |
| `zero_register` | Does the zero register discard? (violated) | the same |
| `hash_table` | Is the table a map, through collisions and growth? | 5 keys, 2 values, sizes 1 to 8 |
| `hash_table_leaks` | Is everything freed? (violated) | the same |
| `two_passes` | Is the output the program, at every moment and whatever fails? | all files of up to 4 lines from 6, shorter ones with odd lines and blanks; room for 3 lines, 2 lost words, 2 runs |
| `blank_lines` | Is the current address where the word goes? (violated) | files of up to 3 lines, blank or nop |
| `session` | Is what the emulator executes the source the output was made from, and what the report tells the state? | 4 programs, 1 lost word, 2 runs, 10 iterations, every fault at every moment |

Why the bounds are enough.

* Shifts: the functions treat all bit positions alike except the sign bits, the two
  widths and the rounding point. All three occur at width 8 with every amount below,
  at and above them.
* `toolchain`: an instruction acts on register contents, and what can go wrong depends
  on signs, carries and the upper halves. The operands are 0, 1, -1, the largest and
  the smallest value of each width and a value without symmetry, over five to nine
  left and four right operands; shift amounts are 1 and 37 for X registers (above the
  width of a W), 1 and 31 for W, and 3 in the pairs below. Register
  numbers are arbitrary but distinct. Pairs of instructions, the second of which reads
  what the first one left in a register or the flags, and loops (count-down, copy,
  greatest common divisor, factorials that overflow, a pass of a sort) put them in a
  row. MEMORY_SIZE is large enough for the programs.
  32-bit flag-setting subtractions get operands with clean upper halves: otherwise their
  carry is wrong (section 5). 32-bit unsigned offsets are in `narrow_offset` only. A
  32-bit load goes to a register whose upper half is clear (section 5), and the stack
  pointer is hidden, since no accepted source line names it as an operand of data
  processing.
* `machine_words`: four longs of memory hold a program of four instructions and leave
  both ends within reach. The operands are all ones and a word with a bit in its upper
  half only; base registers point before, into and far behind the memory.
* `hash_table`: the keys are label names with their djb2 hashes; loop and data collide at
  every size reached, the others only at small sizes. MaxBlocks bounds
  the replacements, each of which loses a block; it allows all five keys, three growths
  and several replacements.
* `two_passes`: four lines are enough for a label before and after its use, defined
  twice, never, and at the end of the file; MAX_LINES = 3 truncates some of them. Two
  labels share a chain until the table has grown. `Leftovers` are what the output file
  may hold before; two runs are enough for a run to meet what another one left, and two
  lost words for a gap and a gap behind it. The odd lines (a comment, an instruction
  behind a label, operands that are missing or make no register, an alias that corrupts
  the heap, a label too long for a token) occur with each other and with labels.
* `session`: a count-down, a program that stores, one with a literal and branches, and one
  with a line that ends the assembler. MaxIterations is above what the longest needs.

Deadlock is checked except in `hash_table`, `two_passes` and `session` (and the violation
runs on the same modules): a freed table, an assembler that is not run again and a
session with nothing left to do really stop.

### What the properties say

* `TypeOK` (`Data`), `FlagsExclusive`, `HaltedAtHalt`, `BranchesKeepAlignment`,
  `NarrowResultsAreClean`: section 4.
* `LeftMultiplies`, `RightDivides`, `ArithmeticDivides`, `RotateSwaps`: each shift
  against multiplication, division and remainder of integers.
* `UpperHalvesInvisible`: a step of a W instruction, seen through the low halves of the
  registers, is a step of the emulator whose registers have nothing else. This is what
  allows the handlers to compute in 64 bits and narrow at the end. One flag is excepted,
  the carry of a register subtraction (section 5); without the exception the run fails.
* `TransferAgrees`: after a transfer the register and the bytes at its address agree, and
  nothing else has changed but an indexed base, whatever the alignment and also when base
  and data register are one. It is stated with bit numbers of the memory, not with the
  byte loops of the code.
* `ImplementsA64`: safety refinement; the liveness half is `Halts`.
* `WellPlaced`, `NoDuplicates`, `CountIsExact`, `NeverCrowded`, `ImplementsMap`: the
  invariant of the chains that a search relies on, and what follows from it. The model's
  rehash inserts without testing the load again; `NeverCrowded` is why that is faithful:
  a table of doubled size holds no more nodes than the old one, so that none of the
  insertions of line 174 can grow it.
* `OutputIsPrefix`: from the moment the output is cleared, and wherever the process ends,
  the file holds the words of the lines that have been encoded, but for those that could
  not be written; labels point to where instructions will be loaded; nothing of an
  earlier run is left. `DoneIsComplete`: a run that finishes has encoded all that was
  read, and has read all unless it ran out of lines. `Ends`: every run ends.
* `ExecutesTheSource`: whatever became of the assembler, each iteration within the output
  is a step of `A64` on the source the output was made from: a part of a program is
  executed like the beginning of the whole, and if the output could not be opened it is
  the earlier program. A lost word is the one fault that breaks this, and is excepted.
* `CompleteProgramsHalt`: a program that was assembled to its end without a loss halts.
* `ReportShowsState`: from the report alone the registers, the program counter, the flags
  and the memory can be told.

### Fairness

Each program is one process with one thread that never waits for another, so that a
step that can be taken stays possible until it is taken, and the process goes on unless it
is killed. That is all the fairness assumed:

* `Emulator`: weak fairness of `Next`. `Toolchain` and `Session`: of an iteration of the
  run loop. (Their variables `iteration` and `iterations` change with every iteration, so
  that the condition does not have to ask whether a handler changes something else.)
* `FileHandling`: of `AssemblerStep`, the steps of the process. There is none for `Kill`
  and `RunAgain`, which are the user's, and none for the outcome of an `fopen`: `Ends`
  holds whichever files can be opened.
* `Session` has none for `Assembling`, `Load` and `Interrupt`: the user decides.
* The hash table has none, since its caller decides what happens next.

## 4. Proofs

Every theorem holds for all values of the constants under the assumptions at the end of
this section; the runs of section 3 show the same properties on their instances.

### Induction

A recursive definition cannot be unfolded for every input by the provers, and the
library's induction theorems take an operator as a parameter, which they cannot
instantiate. Both are avoided in `InductionProofs`:

* A predicate is the SET of the numbers it holds of. A nonempty set of naturals has a
  least element (`LeastElement`), and from that induction follows as a lemma about sets
  (`SetInduction`, `BoundedInduction`).
* What is defined recursively (`ToNat`, the fold of `rehash_hash_table`, `FlattenSeq`,
  `Select`) is a CHOICE of a function that solves an equation. It is proved by induction
  that there is a function that solves it and that two that do agree; only then is the
  chosen one known to do so. `Select` is `SelectSeq` written out, because the library's
  operator has no definition the provers can see.

### The emulator (`EmulatorProofs`)

About `Emulator`'s `Spec`, for every memory size and every set of initial images, that
is, for every program:

* `TypeCorrect` - `Spec => []TypeOK`. TypeOK is inductive. One lemma per handler
  (`ImmediateType`, `RegisterType`, `TransferType`) rests on lemmas that say what each
  operator returns, down to `PlusIsWord` and the four shift lemmas of `WordProofs`. The
  interesting cases are the guards: a 5-bit field is in 0..31 (`RegisterField`), and only
  the guards against 31 make it an index; a byte put together from an address has eight
  bits, so that a load stays within 64.
* `FlagsStayExclusive` - N and Z are never both set, so that GT and LE exclude each
  other. `FlagsOfOneResult`: every handler takes both from one value.
* `HaltsAtHalt` - when the machine has halted, `pCounter` addresses a HALT that is in
  memory. True initially because nothing has halted; `Halt` does not move the counter,
  and nothing moves after it. Self-modifying programs are included.
* `AlignmentKept` - no instruction but a register branch takes `pCounter` off a 4-byte
  boundary, for any encoded offset. Carry look-ahead makes this short: no carry can
  enter bits 0 and 1 if both addends are clear there.
* `NarrowResults` - the W form of a data processing instruction leaves the upper half of
  the register it writes clear, for every operand, shift type and amount, rotations of
  unclean registers and amounts above 31 included.
* `TransfersAgree` - every load and store agrees with a memory of numbered bits, whatever
  the alignment. An address is 8 * element + byte (`LongAndByte`, by cutting the word at
  bit 3); the addresses of the bytes of one access are consecutive NUMBERS
  (`BytesFollow`), which needs that sums are sums (`PlusAdds`) and that they do not wrap:
  `inMemory` keeps the element below 2^30, far from the 2^35 where the index is cut. From
  there on byte i of the register and byte first + i of the memory are compared bit by bit
  (`LoadAgrees`, `StoreAgrees`), and what is not one of them is left alone (`LoadKeeps`,
  `StoreKeeps`).

`AlignmentKept`, `NarrowResults` and `TransfersAgree` are action properties, the last two
proved from TypeOK.

### The shifts (`ShiftProofs`)

`LeftShifts`, `RightShifts`, `ArithmeticShifts`, `Rotations`: the four functions of
`utilities.c` multiply, divide and rotate, for registers of ANY two widths and not only
for the 8 and 4 bits of the run. The invariant (`ShiftType`) says only which arguments a
call has. The work is in two layers: where every bit goes (`LogicalRightBits`,
`ArithmeticRightBits`, `RotateRightBits`), which includes the code's detours - the copies
of the sign that `logicalRight` subtracts again do not borrow, the ones that the W form of
`arithmeticRight` adds do not carry, a count of 64 - 0 is taken modulo the width -, and
then the number a word denotes that is cut at a bit (`LowBitsSplit`): quotient and
remainder are what is above and below. `RightShifts` stops at MANTISSA, where finding 1
starts.

### The hash table (`TableProofs`, `HashTableProofs`)

For every set of keys, every hash function and any number of insertions:
`TableTypeCorrect`, `NodesWellPlaced`, `KeysUnique`, `CountExact`, `LoadBounded`, and
`TableIsMap`, the refinement of `SymbolTable`. They follow from one inductive invariant,
`HInv`: the table is `Healthy` - nodes are where `index` puts them, no key has two, count
is their number, the load is within 0.7 - and there are blocks for everything that can be
reached. None of these is inductive alone: the load after a doubling is within the bound
only because count is exact and was within it before, and the number of nodes that
re-inserting gives is the old one only because no key has two.

`RehashNeverGrows`: every insertion of `rehash_hash_table` (`hashTable.c:174`) leaves the
table it fills at its size. This is what the model of the rehash assumes by inserting
without the test, proved of the insertion with the test.

### The two passes (`FileHandlingProofs`)

For every set of source files, every hash function, every MAX_LINES, every fault and any
number of runs:

* `NothingLeftOut` - `DoneIsComplete`. The invariant `FInv` relates `tokenisedLines` to
  the file: it has kept exactly the instructions of what has been read
  (`KeptAreInstructions`), and the second pass starts only when the file or the room is
  exhausted.
* `OutputIsProgram` - `OutputIsPrefix`. `PInv` adds that the symbol table is, as a map,
  `SymbolsOf` the lines read so far and that the current address is four times their
  number (`SymbolsEntered`, which needs `Healthy` and what `TableProofs` says of one
  insertion), and that the slot of a line is its number among the instructions
  (`SlotsAreNumbers`). The theorem has a hypothesis, `BlanksTrail`: lines of spaces come
  after all instructions. It cannot be dropped: they take an address and emit no word,
  which is finding 2. TLC evaluates it for the files of `two_passes` (`FilesTrail`);
  `blank_lines` has the files that violate it.

### The session (`SessionProofs`)

* `WordsAreNarrow` - whatever a line is, and also one that no assembler should accept, the
  encoder returns a word of 32 bits: bit-fields cut what is assigned to them.
* `ReportIsTrue` - `ReportShowsState`, for every session. `SInv` has the type of the
  machine, which the loader establishes only because the file holds 32-bit words, and
  there is no report while the machine runs.

### Assumptions

0 < WLEN < XLEN, WLEN <= MANTISSA, XLEN = 64 and WLEN = 32 in the emulator (the C types);
MEMORY_SIZE > 0 and MAX_LINES > 0; images are memories, the keys of the table are the
strings that have a hash, hashes are naturals (`KeyAssumption`, `HashAssumption`);
source files are sequences of lines, and what the output file may hold before is a
sequence of 32-bit words (`FilesAssumption`, `LeftoversAssumption`). In `ShiftProofs` also
`PowersAssumption`, which is arithmetic: 2^0 = 1 and 2^(n + 1) = 2 * 2^n up to n = XLEN.
The provers know no rule for powers but compute those of small numerals, so that
`EmulatorProofs`, where 2^35 is enough, proves what it needs (`PowersUpTo35`).
TLC evaluates every one of these assumptions in the runs.

### Model-checked only

* Liveness (`Halts`, `Ends`, `CompleteProgramsHalt`), which is out of the prover's reach.
* The refinement of `A64` (`ImplementsA64`) and `ExecutesTheSource`, which contains it.
  They are about concrete encodings: each of some forty mnemonics is a lemma through an
  encoder, a layout and a decoder.
* `UpperHalvesInvisible`.

## 5. Where the code disagrees with itself

Shown by a run (see "findings" in `PROJECT.json`):

1. `utilities.c:101` - 64-bit `lsr` of a negative value by 54 or more shifts
   arithmetically, because `pow(2, 54) - 1` rounds.
2. `filehandling.c:115` - a line of spaces takes an address but emits no word, so that
   labels behind it are four bytes off.
3. `sdpinstructions.c:165` - 32-bit unsigned offsets are divided by 8 but multiplied by 4.
4. `register_data_proc.c:78` - `cmp`, `cmn`, `tst` and every write to the zero register
   overwrite the stack pointer.
5. `immediate_data_processing.c:69` - the carry of `adds` with an immediate is a signed
   comparison.
6. `hashTable.c:127,181` - replaced values and the old nodes of a rehash are never freed.

Met while modelling and built into the models, but not given a run:

* `assemble` returns success, "indicating successful execution" (`assemble.c:33`), when the
  input could not be opened and the output has just been cleared, and when words were lost
  ("unread" and "done" are the phases with status 0).
* `filehandling.c:100`, "We now know this line is neither a label nor a comment": comments
  have not been looked for, and are encoded as word 0, an unallocated instruction.
* An instruction on the line of a label is dropped (`filehandling.c:97`).
* A label of 30 characters or more cannot be used: its uses are cut, its definition is not.
* A label that is not defined is a number, mostly 0: a branch to itself
  (`branchAssembler.c:40`).
* `singledatatransfer.c:76`, "byte index 0 is the most significant 8 bits": it is the least
  significant byte, as lines 78-81 compute it and as the comment on lines 85-86 has it.
* Post-indexing removes the last character of the base whatever it is
  (`sdpinstructions.c:83`): `[x2, #8`, its bracket forgotten, is read as register 0.
* Missing operands are register 0 or the number 0; `ldr` with one operand, and an alias
  without any, dereference a null pointer.
* `mov x1, #5` is `orr`'s alias for registers only: the number becomes an instruction
  that adds to the stack pointer.
* The aliases write an element behind their array; with an even number of words this
  overwrites the size of the next heap block (`dataProcessingAssembler.c:150`).
* The loader reads half of the memory (`binaryfilereader.c:17`), and the report's file name
  can overrun its buffer (`utilities.c:155`); neither is documented otherwise.

Described only, because no comment or test says which reading is meant: the carry of a
32-bit register subtraction compares whole 64-bit registers (`register_data_proc.c:114`);
a 32-bit load keeps the upper half of its register (`singledatatransfer.c:137-148`);
pre- and post-indexing write the base before the transfer (`singledatatransfer.c:53`),
which matters when base and data register are one; `search_hash_table`'s comment promises
-1 and the code returns a null pointer (`hashTable.c:147,160`); the expected value in
`test_instruction_format` (`instructionFormats.c:57`) is not what the layout gives, but
nothing calls it; `instructionProcessor.c:41` counts three elements in an array of two.

## 6. Not modelled

* How the report writes numbers, and its file name.
* Splitting text into words and parsing numbers. A line is modelled by its words; the
  limits of eight words and 29 characters are modelled, but a line of more than 239
  characters, which `fgets` returns in pieces, has to be given as its pieces. Malformed
  numbers and blanks before a label are left out.
* Memory that is not fresh: the assembler reads buffers it has never written, and the model
  gives them the zeros that fresh heap has. What a corrupted heap does is only that the
  process may end.
* Failing allocations, a wrong number of arguments and an emulator without input: they end
  the process before it has a state. A write that fails after `fopen` has succeeded (a full
  disk) is taken to lose the whole word, like one whose `fopen` fails.
* An emulator that runs while the assembler is writing: the two are started one after the
  other.
* The Makefile and the tests inside a comment (`emulate.c:115-210`).

## 7. Plan

Done: everything in sections 2 to 4, in the order utilities, handlers, run loop,
encoders, `A64` and the refinement, hash table, passes, proofs about the emulator; then
failing files, kills and second runs, odd lines, the session and the report, upper halves
and transfers, longer programs; proofs about the shifts, the transfers, the hash table,
the passes and the report.

Next, proofs:

1. `UpperHalvesInvisible`: that the low half of a sum, a difference and a product depends
   on the low halves alone, then handler by handler.
2. What the encoders write is what the decoders read, one lemma per format.
3. Steps of the refinement of `A64`: HALT, NOP, branches, wide moves, then the rest.
4. `ExecutesTheSource` from these and `OutputIsProgram`.
