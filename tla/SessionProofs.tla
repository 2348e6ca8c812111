--------------------------- MODULE SessionProofs ----------------------------
(***************************************************************************)
(* What a session promises whatever happens in it, for every source file,  *)
(* every memory size and any number of runs: the emulator loads 32-bit     *)
(* words, and its report tells the state it ended in.                      *)
(***************************************************************************)
EXTENDS Session, EmulatorProofs

Narrow == SUBSET (0 .. WLEN - 1)

-----------------------------------------------------------------------------
(* A bit-field is as wide as it is declared, whatever is assigned to it.   *)
LEMMA BitFieldRange ==
  ASSUME NEW v, NEW p \in Nat, NEW n \in Nat, p + n <= WLEN
  PROVE  BitField(v, p, n) \in Narrow
BY RegisterWidthAssumption DEF BitField, LowBits, Narrow

(* So every format is an instruction of 32 bits.                           *)
LEMMA FormatsAreNarrow ==
  /\ \A a, b, c, d, e, f, g : dpi(a, b, c, d, e, f, g) \in Narrow
  /\ \A a, b, c, d, e : wideMoveFormat(a, b, c, d, e) \in Narrow
  /\ \A a, b, c, d, e, f, g, h : dpr(a, b, c, d, e, f, g, h) \in Narrow
  /\ \A a, b, c, d, e, f : sdt(a, b, c, d, e, f) \in Narrow
  /\ \A a, b, c : loadLiteralFormat(a, b, c) \in Narrow
<1> DEFINE fits(p, n) == \A v : BitField(v, p, n) \in Narrow
<1>1. /\ fits(0, 5) /\ fits(5, 5) /\ fits(10, 12) /\ fits(22, 1) /\ fits(23, 3)
      /\ fits(26, 3) /\ fits(29, 2) /\ fits(31, 1) /\ fits(5, 16) /\ fits(21, 2)
      /\ fits(10, 6) /\ fits(16, 5) /\ fits(21, 4) /\ fits(28, 1) /\ fits(25, 3)
      /\ fits(25, 5) /\ fits(24, 1) /\ fits(30, 1) /\ fits(24, 6) /\ fits(5, 19)
  BY BitFieldRange, RegisterWidthAssumption
<1>2. \A a, b \in Narrow : a \cup b \in Narrow
  BY DEF Narrow
<1>3. \A a, b, c, d, e, f, g : dpi(a, b, c, d, e, f, g) \in Narrow
  BY <1>1, <1>2, Zenon DEF dpi
<1>4. \A a, b, c, d, e : wideMoveFormat(a, b, c, d, e) \in Narrow
  BY <1>1, <1>2, Zenon DEF wideMoveFormat
<1>5. \A a, b, c, d, e, f, g, h : dpr(a, b, c, d, e, f, g, h) \in Narrow
  BY <1>1, <1>2, Zenon DEF dpr, init_dpr
<1>6. \A a, b, c, d, e, f : sdt(a, b, c, d, e, f) \in Narrow
  BY <1>1, <1>2, Zenon DEF sdt, init_sdt
<1>7. \A a, b, c : loadLiteralFormat(a, b, c) \in Narrow
  BY <1>1, <1>2, Zenon DEF loadLiteralFormat, init_load_literal
<1>8. QED
  BY <1>3, <1>4, <1>5, <1>6, <1>7

(* Whatever line it is given, with whatever symbols and at whatever        *)
(* address, the assembler makes an instruction of 32 bits of it.           *)
THEOREM WordsAreNarrow ==
  \A l, symbols, address : instruction_processor(l, symbols, address) \in Narrow
<1> SUFFICES ASSUME NEW l, NEW symbols, NEW address
             PROVE  instruction_processor(l, symbols, address) \in Narrow
  OBVIOUS
<1> DEFINE mnemonic == l.mnemonic
           args == l.args
<1>1. {} \in Narrow /\ \A a, b \in Narrow : a \cup b \in Narrow
  BY DEF Narrow
<1>2. data_processing(mnemonic, args) \in Narrow
  <2>1. \A m, a : multiply(m, a) \in Narrow
    BY FormatsAreNarrow, Zenon DEF multiply
  <2>2. \A m, a : wide_move_assembler(m, a) \in Narrow
    BY FormatsAreNarrow, Zenon DEF wide_move_assembler
  <2>3. \A m, a : two_operand_dest(m, a) \in Narrow
    <3>1. {21} \in Narrow
      BY RegisterWidthAssumption DEF Narrow
    <3>2. QED
      BY <1>1, <3>1, FormatsAreNarrow, Zenon DEF two_operand_dest
  <2>4. QED
    BY <2>1, <2>2, <2>3, Zenon DEF data_processing, aliases
<1>3. process_branch_instruction(mnemonic, args, symbols, address) \in Narrow
  <2>1. /\ {30, 28, 26} \in Narrow /\ {31, 30, 28, 26, 25} \in Narrow /\ 16 .. 20 \in Narrow
    BY RegisterWidthAssumption DEF Narrow
  <2>2. \A v : /\ BitField(v, 5, 19) \in Narrow /\ BitField(v, 0, 4) \in Narrow
               /\ BitField(v, 0, 26) \in Narrow /\ BitField(v, 5, 5) \in Narrow
               /\ BitField(v, 26, 4) \in Narrow
    BY BitFieldRange, RegisterWidthAssumption
  <2>3. \A m, d : conditional_branch(m, d) \in Narrow
    BY <1>1, <2>1, <2>2, Zenon DEF conditional_branch
  <2>4. \A w : register_branch(w) \in Narrow
    BY <1>1, <2>1, <2>2, Zenon DEF register_branch
  <2>5. \A d : unconditional_branch(d) \in Narrow
    BY <2>2, Zenon DEF unconditional_branch
  <2>6. QED
    BY <1>1, <2>2, <2>3, <2>4, <2>5, Zenon DEF process_branch_instruction, init_branch
<1>4. process_sdp(mnemonic, args, symbols, address) \in Narrow
  <2>1. \A a, b, c, d : create_load_literal(a, b, c, d) \in Narrow
    BY FormatsAreNarrow, Zenon DEF create_load_literal
  <2>2. \A a, b, c, d, e : create_register_offset(a, b, c, d, e) \in Narrow
    BY FormatsAreNarrow DEF create_register_offset
  <2>3. \A a, b, c, d, e, f : create_pre_post_index(a, b, c, d, e, f) \in Narrow
    BY FormatsAreNarrow DEF create_pre_post_index
  <2>4. \A a, b, c, d, e : create_unsigned_offset(a, b, c, d, e) \in Narrow
    BY FormatsAreNarrow, Zenon DEF create_unsigned_offset
  <2>5. QED
    BY <2>1, <2>2, <2>3, <2>4, Zenon DEF process_sdp
<1>5. special_instruction_decoder(mnemonic, args) \in Narrow
  <2>1. no_operation \in Narrow
    BY RegisterWidthAssumption DEF no_operation, Narrow
  <2>2. \A w : implement_directive(w) \in Narrow
    BY RegisterWidthAssumption DEF implement_directive, LowBits, Narrow
  <2>3. QED
    BY <2>1, <2>2, Zenon DEF special_instruction_decoder
<1>6. QED
  BY <1>1, <1>2, <1>3, <1>4, <1>5, Zenon DEF instruction_processor

-----------------------------------------------------------------------------
(* A file of 32-bit words is read into a memory of 64-bit ones.            *)
LEMMA LoadedIsMemory ==
  ASSUME NEW words, \A i \in DOMAIN words : words[i] \in Narrow
  PROVE  loadFileIntoMemory(words) \in [Longs -> Word]
<1> DEFINE word(i) == IF i \in DOMAIN words /\ i <= MEMORY_SIZE THEN words[i] ELSE {}
           long(k) == word(2 * k + 1) \cup {WLEN + b : b \in word(2 * k + 2)}
<1>1. \A i : word(i) \subseteq 0 .. 31
  BY RegisterWidthAssumption DEF Narrow
<1>2. loadFileIntoMemory(words) = [k \in Longs |-> long(k)]
  BY DEF loadFileIntoMemory
<1> HIDE DEF word
<1>3. \A k : long(k) \in Word
  BY <1>1, RegisterWidthAssumption DEF Word, Bits
<1> HIDE DEF long
<1>4. QED
  BY <1>2, <1>3

(* The two halves of an element of memory, as the report has them.         *)
LEMMA HalvesMakeWord ==
  ASSUME NEW bits \in Word
  PROVE  bits = widthMask(bits, FALSE) \cup {WLEN + b : b \in widthMask(bits, TRUE)}
<1>1. pow2Minus1(WLEN) = 0 .. 31
  BY MantissaAssumption, RegisterWidthAssumption DEF pow2Minus1, LowBits, Bits
<1>2. widthMask(bits, FALSE) = bits \cap 0 .. 31
  BY <1>1 DEF widthMask
<1>3. widthMask(bits, TRUE) = {j \in 0 .. 31 : 32 + j \in bits}
  BY <1>1, RegisterWidthAssumption
  DEF widthMask, SignedShiftRight, UnsignedShiftRight, Word, Bits
<1>4. bits \subseteq 0 .. 63
  BY RegisterWidthAssumption DEF Word, Bits
<1>5. ASSUME NEW b \in bits, b \notin 0 .. 31
      PROVE  b - 32 \in {j \in 0 .. 31 : 32 + j \in bits} /\ b = 32 + (b - 32)
  BY <1>4, <1>5
<1>6. {32 + b : b \in {j \in 0 .. 31 : 32 + j \in bits}} \subseteq bits
  OBVIOUS
<1>7. bits = (bits \cap 0 .. 31) \cup {32 + b : b \in {j \in 0 .. 31 : 32 + j \in bits}}
  BY <1>5, <1>6, Zenon
<1>8. QED
  BY <1>2, <1>3, <1>7, RegisterWidthAssumption, Zenon

(* The lines of the report that show an element of memory.                 *)
LEMMA WordShown ==
  ASSUME memory \in [Longs -> Word], NEW i \in Longs, NEW upper \in BOOLEAN
  PROVE  wordAt(output_processor_state, 8 * i + IF upper THEN 4 ELSE 0)
           = widthMask(memory[i], upper)
<1> DEFINE at == 8 * i + IF upper THEN 4 ELSE 0
           m == output_processor_state.memory
<1>1. m = nonZeroMemory
  BY DEF output_processor_state
<1>2. \A j \in Longs, u \in BOOLEAN :
        /\ memoryLine(j, u).address = 8 * j + IF u THEN 4 ELSE 0
        /\ memoryLine(j, u).value = widthMask(memory[j], u)
  BY DEF memoryLine
<1>3. ASSUME NEW j \in Longs, NEW u \in BOOLEAN, memoryLine(j, u).address = at
      PROVE  j = i /\ u = upper
  <2>1. i \in Int /\ j \in Int
    BY DEF Longs
  <2>2. (8 * j + IF u THEN 4 ELSE 0) = (8 * i + IF upper THEN 4 ELSE 0)
    BY <1>2, <1>3
  <2>3. QED
    BY <2>1, <2>2
<1>4. \A l \in m : l.address = at => l.value = widthMask(memory[i], upper)
  <2> SUFFICES ASSUME NEW l \in m, l.address = at PROVE l.value = widthMask(memory[i], upper)
    OBVIOUS
  <2>1. PICK j \in Longs, u \in BOOLEAN : l = memoryLine(j, u)
    BY <1>1 DEF nonZeroMemory
  <2>2. j = i /\ u = upper
    BY <1>3, <2>1
  <2>3. QED
    BY <1>2, <2>1, <2>2, Zenon
<1>5. widthMask(memory[i], upper) # {} => memoryLine(i, upper) \in m
  BY <1>1, <1>2 DEF nonZeroMemory
<1>6. memoryLine(i, upper).address = at /\ memoryLine(i, upper).value = widthMask(memory[i], upper)
  BY <1>2, Zenon
<1>7. wordAt(output_processor_state, at) = UNION {l.value : l \in {k \in m : k.address = at}}
  BY Zenon DEF wordAt
<1> HIDE DEF at, m
<1>8. UNION {l.value : l \in {k \in m : k.address = at}} = widthMask(memory[i], upper)
  <2>1. ASSUME NEW b \in UNION {l.value : l \in {k \in m : k.address = at}}
        PROVE  b \in widthMask(memory[i], upper)
    BY <1>4, <2>1, Zenon
  <2>2. ASSUME NEW b \in widthMask(memory[i], upper)
        PROVE  b \in UNION {l.value : l \in {k \in m : k.address = at}}
    <3>1. memoryLine(i, upper) \in {k \in m : k.address = at}
      BY <1>5, <1>6, <2>2
    <3>2. QED
      BY <1>6, <2>2, <3>1, Zenon
  <2>3. QED
    BY <2>1, <2>2, Zenon
<1>9. QED
  BY <1>7, <1>8, Zenon DEF at

(* The report of any machine state shows it.                               *)
LEMMA ReportShows == TypeOK => Shows(output_processor_state)
<1> SUFFICES ASSUME TypeOK PROVE Shows(output_processor_state)
  OBVIOUS
<1> DEFINE r == output_processor_state
<1>1. r.registers = genRegisters /\ r.pc = pCounter /\ r.pstate = letters
  BY DEF output_processor_state
<1>2. flagsOf(r) = psregisters
  <2>1. /\ letters[1] = IF psregisters.neg THEN "N" ELSE "-"
        /\ letters[2] = IF psregisters.zero THEN "Z" ELSE "-"
        /\ letters[3] = IF psregisters.carry THEN "C" ELSE "-"
        /\ letters[4] = IF psregisters.overflow THEN "V" ELSE "-"
    BY DEF letters
  <2>2. /\ psregisters.neg \in BOOLEAN /\ psregisters.zero \in BOOLEAN
        /\ psregisters.carry \in BOOLEAN /\ psregisters.overflow \in BOOLEAN
        /\ psregisters = [neg |-> psregisters.neg, zero |-> psregisters.zero,
                          carry |-> psregisters.carry, overflow |-> psregisters.overflow]
    BY DEF TypeOK, PSTATE
  <2>3. "N" # "-" /\ "Z" # "-" /\ "C" # "-" /\ "V" # "-"
    OBVIOUS
  <2>4. /\ (letters[1] = "N") = psregisters.neg /\ (letters[2] = "Z") = psregisters.zero
        /\ (letters[3] = "C") = psregisters.carry /\ (letters[4] = "V") = psregisters.overflow
    BY <2>1, <2>2, <2>3, Zenon
  <2>5. flagsOf(r) = [neg |-> letters[1] = "N", zero |-> letters[2] = "Z",
                      carry |-> letters[3] = "C", overflow |-> letters[4] = "V"]
    BY <1>1, Zenon DEF flagsOf
  <2>6. QED
    BY <2>2, <2>4, <2>5, Zenon
<1>3. memoryOf(r) = memory
  <2>1. memory \in [Longs -> Word]
    BY DEF TypeOK
  <2>2. ASSUME NEW i \in Longs
        PROVE  wordAt(r, 8 * i) \cup {WLEN + b : b \in wordAt(r, 8 * i + 4)} = memory[i]
    <3>1. i \in Int
      BY DEF Longs
    <3>2. wordAt(r, 8 * i) = widthMask(memory[i], FALSE)
      <4>1. 8 * i + (IF FALSE THEN 4 ELSE 0) = 8 * i
        BY <3>1
      <4>2. QED
        BY <2>1, <4>1, WordShown, Zenon
    <3>3. wordAt(r, 8 * i + 4) = widthMask(memory[i], TRUE)
      <4>1. 8 * i + (IF TRUE THEN 4 ELSE 0) = 8 * i + 4
        OBVIOUS
      <4>2. QED
        BY <2>1, <4>1, WordShown, Zenon
    <3>4. memory[i] \in Word
      BY <2>1
    <3>5. QED
      BY <3>2, <3>3, <3>4, HalvesMakeWord, Zenon
  <2>3. memoryOf(r) = [i \in Longs |-> memory[i]]
    BY <2>2, Zenon DEF memoryOf
  <2>4. QED
    BY <2>1, <2>3
<1>4. QED
  BY <1>1, <1>2, <1>3, Zenon DEF Shows

-----------------------------------------------------------------------------
(* The invariant: the machine is one; the output holds instructions, which *)
(* is what makes the memory it is loaded into one; there is no report      *)
(* while the machine runs, and the one there is shows where it has ended.  *)
SInv ==
  /\ TypeOK
  /\ output \in Seq(Narrow)
  /\ machine = "running" => report = {}
  /\ ReportShowsState

(* The assembler's output stays a file of 32-bit words.                    *)
LEMMA OutputStaysNarrow ==
  ASSUME output \in Seq(Narrow), FileNext \/ UNCHANGED fileVars
  PROVE  output' \in Seq(Narrow)
<1>1. CASE UNCHANGED output
  BY <1>1
<1>2. CASE ClearOutput
  BY <1>2 DEF ClearOutput
<1>3. CASE Encode
  <2> DEFINE word == instruction_processor(current, contents(symbolTable), 4 * next)
  <2>1. output' = Append(output, word)
    BY <1>3 DEF Encode
  <2>2. word \in Narrow
    BY WordsAreNarrow, Zenon
  <2> HIDE DEF word
  <2>3. QED
    BY <2>1, <2>2
<1>4. QED
  BY <1>1, <1>2, <1>3
  DEF FileNext, AssemblerStep, CannotClear, OpenInput, SkipEmptyLine, EnterLabel, Tokenize,
      EndFirstPass, SkipBlankLine, LoseWord, Reject, Finish, Kill, RunAgain, Advancing, fileVars

(* The machine the emulator starts with.                                   *)
LEMMA FreshMachine ==
  ASSUME NEW words \in Seq(Narrow)
  PROVE  /\ loadFileIntoMemory(words) \in [Longs -> Word]
         /\ [r \in Registers |-> {}] \in [Registers -> Word]
         /\ {} \in Word
         /\ [neg |-> FALSE, zero |-> TRUE, carry |-> FALSE, overflow |-> FALSE] \in PSTATE
<1>1. \A i \in DOMAIN words : words[i] \in Narrow
  OBVIOUS
<1>2. loadFileIntoMemory(words) \in [Longs -> Word]
  BY <1>1, LoadedIsMemory
<1>3. QED
  BY <1>2 DEF Word, PSTATE

(* Nothing changes in what a report shows while the machine does not.      *)
LEMMA ShowsStays ==
  ASSUME UNCHANGED vars, NEW r, Shows(r)
  PROVE  Shows(r)'
BY DEF Shows, flagsOf, memoryOf, wordAt, vars

(* Every step of the session keeps the invariant.                          *)
LEMMA SInvNext == SInv /\ [SessionNext]_sessionVars => SInv'
<1> SUFFICES ASSUME SInv, [SessionNext]_sessionVars PROVE SInv'
  OBVIOUS
<1>1. /\ TypeOK /\ output \in Seq(Narrow)
      /\ machine = "running" => report = {}
      /\ \A r \in report : Shows(r)
  BY DEF SInv, ReportShowsState
<1>3. CASE UNCHANGED <<vars, report>> /\ (machine' = "running" => machine = "running")
           /\ (FileNext \/ UNCHANGED fileVars)
  <2>1. TypeOK'
    BY <1>1, <1>3, TypeKept
  <2>2. output' \in Seq(Narrow)
    BY <1>1, <1>3, OutputStaysNarrow
  <2>3. ReportShowsState'
    BY <1>1, <1>3, ShowsStays, Zenon DEF ReportShowsState
  <2>4. QED
    BY <1>1, <1>3, <2>1, <2>2, <2>3 DEF SInv
<1>4. CASE Load
  <2>1. TypeOK'
    BY <1>1, <1>4, FreshMachine DEF Load, TypeOK
  <2>2. report' = {} /\ output' = output
    BY <1>4 DEF Load, assemblerVars, fileVars
  <2>3. QED
    BY <1>1, <2>1, <2>2 DEF SInv, ReportShowsState
<1>5. CASE Iterate
  <2>1. TypeOK'
    BY <1>1, <1>5, TypeKept DEF Iterate
  <2>2. report' = {} /\ output' = output
    BY <1>1, <1>5 DEF Iterate, Iterating, assemblerVars, fileVars
  <2>3. QED
    BY <1>1, <2>1, <2>2 DEF SInv, ReportShowsState
<1>6. CASE Report
  <2>1. /\ UNCHANGED <<vars, output>> /\ machine' # "running"
        /\ \A r \in report' : r = output_processor_state
    BY <1>6 DEF Report, assemblerVars, fileVars
  <2>2. TypeOK'
    BY <1>1, <2>1, TypeKept
  <2>3. ReportShowsState'
    BY <1>1, <2>1, ReportShows, ShowsStays, Zenon DEF ReportShowsState
  <2>4. QED
    BY <1>1, <2>1, <2>2, <2>3 DEF SInv
<1>7. CASE Assembling \/ Interrupt \/ UNCHANGED sessionVars
  BY <1>3, <1>7 DEF Assembling, Interrupt, sessionVars, assemblerVars
<1>8. QED
  BY <1>4, <1>5, <1>6, <1>7 DEF SessionNext

(* Whatever is assembled, with whatever faults, and however often: a       *)
(* report that is there shows the state of the machine.                    *)
THEOREM ReportIsTrue == SessionSpec => []ReportShowsState
<1>1. SessionInit => SInv
  <2> SUFFICES ASSUME SessionInit PROVE SInv
    OBVIOUS
  <2>1. output \in Seq(Narrow)
    BY LeftoversAssumption, RegisterWidthAssumption DEF SessionInit, FileInit, Narrow
  <2>2. <<>> \in Seq(Narrow)
    OBVIOUS
  <2>3. TypeOK
    BY <2>2, FreshMachine DEF SessionInit, initialise_registers, TypeOK
  <2>4. QED
    BY <2>1, <2>3 DEF SessionInit, SInv, ReportShowsState
<1>2. SInv => ReportShowsState
  BY DEF SInv
<1>3. QED
  BY <1>1, <1>2, SInvNext, PTL DEF SessionSpec

=============================================================================
