-------------------------------- MODULE A64 ---------------------------------
(***************************************************************************)
(* What the pair of programs promises: a source program means what the     *)
(* A64 instruction set says it means.                                      *)
(*                                                                         *)
(* This machine executes the LINES of a source program directly.  It knows *)
(* nothing of encodings, of the symbol table or of how the C code computes *)
(* a flag: arithmetic is modulo 2^n, C and V say that an unsigned or a     *)
(* signed result wrapped around, register "zr" reads as 0 and ignores      *)
(* writes, and a 32-bit result clears the upper half of its register.      *)
(***************************************************************************)
EXTENDS InstructionFormats, SequencesExt

VARIABLES
  source,  \* the program: a sequence of instruction, .int and label lines
  X,       \* the registers x0 .. x30
  flags,   \* [neg, zero, carry, overflow]
  mem,     \* memory, as a function from doubleword numbers to words
  pc,      \* byte address of the next instruction
  halted

a64vars == <<source, X, flags, mem, pc, halted>>

-----------------------------------------------------------------------------
(* Labels take no space: the address of a label is the address of the next *)
(* instruction after it.                                                   *)
isLabelLine(line) == line.mnemonic = "label"

Instructions == SelectSeq(source, LAMBDA line : ~isLabelLine(line))

AddressOf(label) ==
  LET at == CHOOSE i \in DOMAIN source :
              isLabelLine(source[i]) /\ source[i].args[1] = label
  IN  4 * Len(SelectSeq(SubSeq(source, 1, at), LAMBDA line : ~isLabelLine(line)))

-----------------------------------------------------------------------------
(* Registers and operands, n bits wide.                                    *)
Width(reg) == IF reg.bank = "x" THEN XLEN ELSE WLEN

Value(reg, n) == IF reg.zr THEN {} ELSE LowBits(X[reg.number], n)

Write(reg, value) ==
  X' = IF reg.zr THEN X ELSE [X EXCEPT ![reg.number] = value]

Shift(a, n, name, amount) ==
  CASE name = "lsl" -> LowBits(ShiftLeft(a, amount), n)
    [] name = "lsr" -> UnsignedShiftRight(a, amount)
    [] name = "asr" -> LowBits(SignedShiftRight(SignExtend(a, n), amount), n)
    [] name = "ror" -> {(i - amount) % n : i \in a}

(* The flexible operand that starts at word k.                             *)
Operand2(args, k, n) ==
  LET a == IF args[k].kind = "imm" THEN FromInt(args[k].value) ELSE Value(args[k], n)
  IN  IF Len(args) = k THEN a ELSE Shift(a, n, args[k + 1].name, args[k + 2].value)

-----------------------------------------------------------------------------
(* Results with the flags that go with them.                               *)
Negative(a, n) == n - 1 \in a

Less(a, b, n) == SignedLess(SignExtend(a, n), SignExtend(b, n))

AddWithFlags(a, b, n) ==
  LET r == LowBits(Plus(a, b), n)
  IN  [result |-> r, neg |-> Negative(r, n), zero |-> r = {},
       carry |-> UnsignedLess(r, a),
       overflow |-> Less(r, a, n) # Negative(b, n)]

SubtractWithFlags(a, b, n) ==
  LET r == LowBits(Minus(a, b), n)
  IN  [result |-> r, neg |-> Negative(r, n), zero |-> r = {},
       carry |-> ~UnsignedLess(a, b),
       overflow |-> Negative(r, n) # Less(a, b, n)]

LogicWithFlags(r, n) ==
  [result |-> r, neg |-> Negative(r, n), zero |-> r = {},
   carry |-> FALSE, overflow |-> FALSE]

Invert(a, n) == (0 .. n - 1) \ a

Calculate(mnemonic, a, b, n) ==
  CASE mnemonic \in {"add", "adds", "cmn"}                -> AddWithFlags(a, b, n)
    [] mnemonic \in {"sub", "subs", "cmp", "neg", "negs"} -> SubtractWithFlags(a, b, n)
    [] mnemonic \in {"and", "ands", "tst"}    -> LogicWithFlags(a \cap b, n)
    [] mnemonic \in {"bic", "bics"}           -> LogicWithFlags(a \ b, n)
    [] mnemonic \in {"orr", "mov"}            -> LogicWithFlags(a \cup b, n)
    [] mnemonic \in {"orn", "mvn"}            -> LogicWithFlags(a \cup Invert(b, n), n)
    [] mnemonic = "eor"                       -> LogicWithFlags(SymDiff(a, b), n)
    [] mnemonic = "eon"                       -> LogicWithFlags(SymDiff(a, Invert(b, n)), n)

Comparisons  == {"cmp", "cmn", "tst"}
OneSource    == {"neg", "negs", "mov", "mvn"}
ThreeOperand == {"add", "adds", "sub", "subs", "and", "ands", "bic", "bics",
                 "orr", "orn", "eor", "eon"}
SetsFlags    == Comparisons \cup {"adds", "subs", "ands", "bics", "negs"}

-----------------------------------------------------------------------------
(* One action per kind of instruction.                                     *)
At(mnemonics) ==
  /\ ~halted
  /\ pc \div 4 + 1 \in DOMAIN Instructions
  /\ Instructions[pc \div 4 + 1].mnemonic \in mnemonics

Current == Instructions[pc \div 4 + 1]

(* The instruction that stops the machine is "and x0, x0, x0".             *)
IsHalt == Current = Asm("and", <<Reg("x", 0), Reg("x", 0), Reg("x", 0)>>)

Advance == pc' = pc + 4 /\ UNCHANGED <<source, halted>>

Stop ==
  /\ At({"and"}) /\ IsHalt
  /\ halted' = TRUE
  /\ UNCHANGED <<source, X, flags, mem, pc>>

NoOperation == At({"nop"}) /\ Advance /\ UNCHANGED <<X, flags, mem>>

ArithmeticOrLogic ==
  /\ At(Comparisons \cup OneSource \cup ThreeOperand) /\ ~IsHalt
  /\ LET m    == Current.mnemonic
         args == Current.args
         n    == Width(args[1])
         a    == CASE m \in Comparisons  -> Value(args[1], n)
                   [] m \in OneSource    -> {}
                   [] m \in ThreeOperand -> Value(args[2], n)
         b    == Operand2(args, IF m \in ThreeOperand THEN 3 ELSE 2, n)
         out  == Calculate(m, a, b, n)
     IN  /\ IF m \in Comparisons THEN UNCHANGED X ELSE Write(args[1], out.result)
         /\ flags' = IF m \in SetsFlags
                       THEN [f \in DOMAIN flags |-> out[f]] ELSE flags
  /\ Advance /\ UNCHANGED mem

Multiply ==
  /\ At({"madd", "msub", "mul", "mneg"})
  /\ LET m       == Current.mnemonic
         args    == Current.args
         n       == Width(args[1])
         product == Times(Value(args[2], n), Value(args[3], n))
         a       == IF m \in {"mul", "mneg"} THEN {} ELSE Value(args[4], n)
     IN  Write(args[1], LowBits(IF m \in {"madd", "mul"} THEN Plus(a, product)
                                                       ELSE Minus(a, product), n))
  /\ Advance /\ UNCHANGED <<flags, mem>>

WideMove ==
  /\ At({"movz", "movn", "movk"})
  /\ LET m     == Current.mnemonic
         args  == Current.args
         n     == Width(args[1])
         at    == IF Len(args) = 2 THEN 0 ELSE args[4].value
         moved == ShiftLeft(FromInt(args[2].value), at)
     IN  Write(args[1],
           CASE m = "movz" -> moved
             [] m = "movn" -> Invert(moved, n)
             [] m = "movk" -> (Value(args[1], n) \ (at .. at + 15)) \cup moved)
  /\ Advance /\ UNCHANGED <<flags, mem>>

-----------------------------------------------------------------------------
(* Memory is little-endian and any address may be accessed.                *)
ReadMemory(address, bytes) ==
  {k \in 0 .. 8 * bytes - 1 :
     (8 * address + k) % 64 \in mem[(address + k \div 8) \div 8]}

WriteMemory(address, bytes, value) ==
  [d \in DOMAIN mem |->
     {b \in 0 .. 63 :
        LET k == 64 * d + b - 8 * address
        IN  IF k \in 0 .. 8 * bytes - 1 THEN k \in value ELSE b \in mem[d]}]

(* The address of a transfer and the base register's value after it.       *)
Target(args) ==
  LET base == X[args[2].number]
      moved == IF Len(args) = 2 THEN base
               ELSE IF args[3].kind = "offset"
                      THEN Plus(base, FromInt(args[3].value))
                      ELSE Plus(base, X[args[3].number])
      post == Len(args) = 3 /\ args[2].closed
      pre  == Len(args) = 3 /\ args[3].kind = "offset" /\ args[3].close = "]!"
  IN  [address |-> ToNat(IF post THEN base ELSE moved),
       base    |-> IF pre \/ post THEN moved ELSE base]

Load ==
  /\ At({"ldr"})
  /\ LET args  == Current.args
         bytes == Width(args[1]) \div 8
     IN  IF args[2].kind = "label"
           THEN Write(args[1], ReadMemory(AddressOf(args[2]), bytes))
           ELSE X' = [X EXCEPT
                        ![args[2].number] = Target(args).base,
                        ![args[1].number] = ReadMemory(Target(args).address, bytes)]
  /\ Advance /\ UNCHANGED <<flags, mem>>

Store ==
  /\ At({"str"})
  /\ LET args == Current.args
         n    == Width(args[1])
     IN  /\ mem' = WriteMemory(Target(args).address, n \div 8, Value(args[1], n))
         /\ X' = [X EXCEPT ![args[2].number] = Target(args).base]
  /\ Advance /\ UNCHANGED flags

-----------------------------------------------------------------------------
(* Signed conditions: the flags of a comparison order its operands.        *)
Taken(mnemonic) ==
  LET less == flags.neg # flags.overflow
  IN  CASE mnemonic = "b.eq" -> flags.zero
        [] mnemonic = "b.ne" -> ~flags.zero
        [] mnemonic = "b.lt" -> less
        [] mnemonic = "b.ge" -> ~less
        [] mnemonic = "b.le" -> flags.zero \/ less
        [] mnemonic = "b.gt" -> ~(flags.zero \/ less)
        [] OTHER             -> TRUE

Destination(word) ==
  CASE word.kind = "label" -> AddressOf(word)
    [] word.kind = "imm"   -> pc + word.value
    [] word.kind = "reg"   -> ToNat(X[word.number])

Branch ==
  /\ At({"b", "br", "b.eq", "b.ne", "b.lt", "b.ge", "b.le", "b.gt", "b.al"})
  /\ pc' = IF Taken(Current.mnemonic) THEN Destination(Current.args[1]) ELSE pc + 4
  /\ UNCHANGED <<source, X, flags, mem, halted>>

-----------------------------------------------------------------------------
Next ==
  \/ Stop
  \/ NoOperation
  \/ ArithmeticOrLogic
  \/ Multiply
  \/ WideMove
  \/ Load
  \/ Store
  \/ Branch

Init ==
  /\ X = [r \in 0 .. 30 |-> {}]
  /\ flags = [neg |-> FALSE, zero |-> TRUE, carry |-> FALSE, overflow |-> FALSE]
  /\ pc = 0
  /\ halted = FALSE

(* Which program is executed, and what memory holds, is left open.         *)
Spec == Init /\ [][Next]_a64vars

=============================================================================
