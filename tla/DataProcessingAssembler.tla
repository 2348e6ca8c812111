---------------------- MODULE DataProcessingAssembler -----------------------
(***************************************************************************)
(* Encoding of the data processing instructions                            *)
(* (dataProcessingAssembler.c).  An operator that encodes is defined for   *)
(* the lines the encoder gets through; acceptsData says which lines these  *)
(* are.  Operands that are not there are not among its complaints: they    *)
(* are empty strings, read as register 0 or as the number 0.               *)
(***************************************************************************)
EXTENDS InstructionFormats

MULTIPLICATIONS  == {"mul", "mneg", "madd", "msub"}
ARITHMETIC_TWOOP == {"add", "adds", "sub", "subs"}
LOGICAL_TWOOP    == {"and", "ands", "bic", "bics", "eor", "eon", "orr", "orn"}
WIDE_MOVES       == {"movz", "movk", "movn"}

MAX_REGISTER_INDEX == 30

(* 31 stands for the zero register.  Any other name must begin with x or w *)
(* and continue with a number up to 30, or the assembler exits; the empty  *)
(* string passes the test, because strchr finds its end in every string.   *)
legalRegister(word) ==
  \/ word.kind = "missing"
  \/ word.kind = "reg" /\ word.zr
  \/ word.kind = "reg" /\ word.bank \in {"x", "w"}
       /\ word.number \in 0 .. MAX_REGISTER_INDEX

get_register_index(word) ==
  IF word.kind = "missing" THEN 0 ELSE IF word.zr THEN 31 ELSE word.number

SET_SF(word) == IF word.kind = "reg" /\ word.bank = "x" THEN 1 ELSE 0

-----------------------------------------------------------------------------
(* Any word that names no other shift is a rotation.                       *)
shiftCode(word) ==
  CASE word = ShiftName("lsl") -> 0
    [] word = ShiftName("lsr") -> 1
    [] word = ShiftName("asr") -> 2
    [] OTHER                   -> 3

opcOfMnemonic(mnemonic) ==
  CASE mnemonic \in {"add", "and", "bic"}  -> 0
    [] mnemonic \in {"adds", "orr", "orn"} -> 1
    [] mnemonic \in {"sub", "eor", "eon"}  -> 2
    [] OTHER                               -> 3

(* The third operand and, behind it, an optional shift: its name and its   *)
(* amount.  Without one the shift is by 0.                                 *)
hasShift(args)      == Len(args) > 3
shiftAmountOf(args) == IF hasShift(args) THEN valueOf(args[5]) ELSE 0
shiftTypeOf(args)   == IF hasShift(args) THEN shiftCode(args[4]) ELSE 0

isImmediate(word) == word.kind \in {"imm", "offset"}

negates(mnemonic) == mnemonic \in {"bic", "orn", "eon", "bics"}

(* assert(argc == 6) stands behind argc > 4; a register is looked up as    *)
(* soon as it is needed, a shift that is not one is not noticed.           *)
acceptsTwoOperand(args) ==
  /\ Len(args) \in 0 .. 3 \cup {5}
  /\ \A k \in 1 .. 2 : legalRegister(argument(args, k))
  /\ isImmediate(argument(args, 3)) \/ legalRegister(argument(args, 3))

two_operand_dest(mnemonic, args) ==
  LET rd  == get_register_index(argument(args, 1))
      rn  == get_register_index(argument(args, 2))
      sf  == SET_SF(argument(args, 1))
      op2 == argument(args, 3)
      opc == opcOfMnemonic(mnemonic)
      opr == 2 * shiftTypeOf(args)
               + (IF mnemonic \in ARITHMETIC_TWOOP THEN 8 ELSE 0)
               + (IF negates(mnemonic) THEN 1 ELSE 0)
  IN  IF isImmediate(op2)
        THEN dpi(rd, rn, op2.value,
                 IF shiftAmountOf(args) = 0 THEN 0 ELSE 1, 2, opc, sf)
               \cup (IF negates(mnemonic) THEN {21} ELSE {})
        ELSE dpr(rd, rn, shiftAmountOf(args), get_register_index(op2),
                 opr, 0, opc, sf)

(* The aliases stand for an instruction with the zero register as its      *)
(* destination, or as its first source.                                    *)
aliasOf ==
  [cmp |-> "subs", cmn |-> "adds", tst |-> "ands", neg |-> "sub",
   negs |-> "subs", mov |-> "orr", mvn |-> "orn"]

expanded(mnemonic, args) ==
  LET zr == ZeroReg(IF SET_SF(args[1]) = 1 THEN "x" ELSE "w")
  IN  IF mnemonic \in {"cmp", "cmn", "tst"}
        THEN <<zr>> \o args
        ELSE <<args[1], zr>> \o Tail(args)

aliases(mnemonic, args) == two_operand_dest(aliasOf[mnemonic], expanded(mnemonic, args))

(* Without an operand the process dies on the third word of an array of    *)
(* two.                                                                    *)
acceptsAlias(mnemonic, args) ==
  args # <<>> /\ acceptsTwoOperand(expanded(mnemonic, args))

(* The array of words is one element too short.  With an even argc that    *)
(* element is the size of the heap block behind it, and what follows       *)
(* depends on the blocks the process has had before: it is killed by       *)
(* malloc, at once or later, or nothing happens.                           *)
corruptsHeap(line) == line.mnemonic \in DOMAIN aliasOf /\ Len(line.args) % 2 = 1

hasAccumulator(mnemonic) == mnemonic \in {"madd", "msub"}

multiply(mnemonic, args) ==
  LET accumulator == get_register_index(argument(args, 4))
      word == CASE mnemonic = "mul"  -> 31
                [] mnemonic = "mneg" -> 63
                [] mnemonic = "madd" -> accumulator
                [] mnemonic = "msub" -> 32 + accumulator
  IN  dpr(get_register_index(argument(args, 1)), get_register_index(argument(args, 2)),
          word, get_register_index(argument(args, 3)), 8, 1, 0, SET_SF(argument(args, 1)))

(* The shift of a wide move is an optional "lsl #n".                       *)
wide_move_assembler(mnemonic, args) ==
  LET opc == CASE mnemonic = "movn" -> 0 [] mnemonic = "movz" -> 2 [] OTHER -> 3
  IN  wideMoveFormat(get_register_index(argument(args, 1)), valueOf(argument(args, 2)),
                     valueOf(argument(args, 4)) \div 16, opc, SET_SF(argument(args, 1)))

data_processing(mnemonic, args) ==
  CASE mnemonic \in MULTIPLICATIONS -> multiply(mnemonic, args)
    [] mnemonic \in WIDE_MOVES -> wide_move_assembler(mnemonic, args)
    [] mnemonic \in ARITHMETIC_TWOOP \cup LOGICAL_TWOOP ->
         two_operand_dest(mnemonic, args)
    [] OTHER -> aliases(mnemonic, args)

acceptsData(mnemonic, args) ==
  CASE mnemonic \in MULTIPLICATIONS ->
         \A k \in 1 .. IF hasAccumulator(mnemonic) THEN 4 ELSE 3 :
            legalRegister(argument(args, k))
    [] mnemonic \in WIDE_MOVES -> legalRegister(argument(args, 1))
    [] mnemonic \in ARITHMETIC_TWOOP \cup LOGICAL_TWOOP -> acceptsTwoOperand(args)
    [] OTHER -> acceptsAlias(mnemonic, args)

=============================================================================
