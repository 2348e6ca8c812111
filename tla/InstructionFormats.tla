------------------------- MODULE InstructionFormats -------------------------
(***************************************************************************)
(* The bit-field layouts of the assembler's instruction formats            *)
(* (instructionFormats.h, instructionFormats.c), and the operands of a     *)
(* source line after it has been split into words.                         *)
(*                                                                         *)
(* An instruction is the set of the positions of its 1 bits.  A bit-field  *)
(* keeps as many low bits of the value assigned to it as it is wide.       *)
(***************************************************************************)
EXTENDS Words, Sequences

BitField(value, position, width) ==
  {position + i : i \in LowBits(FromInt(value), width)}

(* The fields with a constant value, which init_...() sets.               *)
DPI_OP0   == 4
DPR_OP0   == 5
init_dpr  == BitField(DPR_OP0, 25, 3)
init_sdt  == BitField(1, 31, 1) \cup BitField(28, 25, 5)
init_load_literal == BitField(24, 24, 6)
init_branch       == BitField(5, 26, 4)

dpi(rd, rn, imm12, sh, opi, opc, sf) ==
  BitField(rd, 0, 5) \cup BitField(rn, 5, 5) \cup BitField(imm12, 10, 12)
    \cup BitField(sh, 22, 1) \cup BitField(opi, 23, 3) \cup BitField(DPI_OP0, 26, 3)
    \cup BitField(opc, 29, 2) \cup BitField(sf, 31, 1)

wideMoveFormat(rd, imm16, hw, opc, sf) ==
  BitField(rd, 0, 5) \cup BitField(imm16, 5, 16) \cup BitField(hw, 21, 2)
    \cup BitField(5, 23, 3) \cup BitField(DPI_OP0, 26, 3)
    \cup BitField(opc, 29, 2) \cup BitField(sf, 31, 1)

dpr(rd, rn, operand, rm, opr, m, opc, sf) ==
  init_dpr \cup BitField(rd, 0, 5) \cup BitField(rn, 5, 5) \cup BitField(operand, 10, 6)
    \cup BitField(rm, 16, 5) \cup BitField(opr, 21, 4) \cup BitField(m, 28, 1)
    \cup BitField(opc, 29, 2) \cup BitField(sf, 31, 1)

sdt(rt, xn, offset, l, u, sf) ==
  init_sdt \cup BitField(rt, 0, 5) \cup BitField(xn, 5, 5) \cup BitField(offset, 10, 12)
    \cup BitField(l, 22, 1) \cup BitField(u, 24, 1) \cup BitField(sf, 30, 1)

loadLiteralFormat(rt, simm19, sf) ==
  init_load_literal \cup BitField(rt, 0, 5) \cup BitField(simm19, 5, 19)
    \cup BitField(sf, 30, 1)

(* C's division of an int truncates towards zero.                          *)
Quotient(n, d) == IF n >= 0 THEN n \div d ELSE -((-n) \div d)

-----------------------------------------------------------------------------
(***************************************************************************)
(* Words of a source line.  A register is named by its bank ("x" or "w")   *)
(* and the rest of its name: a number, or "zr".                            *)
(***************************************************************************)
Reg(bank, number) == [kind |-> "reg", bank |-> bank, zr |-> FALSE, number |-> number]
ZeroReg(bank)     == [kind |-> "reg", bank |-> bank, zr |-> TRUE, number |-> 0]
Imm(value)        == [kind |-> "imm", value |-> value]
ShiftName(name)   == [kind |-> "shift", name |-> name]
Label(name)       == [kind |-> "label", name |-> name]

(* An address: "[xn", perhaps with the "]" at once, and an offset word     *)
(* with what follows the number: nothing, "]" or "]!".                     *)
Base(number, closed)      == [kind |-> "base", sp |-> FALSE, number |-> number, closed |-> closed]
BaseSP(closed)            == [kind |-> "base", sp |-> TRUE, number |-> 0, closed |-> closed]
Offset(value, close)      == [kind |-> "offset", value |-> value, close |-> close]
OffsetReg(number)         == [kind |-> "offsetReg", sp |-> FALSE, number |-> number]

(* A source instruction: its mnemonic and the words after it (argv[1] is   *)
(* args[1], so that argc is Len(args) + 1).                                *)
Asm(mnemonic, args) == [mnemonic |-> mnemonic, args |-> args]

(* A line has room for eight words, and those it does not use are empty    *)
(* strings.  The encoders read them like any other.                        *)
Missing == [kind |-> "missing"]

argument(args, k) == IF k \in DOMAIN args THEN args[k] ELSE Missing

(* What the number parsers make of a word once its first character is      *)
(* skipped: the number behind "#", the number of a register; 0 if the rest *)
(* does not start with a digit (the second letter of a name never is one). *)
valueOf(word) ==
  CASE word.kind \in {"imm", "offset"} -> word.value
    [] word.kind = "reg"               -> word.number
    [] OTHER                           -> 0

=============================================================================
