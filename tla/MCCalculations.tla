-------------------------- MODULE MCCalculations ----------------------------
(***************************************************************************)
(* Programs that put two operands with corner values through every data    *)
(* processing instruction, and with the programs of MCControl all sources  *)
(* the refinement is checked on.                                           *)
(***************************************************************************)
EXTENDS MCControl

Arithmetic == {"add", "adds", "sub", "subs"}
Logic      == {"and", "ands", "bic", "bics", "orr", "orn", "eor", "eon"}

(* The destination, the sources x1 and x2, and a flexible second operand.  *)
Ternary(mnemonics, bank, tail) ==
  {Asm(m, <<Reg(bank, 3), Reg(bank, 1), Reg(bank, 2)>> \o tail) : m \in mnemonics}

Shifted(bank, names, amounts) ==
  {<<ShiftName(name), Imm(amount)>> : name \in names, amount \in amounts}

(* Instructions on two registers.  A 32-bit subtraction that sets flags is *)
(* in a set of its own: its carry is right when the operands are clean.    *)
Narrow == {"subs", "cmp", "negs"}

RegisterInstructions(bank) ==
  Ternary(Arithmetic \cup Logic, bank, <<>>)
    \cup {Asm(m, <<Reg(bank, 1), Reg(bank, 2)>>) : m \in {"cmp", "cmn", "tst"}}
    \cup {Asm(m, <<Reg(bank, 3), Reg(bank, 2)>>) : m \in {"neg", "negs", "mov", "mvn"}}
    \cup {Asm(m, <<Reg(bank, 3), Reg(bank, 1), Reg(bank, 2)>>) : m \in {"mul", "mneg"}}
    \cup {Asm(m, <<Reg(bank, 3), Reg(bank, 1), Reg(bank, 2), Reg(bank, 1)>>) :
            m \in {"madd", "msub"}}

ShiftedInstructions(bank, amounts) ==
  UNION {Ternary({"add", "sub"}, bank, s) :
           s \in Shifted(bank, {"lsl", "lsr", "asr"}, amounts)}
    \cup UNION {Ternary({"ands", "orn", "eor"}, bank, s) :
           s \in Shifted(bank, {"lsl", "lsr", "asr", "ror"}, amounts)}

ImmediateInstructions ==
  {Asm(m, <<Reg(bank, 3), Reg(bank, 1), Imm(n)>> \o tail) :
     m \in {"add", "sub", "subs"}, bank \in {"x", "w"}, n \in {0, 1, 4095},
     tail \in {<<>>, <<ShiftName("lsl"), Imm(12)>>}}
    \cup {Asm("cmp", <<Reg(bank, 1), Imm(1)>>) : bank \in {"x", "w"}}

WideMoves ==
  {Asm(m, <<Reg(bank, 1), Imm(n), ShiftName("lsl"), Imm(at)>>) :
     m \in {"movz", "movn", "movk"}, bank \in {"x", "w"}, n \in {0, 33023, 65535},
     at \in {0, 16}}
    \cup {Asm(m, <<x(1), Imm(33023), ShiftName("lsl"), Imm(at)>>) :
     m \in {"movz", "movn", "movk"}, at \in {32, 48}}

Usual == <<1, 0>>

RightValues == {<<1, 0>>, <<MIN32, 0>>, <<-1, -1>>, <<0, MIN32>>}

CalculationSources ==
  {WithOperands(a, b, <<op>>) : a \in Values, b \in RightValues,
     op \in {i \in UNION {RegisterInstructions(bank) : bank \in {"x", "w"}} :
               ~(i.mnemonic \in Narrow /\ i.args[1].bank = "w")}}
  \cup
  {WithOperands(a, b, <<op>>) : a \in Clean, b \in Clean,
     op \in {i \in RegisterInstructions("w") : i.mnemonic \in Narrow}}
  \cup
  {WithOperands(Usual, b, <<op>>) : b \in Values,
     op \in ShiftedInstructions("x", {1, 37}) \cup ShiftedInstructions("w", {1, 31})}
  \cup
  {WithOperands(a, Usual, <<op>>) : a \in Values,
     op \in ImmediateInstructions \cup WideMoves}

(* Two instructions, the second of which sees what the first one left in   *)
(* x1 and in the flags.                                                    *)
First ==
  {Asm(m, <<Reg(bank, 1), Reg(bank, 1), Reg(bank, 2)>>) :
     m \in {"adds", "ands", "eon", "mul"}, bank \in {"x", "w"}}
    \cup {Asm(m, <<x(1), x(2), x(1)>>) : m \in {"subs", "bics", "orn"}}
    \cup {Asm("movk", <<Reg(bank, 1), Imm(33023), ShiftName("lsl"), Imm(16)>>) :
            bank \in {"x", "w"}}

Second ==
  {Asm("add", <<Reg(bank, 3), Reg(bank, 1), Reg(bank, 1), ShiftName(s), Imm(3)>>) :
     bank \in {"x", "w"}, s \in {"lsl", "asr"}}
    \cup {Asm("madd", <<Reg(bank, 1), Reg(bank, 1), Reg(bank, 1), Reg(bank, 2)>>) :
            bank \in {"x", "w"}}
    \cup {Asm("str", <<Reg(bank, 1), Base(2, FALSE), Offset(40, "]!")>>) :
            bank \in {"x", "w"}}

SequenceSources ==
  {WithOperands(a, Usual, <<p, q>>) : a \in Values, p \in First, q \in Second}
  \cup
  {WithOperands(a, b, <<p, Asm(c, To("skip")), Asm("movz", <<x(3), Imm(1)>>), LabelLine("skip")>>) :
     a \in Values, b \in RightValues, c \in {"b.ge", "b.gt", "b.eq"},
     p \in {i \in First : i.mnemonic \in {"adds", "ands", "subs", "bics"}}}

ToolchainSources == SequenceSources \cup CalculationSources \cup ControlSources

=============================================================================
