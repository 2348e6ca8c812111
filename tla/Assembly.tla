------------------------------ MODULE Assembly ------------------------------
(***************************************************************************)
(* What the assembler promises: the machine words of a source program.     *)
(* Each instruction is encoded at the address its position gives it, with  *)
(* every label standing for the address of the instruction that follows    *)
(* it, wherever in the file the label is.                                  *)
(***************************************************************************)
EXTENDS InstructionProcessor, SequencesExt

(* A line with a label names what precedes its colon; what follows the     *)
(* colon is not looked at, an instruction on the same line is lost.        *)
LabelLine(name) == Asm("label", <<Label(name)>>)

LabelAnd(name, mnemonic) == Asm("label", <<Label(name), Label(mnemonic)>>)

(* SelectSeq of the module Sequences, written out: SelectSeq has no        *)
(* definition that the provers could use.                                  *)
Select(s, Test(_)) ==
  LET kept[i \in 0 .. Len(s)] ==
        IF i = 0 THEN <<>>
        ELSE IF Test(s[i]) THEN Append(kept[i - 1], s[i]) ELSE kept[i - 1]
  IN  kept[Len(s)]

isLabel(line) == line.mnemonic = "label"

isInstruction(line) == ~isLabel(line)

labelName(line) == line.args[1].name

InstructionsOf(source) == Select(source, isInstruction)

Defining(source, name) ==
  {i \in DOMAIN source : isLabel(source[i]) /\ labelName(source[i]) = name}

LabelsOf(source) == {labelName(source[i]) : i \in {j \in DOMAIN source : isLabel(source[j])}}

(* A label that is defined twice stands for its last definition.           *)
SymbolsOf(source) ==
  [name \in LabelsOf(source) |->
     4 * Len(InstructionsOf(SubSeq(source, 1, Max(Defining(source, name)))))]

(* The word of the i-th instruction.                                       *)
AssembledWord(source, i) ==
  instruction_processor(InstructionsOf(source)[i], SymbolsOf(source), 4 * (i - 1))

Assembled(source) ==
  [i \in DOMAIN InstructionsOf(source) |-> AssembledWord(source, i)]

=============================================================================
