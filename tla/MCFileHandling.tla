--------------------------- MODULE MCFileHandling ---------------------------
(***************************************************************************)
(* Source files: every sequence of a few lines from small alphabets, in    *)
(* which labels occur before and after their uses, twice or not at all.    *)
(***************************************************************************)
EXTENDS FileHandling

x(i) == Reg("x", i)

(* Two labels that share a chain until the table grows.                    *)
(* (and a name of 29 letters l followed by an m, of which a token keeps    *)
(* the first 29).                                                          *)
Hashes == [l |-> 40830, m |-> 40831, long |-> 634235]

Letters(n) == [i \in 1 .. n |-> 108]

ASSUME HashesAssumption ==
  /\ Hashes.l = djb2(<<108>>)
  /\ Hashes.m = djb2(<<109>>)
  /\ Hashes.long = djb2(Letters(29) \o <<109>>)

Shortened == [long |-> "l29"]

(* Labels and their uses.                                                  *)
Core ==
  {Asm("add", <<x(1), x(1), Imm(1)>>),
   Asm("b", <<Label("l")>>),
   Asm("b.ne", <<Label("m")>>),
   Asm("ldr", <<x(2), Label("l")>>),
   LabelLine("l"), LabelLine("m")}

(* Lines the assembler makes something else of than one would think, or    *)
(* nothing: a register that does not exist, an alias with one operand, a   *)
(* comment, an instruction behind a label, operands that are not there, a  *)
(* label with too long a name.                                             *)
Odd ==
  {Asm("sub", <<x(1), x(1), x(31)>>), Asm("cmp", <<x(1)>>), Comment,
   LabelAnd("l", "nop"), Asm("add", <<x(1), x(2)>>), Asm("nop", <<x(1)>>), Empty,
   LabelLine("long"), Asm("b", <<Label("long")>>)}

Sequences(lines, longest) == UNION {[1 .. n -> lines] : n \in 0 .. longest}

AllFiles == Sequences(Core, 4) \cup Sequences(Core \cup Odd, 2)
              \cup {f \o g : f \in Sequences(Odd, 1), g \in Sequences(Core, 2)}

(* A blank line does no harm where nothing follows it.                     *)
SomeFiles == AllFiles \cup {f \o <<Blank, Empty>> : f \in Sequences(Core, 2)}

(* What a later run may be given: a program with both labels.              *)
Revised ==
  {<<Asm("b", <<Label("l")>>), LabelLine("m"), Asm("b.ne", <<Label("m")>>), LabelLine("l")>>}

ASSUME FilesTrail == BlanksTrail(SomeFiles \cup Revised)

(* Files with blank lines anywhere.                                        *)
BlankFiles == Sequences({Blank, Asm("nop", <<>>)}, 3)

Junk == {<<>>, <<{0, 1}>>}

=============================================================================
