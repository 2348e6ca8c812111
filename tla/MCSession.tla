------------------------------ MODULE MCSession -----------------------------
(***************************************************************************)
(* Programs small enough for every fault at every moment: loops, a store   *)
(* whose effect is in the report, jumps over instructions.                 *)
(***************************************************************************)
EXTENDS Session

x(i) == Reg("x", i)
w(i) == Reg("w", i)

Hashes == [again |-> 214674, end |-> 419785]

ASSUME HashesAssumption ==
  /\ Hashes.again = djb2(<<97, 103, 97, 105, 110>>)
  /\ Hashes.end   = djb2(<<101, 110, 100>>)

Shortened == <<>>   \* no name is too long

Halting == Asm("and", <<x(0), x(0), x(0)>>)

CountDown(n) ==
  <<Asm("movz", <<x(1), Imm(n)>>), LabelLine("again"),
    Asm("subs", <<x(1), x(1), Imm(1)>>), Asm("b.ne", <<Label("again")>>), Halting>>

(* Stores a word in an upper half, above the program.                      *)
Storing ==
  <<Asm("movz", <<x(1), Imm(60)>>), Empty, Asm("movn", <<x(2), Imm(1)>>),
    Asm("str", <<w(2), Base(1, TRUE)>>), Asm("cmp", <<x(2), x(1)>>), Halting>>

(* A constant behind the HALT, and a branch over an instruction.           *)
Literal ==
  <<Asm("ldr", <<w(3), Label("end")>>), Asm("b", <<Label("again")>>),
    Asm("movz", <<x(3), Imm(1)>>), LabelLine("again"), Halting,
    LabelLine("end"), Asm(".int", <<Imm(-5)>>)>>

(* Stops the assembler in the middle.                                      *)
Faulty ==
  <<Asm("movz", <<x(1), Imm(3)>>), Asm("add", <<x(1), x(1), x(31)>>), Halting>>

NoOutput == {<<>>}

Programs == {CountDown(2), Storing, Literal, Faulty}

=============================================================================
