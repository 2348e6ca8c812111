------------------------------ MODULE MCControl -----------------------------
(***************************************************************************)
(* Programs whose course depends on what they compute: comparisons that    *)
(* steer branches, transfers in every addressing mode at aligned and       *)
(* unaligned addresses, and loops.                                         *)
(***************************************************************************)
EXTENDS MCPrograms

Conditions == {"b.eq", "b.ne", "b.ge", "b.lt", "b.gt", "b.le", "b.al"}

To(name) == <<Label(name)>>

Compare(bank, branch) ==
  <<Asm("cmp", <<Reg(bank, 1), Reg(bank, 2)>>), Asm(branch, To("skip")),
    Asm("movz", <<x(3), Imm(1)>>), LabelLine("skip")>>

Comparing ==
  {WithOperands(a, b, Compare("x", c)) :
     a \in Values, b \in {<<1, 0>>, <<-1, -1>>, <<0, MIN32>>}, c \in Conditions}
  \cup
  {WithOperands(a, b, Compare("w", c)) :
     a \in Clean, b \in {<<1, 0>>, <<-1, 0>>, <<MIN32, 0>>}, c \in Conditions}

-----------------------------------------------------------------------------
(* Transfers through x4 = 72, and x5 = 3 as an offset register.  The       *)
(* unsigned offset is used in its 64-bit form, the only one the assembler  *)
(* scales correctly.                                                       *)
Address(base, offset) == <<Base(4, base), offset>>

Forms(bank) ==
  {<<Base(4, TRUE)>>,
   Address(TRUE, Offset(13, "")), Address(TRUE, Offset(-8, "")),
   Address(FALSE, Offset(-7, "]!")), Address(FALSE, Offset(16, "]!")),
   Address(FALSE, OffsetReg(5))}
  \cup IF bank = "x" THEN {Address(FALSE, Offset(24, "]"))} ELSE {}

Transferring ==
  {WithOperands(a, <<-1, -1>>,
     <<Asm("movz", <<x(4), Imm(72)>>), Asm("movz", <<x(5), Imm(3)>>),
       Asm("str", <<x(2), Base(4, TRUE)>>),
       Asm("str", <<Reg(bank, 1)>> \o form),
       Asm("movz", <<x(4), Imm(70)>>),
       Asm("ldr", <<Reg(other, 6)>> \o form2)>>) :
     a \in {<<305419896, -19088744>>}, bank \in {"x", "w"}, form \in Forms("w"),
     other \in {"x", "w"}, form2 \in Forms("w")}
  \cup
  {WithOperands(<<305419896, -19088744>>, <<-1, -1>>,
     <<Asm("movz", <<x(4), Imm(56)>>), Asm("movz", <<x(5), Imm(3)>>),
       Asm("str", <<x(1)>> \o form), Asm("ldr", <<x(6)>> \o form2)>>) :
     form \in Forms("x"), form2 \in Forms("x")}

-----------------------------------------------------------------------------
CountDown(n) ==
  <<Asm("movz", <<x(1), Imm(n)>>), LabelLine("again"),
    Asm("subs", <<x(1), x(1), Imm(1)>>), Asm("b.ne", To("again")), Halting>>

(* Copies n words or doublewords from address 36 to address 64.            *)
Copy(bank, n) ==
  LET step == IF bank = "x" THEN 8 ELSE 4
  IN  <<Asm("movz", <<x(1), Imm(36)>>), Asm("movz", <<x(2), Imm(64)>>),
        Asm("movz", <<x(3), Imm(n)>>), LabelLine("again"),
        Asm("ldr", <<Reg(bank, 4), Base(1, TRUE), Offset(step, "")>>),
        Asm("str", <<Reg(bank, 4), Base(2, TRUE), Offset(step, "")>>),
        Asm("subs", <<x(3), x(3), Imm(1)>>), Asm("b.gt", To("again")), Halting,
        Directive(0), Directive(-1), Directive(305419896), Directive(MIN32),
        Directive(1), Directive(2)>>

(* Branches of the other kinds, forwards and backwards.                    *)
Jumps ==
  <<Asm("b", To("middle")), LabelLine("last"), Asm("nop", <<>>), Halting,
    LabelLine("middle"), Asm("movz", <<x(1), Imm(28)>>), Asm("br", <<x(1)>>),
    Asm("movz", <<x(2), Imm(1)>>), Asm("movz", <<x(2), Imm(2)>>),
    Asm("b", <<Imm(12)>>), Asm("b", To("last")), Halting, Asm("b", <<Imm(-8)>>)>>

(* The greatest common divisor by subtraction, with two-way branches.      *)
Gcd(m, n) ==
  <<Asm("movz", <<x(1), Imm(m)>>), Asm("movz", <<x(2), Imm(n)>>), LabelLine("loop"),
    Asm("cmp", <<x(1), x(2)>>), Asm("b.eq", To("end")), Asm("b.lt", To("less")),
    Asm("sub", <<x(1), x(1), x(2)>>), Asm("b", To("loop")), LabelLine("less"),
    Asm("sub", <<x(2), x(2), x(1)>>), Asm("b", To("loop")), LabelLine("end"), Halting>>

(* n! in a register; 21! does not fit 64 bits, nor 13! the 32 of a W.      *)
Factorial(bank, n) ==
  <<Asm("movz", <<Reg(bank, 1), Imm(n)>>), Asm("movz", <<Reg(bank, 2), Imm(1)>>),
    LabelLine("loop"), Asm("mul", <<Reg(bank, 2), Reg(bank, 2), Reg(bank, 1)>>),
    Asm("subs", <<Reg(bank, 1), Reg(bank, 1), Imm(1)>>), Asm("b.gt", To("loop")), Halting>>

Doubleword(d) == <<Directive(d[1]), Directive(d[2])>>

(* One pass of a bubble sort over three doublewords behind the program.    *)
BubblePass(a, b, c) ==
  <<Asm("movz", <<x(1), Imm(48)>>), Asm("movz", <<x(5), Imm(2)>>), LabelLine("next"),
    Asm("ldr", <<x(2), Base(1, FALSE), Offset(0, "]")>>),
    Asm("ldr", <<x(3), Base(1, FALSE), Offset(8, "]")>>),
    Asm("cmp", <<x(2), x(3)>>), Asm("b.le", To("ordered")),
    Asm("str", <<x(3), Base(1, FALSE), Offset(0, "]")>>),
    Asm("str", <<x(2), Base(1, FALSE), Offset(8, "]")>>),
    LabelLine("ordered"), Asm("add", <<x(1), x(1), Imm(8)>>),
    Asm("subs", <<x(5), x(5), Imm(1)>>), Asm("b.ne", To("next")), Halting>>
  \o Doubleword(a) \o Doubleword(b) \o Doubleword(c)

Looping == {CountDown(n) : n \in 1 .. 5} \cup {Jumps}
             \cup {Gcd(m, n) : m \in {1, 4, 6}, n \in {1, 4, 9}}
             \cup {Factorial("x", 21), Factorial("w", 14)}
             \cup {BubblePass(a, b, c) : a, b, c \in {<<1, 0>>, <<-1, -1>>, <<0, MIN32>>}}
             \cup {Copy(bank, n) : bank \in {"x", "w"}, n \in 1 .. 3}

ControlSources == Comparing \cup Transferring \cup Looping

-----------------------------------------------------------------------------
(* A program on which the pair of programs and the processor part ways:    *)
(* the unsigned offset of a 32-bit transfer.                               *)
NarrowOffset ==
  {WithOperands(<<1, 0>>, <<1, 0>>,
     <<Asm("movz", <<x(4), Imm(88)>>), Asm("str", <<w(1), Base(4, FALSE), Offset(4, "]")>>)>>)}

=============================================================================
