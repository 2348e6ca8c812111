---------------------------- MODULE MCPrograms ------------------------------
(***************************************************************************)
(* The vocabulary the source programs of the Toolchain runs are written    *)
(* in: registers, corner values, and a program around a few instructions.  *)
(***************************************************************************)
EXTENDS Toolchain

x(i) == Reg("x", i)
w(i) == Reg("w", i)

Halting == Asm("and", <<x(0), x(0), x(0)>>)

Directive(n) == Asm(".int", <<Imm(n)>>)

(* Doublewords as <<low, high>>: 0, 1, -1, the largest and the smallest    *)
(* signed values of both widths, and a value with no symmetry.             *)
MAX32 == 2147483647
MIN32 == -MAX32 - 1

Clean  == {<<0, 0>>, <<1, 0>>, <<-1, 0>>, <<MAX32, 0>>, <<MIN32, 0>>}
Values == Clean \cup {<<-1, -1>>, <<-1, MAX32>>, <<0, MIN32>>, <<305419896, -19088744>>}

(* a in x1, b in x2, then the body, and the constants behind the program.  *)
WithOperands(a, b, body) ==
  <<Asm("ldr", <<x(1), Label("a")>>), Asm("ldr", <<x(2), Label("b")>>)>>
    \o body \o
  <<Halting, LabelLine("a"), Directive(a[1]), Directive(a[2]),
             LabelLine("b"), Directive(b[1]), Directive(b[2])>>

=============================================================================
