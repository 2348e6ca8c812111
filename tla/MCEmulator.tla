----------------------------- MODULE MCEmulator -----------------------------
(***************************************************************************)
(* The emulator on machine words of every form, those no assembler would   *)
(* produce included: unallocated encodings, register 31 where there is no  *)
(* such register, accesses outside the memory, programs without a HALT.    *)
(***************************************************************************)
EXTENDS LowHalves, InstructionFormats

Movn(rd, imm) == wideMoveFormat(rd, imm, 0, 0, 1)

(* x1 = -1 and x2 = 2^47, then one instruction, and HALT or nothing.       *)
Program(instr) ==
  loadFileIntoMemory(<<Movn(1, 0), wideMoveFormat(2, 32768, 2, 2, 1), instr, HALT>>)

Immediates ==
  {dpi(rd, rn, 5, sh, 2, opc, sf) :
     rd \in {3, 31}, rn \in {1, 2, 31}, sh \in 0 .. 1, opc \in 0 .. 3, sf \in 0 .. 1}
  \cup {wideMoveFormat(rd, 7, hw, opc, sf) :
     rd \in {1, 31}, hw \in 0 .. 3, opc \in 0 .. 3, sf \in 0 .. 1}
  \cup {dpi(3, 1, 5, 0, 3, 0, 1)}

RegisterForms ==
  {dpr(rd, rn, amount, 2, opr, m, opc, sf) :
     rd \in {3, 31}, rn \in {1, 31}, amount \in {0, 33}, opr \in 0 .. 15, m \in 0 .. 1,
     opc \in 0 .. 3, sf \in 0 .. 1}

(* Data addresses around both ends of the memory: x1 = -1, x2 = 2^47, and  *)
(* unaligned ones that pre- and post-indexing by 5 gives (21 and 23); the  *)
(* data register is x3, or x1 which is also a base.                        *)
Transfers ==
  {sdt(rt, xn, offset, l, u, sf) :
     rt \in {1, 3}, xn \in {0, 1, 2, 31}, offset \in {0, 1, 3, 21, 23, 64},
     l \in 0 .. 1, u \in 0 .. 1, sf \in 0 .. 1}
  \cup {loadLiteralFormat(rt, offset, sf) :
          rt \in {3, 31}, offset \in {-3, 0, 2, 9}, sf \in 0 .. 1}

RegisterBranch(xn) == init_branch \cup {31, 30} \cup BitField(xn, 5, 5)

(* Forwards only: an unconditional branch, conditional branches with every *)
(* condition code, register branches, and the type no branch has.          *)
Branches ==
  {init_branch \cup BitField(n, 0, 26) : n \in {1, 3, 40}}
  \cup {init_branch \cup {30} \cup BitField(2, 5, 19) \cup BitField(c, 0, 4) :
          c \in 0 .. 15}
  \cup {RegisterBranch(1), RegisterBranch(31), init_branch \cup {31}}

Others == {NOP, HALT, {}, {28, 26, 31}}

AllImages ==
  {Program(i) : i \in Immediates \cup RegisterForms \cup Transfers \cup Branches \cup Others
                   \cup {RegisterBranch(2)}}

=============================================================================
