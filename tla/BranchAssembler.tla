-------------------------- MODULE BranchAssembler ---------------------------
(***************************************************************************)
(* Encoding of the branch instructions (branchAssembler.c).  The C code    *)
(* reads two globals: symbolTable, here a function from labels to byte     *)
(* addresses, and currentAddress, the byte address of the instruction.     *)
(***************************************************************************)
EXTENDS DataProcessingAssembler

BRANCHES == {"b", "br", "b.eq", "b.ne", "b.ge", "b.lt", "b.gt", "b.le", "b.al"}

(* The distance in bytes to the target.  An immediate is the distance      *)
(* itself.  A label that is not in the table is read as a number: 0.       *)
process_imm_value(word, symbolTable, currentAddress) ==
  CASE word.kind = "imm" -> word.value
    [] word.kind = "label" /\ word.name \in DOMAIN symbolTable ->
         symbolTable[word.name] - currentAddress
    [] OTHER -> 0

get_cond(mnemonic) ==
  CASE mnemonic = "b.ne" -> 1
    [] mnemonic = "b.ge" -> 10
    [] mnemonic = "b.lt" -> 11
    [] mnemonic = "b.gt" -> 12
    [] mnemonic = "b.le" -> 13
    [] mnemonic = "b.al" -> 14
    [] OTHER             -> 0

conditional_branch(mnemonic, distance) ==
  {30, 28, 26} \cup BitField(Quotient(distance, 4), 5, 19)
    \cup BitField(get_cond(mnemonic), 0, 4)

unconditional_branch(distance) == BitField(Quotient(distance, 4), 0, 26)

register_branch(word) ==
  {31, 30, 28, 26, 25} \cup 16 .. 20 \cup BitField(get_register_index(word), 5, 5)

process_branch_instruction(mnemonic, args, symbolTable, currentAddress) ==
  LET distance == process_imm_value(argument(args, 1), symbolTable, currentAddress)
  IN  init_branch \cup
        CASE mnemonic = "b"  -> unconditional_branch(distance)
          [] mnemonic = "br" -> register_branch(argument(args, 1))
          [] OTHER           -> conditional_branch(mnemonic, distance)

=============================================================================
