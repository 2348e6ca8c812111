-------------------------- MODULE SdpInstructions ---------------------------
(***************************************************************************)
(* Encoding of loads and stores (sdpinstructions.c).  Which form an        *)
(* instruction has is read off the shape of its words: a second operand    *)
(* that does not open a bracket is a literal, and what closes the bracket  *)
(* tells the indexed forms apart.                                          *)
(***************************************************************************)
EXTENDS DataProcessingAssembler

TRANSFERS == {"ldr", "str"}

(* string_to_number of what follows the first letter: "zr" is read as 0.   *)
registerNumber(word) == valueOf(word)

(* The base register.  "[SP]" keeps its bracket when nothing follows, does *)
(* not compare equal to "SP", and is then read as register 0.  Post-index  *)
(* removes the last character whatever it is: without a bracket it is the  *)
(* last digit, and of "SP" no name is left.                                *)
xnIndex(word, lastRemoved) ==
  LET digitLost   == lastRemoved /\ ~word.closed
      bracketLeft == ~lastRemoved /\ word.closed
  IN  CASE digitLost -> word.number \div 10
        [] ~digitLost /\ word.sp -> IF bracketLeft THEN 0 ELSE 31
        [] OTHER -> word.number

create_load_literal(signFlag, rt, literal, currentAddress) ==
  loadLiteralFormat(rt, literal - currentAddress \div 4, signFlag)

create_register_offset(loadOrStore, signFlag, rt, xm, xn) ==
  sdt(rt, xn, 64 * xm + 2074, loadOrStore, 0, signFlag)    \* 0x81A

create_pre_post_index(loadOrStore, signFlag, rt, simm9, preOrPost, xn) ==
  sdt(rt, xn, 4 * (simm9 % 512) + 2 * preOrPost + 1, loadOrStore, 0, signFlag)

create_unsigned_offset(loadOrStore, signFlag, rt, imm12, xn) ==
  sdt(rt, xn, Quotient(imm12, 8), loadOrStore, 1, signFlag)

(* A literal that is not a label of the table makes the assembler          *)
(* dereference a null pointer: it is an immediate, or it is not defined.   *)
nullLiteral(args, symbolTable) ==
  LET literal == argument(args, 2)
  IN  /\ literal.kind # "base"
      /\ literal.kind = "label" => literal.name \notin DOMAIN symbolTable

(* "#0]" stands in for an operand that is not there.                       *)
process_sdp(mnemonic, args, symbolTable, currentAddress) ==
  LET signFlag    == SET_SF(args[1])
      rt          == registerNumber(args[1])
      loadOrStore == IF mnemonic = "ldr" THEN 1 ELSE 0
      base        == args[2]
      offset      == IF Len(args) < 3 THEN Offset(0, "]") ELSE args[3]
  IN  CASE base.kind # "base" ->
             create_load_literal(signFlag, rt,
               Quotient(symbolTable[base.name], 4), currentAddress)
        [] base.kind = "base" /\ offset.kind = "offsetReg" ->
             create_register_offset(loadOrStore, signFlag, rt,
               IF offset.sp THEN 31 ELSE offset.number,
               xnIndex(base, FALSE))
        [] base.kind = "base" /\ offset.kind = "offset" /\ offset.close = "]!" ->
             create_pre_post_index(loadOrStore, signFlag, rt, offset.value, 1,
               xnIndex(base, FALSE))
        [] base.kind = "base" /\ offset.kind = "offset" /\ offset.close = "]" ->
             create_unsigned_offset(loadOrStore, signFlag, rt, offset.value,
               xnIndex(base, FALSE))
        [] OTHER ->
             create_pre_post_index(loadOrStore, signFlag, rt, offset.value, 0,
               xnIndex(base, TRUE))

=============================================================================
