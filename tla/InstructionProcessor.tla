------------------------ MODULE InstructionProcessor ------------------------
(***************************************************************************)
(* Dispatch of a tokenised line to the encoder of its group                *)
(* (instructionProcessor.c), with the special instructions                 *)
(* (special_instructions.c).  A mnemonic of no group encodes as 0.         *)
(***************************************************************************)
EXTENDS BranchAssembler, SdpInstructions, Functions

data_processing_group ==
  MULTIPLICATIONS \cup WIDE_MOVES \cup ARITHMETIC_TWOOP \cup LOGICAL_TWOOP
    \cup DOMAIN aliasOf

no_operation == {31, 30, 28, 26, 24, 17, 16, 13} \cup 0 .. 4     \* 0xD503201F

implement_directive(word) == LowBits(FromInt(valueOf(word)), 32)

special_instruction_decoder(mnemonic, args) ==
  IF mnemonic = "nop" THEN no_operation ELSE implement_directive(argument(args, 1))

instruction_processor(line, symbolTable, currentAddress) ==
  LET mnemonic == line.mnemonic
      args     == line.args
  IN  CASE mnemonic \in data_processing_group -> data_processing(mnemonic, args)
        [] mnemonic \in BRANCHES ->
             process_branch_instruction(mnemonic, args, symbolTable, currentAddress)
        [] mnemonic \in TRANSFERS ->
             process_sdp(mnemonic, args, symbolTable, currentAddress)
        [] mnemonic \in {"nop", ".int"} ->
             special_instruction_decoder(mnemonic, args)
        [] OTHER -> {}

(* The lines the encoders get through.  On any other one the assembler     *)
(* exits, is aborted by an assertion or is killed: a register that does    *)
(* not exist, a nop with operands, too many or too few operands for the    *)
(* few checks there are, or a load from a literal that is not in the table.*)
(* (The registers of a load or store are not validated.)                   *)
accepts(line, symbolTable) ==
  CASE line.mnemonic \in data_processing_group -> acceptsData(line.mnemonic, line.args)
    [] line.mnemonic = "br"        -> legalRegister(argument(line.args, 1))
    [] line.mnemonic \in TRANSFERS -> ~nullLiteral(line.args, symbolTable)
    [] line.mnemonic = "nop"       -> line.args = <<>>
    [] OTHER                       -> TRUE

=============================================================================
