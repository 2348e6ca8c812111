------------------------ MODULE SingleDataTransfer --------------------------
(***************************************************************************)
(* Loads and stores (singledatatransfer.c).  memory is an array of         *)
(* int64_t, but it is accessed byte by byte: the element is chosen by the  *)
(* address divided by 8, kept in 32 bits, and the byte by its remainder.   *)
(***************************************************************************)
EXTENDS Data

LongIndex(address) == LowBits(UnsignedShiftRight(address, 3), 32)
ByteIndex(address) == FieldValue(LowBits(address, 3))

(* The element an address falls into exists.  (TLC's integers end at 2^31, *)
(* MEMORY_SIZE far below.)                                                 *)
inMemory(address) ==
  LongIndex(address) \subseteq 0 .. 29 /\ ToNat(LongIndex(address)) \in Longs

(* Mutant of getByteFromLong: the mask 0xFF is left out.                   *)
getRestOfLong(data, byteIndex) == {b - 8 * byteIndex : b \in data} \cap Nat

getByteFromLong(data, byteIndex) == {j \in 0 .. 7 : 8 * byteIndex + j \in data}

getByteFromMemory(address) ==
  getByteFromLong(memory[ToNat(LongIndex(address))], ByteIndex(address))

(* The bytes of one access, counted from its address.                      *)
accessBytes(sizeFlag) == 0 .. (IF sizeFlag THEN 7 ELSE 3)

byteAddress(address, i) == Plus(address, FromInt(i))

-----------------------------------------------------------------------------
(* The register's low bytes are replaced one by one; a 4-byte load leaves  *)
(* the other four as they were.                                            *)
loadedBits(address, sizeFlag) ==
  UNION {{8 * i + j : j \in getByteFromMemory(byteAddress(address, i))} :
           i \in accessBytes(sizeFlag)}

load(registers, rtIndex, address, sizeFlag) ==
  [registers EXCEPT ![rtIndex] =
     {b \in @ : b \div 8 \notin accessBytes(sizeFlag)}
        \cup loadedBits(address, sizeFlag)]

(* Mutant of destination: the element is not left at its last byte.        *)
destinationInOneLong(address, i) ==
  [i |-> i, long |-> ToNat(LongIndex(address)), byte |-> ByteIndex(byteAddress(address, i))]

(* Where byte i of the register goes, and the memory with every one there. *)
destination(address, i) ==
  [i |-> i, long |-> ToNat(LongIndex(byteAddress(address, i))),
   byte |-> ByteIndex(byteAddress(address, i))]

store(registers, rtIndex, address, sizeFlag) ==
  LET destinations == {destination(address, i) : i \in accessBytes(sizeFlag)}
  IN  [k \in Longs |->
         LET here == {d \in destinations : d.long = k}
         IN  {b \in memory[k] : \A d \in here : b \div 8 # d.byte}
               \cup UNION {{8 * d.byte + j :
                              j \in getByteFromLong(registers[rtIndex], d.i)} : d \in here}]

-----------------------------------------------------------------------------
(***************************************************************************)
(* Addressing.  The top bit separates a transfer with a base register from *)
(* a load literal, which is relative to pCounter.                          *)
(***************************************************************************)
isLiteral(instr)        == bitMask(instr, 31, 1) = {}
sizeFlagOf(instr)       == bitMask(instr, 30, 1) # {}
isLoad(instr)           == isLiteral(instr) \/ bitMask(instr, 22, 1) # {}
rtIndexOf(instr)        == field(instr, 0, 5)
xnIndexOf(instr)        == field(instr, 5, 5)
xmIndexOf(instr)        == field(instr, 16, 5)
isUnsignedOffset(instr) == ~isLiteral(instr) /\ bitMask(instr, 24, 1) # {}
isRegisterOffset(instr) == /\ ~isLiteral(instr) /\ ~isUnsignedOffset(instr)
                           /\ bitMask(instr, 21, 1) # {}
isIndexed(instr)        == /\ ~isLiteral(instr) /\ ~isUnsignedOffset(instr)
                           /\ ~isRegisterOffset(instr)
isPreIndexed(instr)     == isIndexed(instr) /\ bitMask(instr, 11, 1) # {}

indexedBase(instr) ==
  Plus(genRegisters[xnIndexOf(instr)], signedMask(instr, 12, 9))

transferAddress(instr) ==
  LET xn == genRegisters[xnIndexOf(instr)]
      scale == IF sizeFlagOf(instr) THEN 3 ELSE 2
  IN  CASE isLiteral(instr) ->
             Plus(pCounter, ShiftLeft(signedMask(instr, 5, 19), 2))
        [] isUnsignedOffset(instr) ->
             Plus(ShiftLeft(bitMask(instr, 10, 12), scale), xn)
        [] isRegisterOffset(instr) -> Plus(xn, genRegisters[xmIndexOf(instr)])
        [] isPreIndexed(instr) -> indexedBase(instr)
        [] OTHER -> xn

(* Pre- and post-indexing update the base register BEFORE the transfer, so *)
(* a store of the base register itself stores the updated value.           *)
registersAfterIndexing(instr) ==
  IF isIndexed(instr)
    THEN [genRegisters EXCEPT ![xnIndexOf(instr)] = indexedBase(instr)]
    ELSE genRegisters

registersUsed(instr) ==
  {rtIndexOf(instr)}
    \cup (IF isLiteral(instr) THEN {} ELSE {xnIndexOf(instr)})
    \cup (IF isRegisterOffset(instr) THEN {xmIndexOf(instr)} ELSE {})

transferInBounds(instr) ==
  /\ registersUsed(instr) \subseteq Registers
  /\ \E address \in {transferAddress(instr)} :
       \A i \in accessBytes(sizeFlagOf(instr)) : inMemory(byteAddress(address, i))

decodeSingleDataTransferInstruction(instr) ==
  \E address \in {transferAddress(instr)}, registers \in {registersAfterIndexing(instr)} :
    \/ /\ isLoad(instr)
       /\ genRegisters' = load(registers, rtIndexOf(instr), address, sizeFlagOf(instr))
       /\ UNCHANGED memory
    \/ /\ ~isLoad(instr)
       /\ genRegisters' = registers
       /\ memory' = store(registers, rtIndexOf(instr), address, sizeFlagOf(instr))

=============================================================================
