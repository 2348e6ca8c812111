---------------------------- MODULE MCHashTable -----------------------------
(***************************************************************************)
(* Five labels: loop and data are in one chain at every size a small table *)
(* has, start, x and y leave it as the table grows.                        *)
(***************************************************************************)
EXTENDS HashTableMachine

Hashes ==
  [loop |-> 474540, data |-> 171948, start |-> 8640, x |-> 40842, y |-> 40843]

ASSUME HashesAssumption ==
  /\ Hashes.loop  = djb2(<<108, 111, 111, 112>>)
  /\ Hashes.data  = djb2(<<100, 97, 116, 97>>)
  /\ Hashes.start = djb2(<<115, 116, 97, 114, 116>>)
  /\ Hashes.x     = djb2(<<120>>)
  /\ Hashes.y     = djb2(<<121>>)

Keys == DOMAIN Hashes

=============================================================================
