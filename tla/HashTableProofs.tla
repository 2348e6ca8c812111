-------------------------- MODULE HashTableProofs ---------------------------
(***************************************************************************)
(* What HashTableMachine promises, for every hash function, every set of   *)
(* keys and values and any number of insertions: the invariant of the      *)
(* chains, the bound of the load, and that the table implements a map.     *)
(***************************************************************************)
EXTENDS HashTableMachine, TableProofs

(* The invariant.  The table is sound, counts its nodes and is not crowded *)
(* (a load within the bound is needed to show that doubling the table      *)
(* restores it); and there are blocks for all that can be reached, which   *)
(* is what freeing them relies on.                                         *)
HInv ==
  /\ Healthy(table, Value)
  /\ blocks \in Int
  /\ blocks >= IF freed THEN 0 ELSE 2 + 3 * table.count
  /\ answer \in Value \cup {NULL}
  /\ freed \in BOOLEAN

(* The invariant holds of the table main creates.                          *)
LEMMA HInvInit == Init => HInv
<1> SUFFICES ASSUME Init PROVE HInv
  OBVIOUS
<1>1. /\ Sound(table, Value) /\ table.size = 1 /\ table.count = 0
      /\ Len(allNodes(table)) = 0
  BY CreateSound DEF Init
<1>2. Healthy(table, Value)
  BY <1>1 DEF Healthy, Counted, isCrowded
<1>3. blocks = 2 /\ ~freed /\ freed = FALSE /\ answer = NULL
  BY DEF Init
<1>4. blocks >= 2 + 3 * table.count
  <2>1. 3 * table.count = 0
    BY <1>1
  <2>2. QED
    BY <1>3, <2>1
<1>5. QED
  <2>1. blocks >= IF freed THEN 0 ELSE 2 + 3 * table.count
    BY <1>3, <1>4, Zenon
  <2>2. blocks \in Int
    BY <1>3
  <2>3. answer \in Value \cup {NULL} /\ freed \in BOOLEAN
    BY <1>3, Zenon
  <2>4. QED
    BY <1>2, <2>1, <2>2, <2>3, Zenon DEF HInv

(* A search answers with a value of the table or with NULL.                *)
LEMMA SearchType ==
  ASSUME NEW V, NEW t, Sound(t, V), NEW key \in DOMAIN hash
  PROVE  search_hash_table(t, key) \in V \cup {NULL}
<1>1. CASE nodesOf(chainOf(t, key), key) = {}
  BY <1>1 DEF search_hash_table
<1>2. CASE nodesOf(chainOf(t, key), key) # {}
  <2>1. PICK n \in nodesOf(chainOf(t, key), key) : TRUE
    BY <1>2
  <2>2. search_hash_table(t, key) = chainOf(t, key)[n].value
    BY SearchFinds
  <2>3. chainOf(t, key)[n] \in Nodes(V)
    BY <2>1, ChainIsSeq DEF Sound, nodesOf
  <2>4. QED
    BY <2>2, <2>3 DEF Nodes
<1>3. QED
  BY <1>1, <1>2

(* Every operation keeps the invariant.                                    *)
LEMMA HInvNext == HInv /\ [Next]_tableVars => HInv'
<1> SUFFICES ASSUME HInv, [Next]_tableVars PROVE HInv'
  OBVIOUS
<1> USE KeyAssumption
<1>1. table.count \in Nat /\ Healthy(table, Value) /\ Sound(table, Value) /\ Counted(table)
  BY DEF HInv, Healthy, Sound, IsTable
<1>2. ASSUME NEW key \in Key, NEW value \in Value, Insert(key, value) PROVE HInv'
  <2>1. /\ Healthy(table', Value)
        /\ table'.count = table.count + (IF isPresent(table, key) THEN 0 ELSE 1)
    BY <1>1, <1>2, InsertSound DEF Insert
  <2>2. blocks' = blocks + blocksAllocated(key, value) /\ ~freed /\ ~freed'
    BY <1>2 DEF Insert
  <2>3. /\ blocksAllocated(key, value) \in Nat
        /\ blocksAllocated(key, value) >= IF isPresent(table, key) THEN 0 ELSE 3
    BY <1>1 DEF blocksAllocated
  <2>4. blocks' \in Int /\ blocks' >= 2 + 3 * table'.count
    <3>1. blocks \in Int /\ blocks >= 2 + 3 * table.count
      BY <2>2 DEF HInv
    <3>2. QED
      BY <1>1, <2>1, <2>2, <2>3, <3>1
  <2>5. QED
    BY <1>2, <2>1, <2>2, <2>4 DEF HInv, Insert
<1>3. ASSUME NEW key \in Key, Search(key) PROVE HInv'
  <2>1. answer' \in Value \cup {NULL}
    BY <1>1, <1>3, SearchType DEF Search
  <2>2. QED
    BY <1>3, <2>1 DEF HInv, Search
<1>4. CASE Free
  <2>1. blocks' = blocks - 3 * table.count - 2
    BY <1>1, <1>4 DEF Free, Counted
  <2>2. blocks \in Int /\ blocks >= 2 + 3 * table.count
    BY <1>4 DEF HInv, Free
  <2>3. blocks' \in Int /\ blocks' >= 0
    BY <1>1, <2>1, <2>2
  <2>4. QED
    BY <1>4, <2>3 DEF HInv, Free
<1>5. CASE UNCHANGED tableVars
  BY <1>5 DEF HInv, tableVars
<1>6. QED
  BY <1>2, <1>3, <1>4, <1>5 DEF Next

(* The invariant of the table.                                             *)
LEMMA Invariant == Spec => []HInv
<1>1. Init => HInv
  BY HInvInit
<1>2. HInv /\ [Next]_tableVars => HInv'
  BY HInvNext
<1>3. QED
  BY <1>1, <1>2, PTL DEF Spec

-----------------------------------------------------------------------------
(* The chains hold nodes, the table has at least one of them, and no more  *)
(* blocks are freed than were allocated (hashTable.c:185).                 *)
THEOREM TableTypeCorrect == Spec => []TypeOK
<1>1. HInv => TypeOK
  <2> SUFFICES ASSUME HInv PROVE TypeOK
    OBVIOUS
  <2>1. /\ table.size \in Nat \ {0} /\ table.count \in Nat
        /\ table.items \in [0 .. table.size - 1 -> Seq([key : Key, value : Value])]
    BY KeyAssumption DEF HInv, Healthy, Sound, IsTable, Nodes
  <2>2. blocks \in Nat
    BY <2>1 DEF HInv
  <2>3. QED
    BY <2>1, <2>2 DEF HInv, TypeOK
<1>2. QED
  BY <1>1, Invariant, PTL

(* Every node is in the chain where a search of its key looks for it, at   *)
(* the size the table has by now (hashTable.c:96, 150, 174).               *)
THEOREM NodesWellPlaced == Spec => []WellPlaced
<1>1. HInv => WellPlaced
  BY DEF HInv, Healthy, Sound, Placed, WellPlaced
<1>2. QED
  BY <1>1, Invariant, PTL

(* No key has two nodes, so that replacing the value of the first one, as  *)
(* insertion does (hashTable.c:104), replaces the value of the key.        *)
THEOREM KeysUnique == Spec => []NoDuplicates
<1>1. HInv => NoDuplicates
  BY DEF HInv, Healthy, Sound, Distinct, NoDuplicates
<1>2. QED
  BY <1>1, Invariant, PTL

(* count is the number of nodes, also after rehash_hash_table has counted  *)
(* them anew in the new table.                                             *)
THEOREM CountExact == Spec => []CountIsExact
<1>1. HInv => CountIsExact
  BY DEF HInv, Healthy, Counted, CountIsExact
<1>2. QED
  BY <1>1, Invariant, PTL

(* The load never exceeds 0.7: one doubling is always enough.              *)
THEOREM LoadBounded == Spec => []NeverCrowded
<1>1. HInv => NeverCrowded
  BY DEF HInv, Healthy, NeverCrowded
<1>2. QED
  BY <1>1, Invariant, PTL

-----------------------------------------------------------------------------
(* The hash table implements the map: creating, inserting, searching and   *)
(* freeing are the map's operations, with whatever collisions and growth.  *)
THEOREM TableIsMap == Spec => ImplementsMap
<1> DEFINE map == IF freed THEN [key \in {} |-> NULL] ELSE contents(table)
<1> USE KeyAssumption
<1>1. Init => Map!Init
  <2> SUFFICES ASSUME Init PROVE Map!Init
    OBVIOUS
  <2>1. keysOf(table) = {}
    <3>1. \A key \in DOMAIN hash : ~isPresent(table, key)
      BY CreateSound DEF Init
    <3>2. QED
      BY <3>1 DEF keysOf
  <2>2. contents(table) = [key \in {} |-> NULL]
    BY <2>1 DEF contents
  <2>3. QED
    BY <2>2 DEF Map!Init, Init
<1>2. HInv /\ [Next]_tableVars => [Map!Next]_<<map, answer>>
  <2> SUFFICES ASSUME HInv, [Next]_tableVars PROVE [Map!Next]_<<map, answer>>
    OBVIOUS
  <2>1. Healthy(table, Value)
    BY DEF HInv
  <2>2. ASSUME NEW key \in Key, NEW value \in Value, Insert(key, value)
        PROVE  Map!Insert(key, value)
    <3>1. Updates(table', table, key, value)
      BY <2>1, <2>2, InsertSound DEF Insert
    <3>2. Overrides(contents(table'), contents(table), key, value)
      BY <3>1, ContentsUpdated
    <3>3. ~freed /\ ~freed' /\ answer' = answer
      BY <2>2 DEF Insert
    <3>4. contents(table)' = contents(table')
      BY DEF contents, keysOf
    <3>5. QED
      BY <3>2, <3>3, <3>4 DEF Map!Insert, Overrides
  <2>3. ASSUME NEW key \in Key, Search(key) PROVE Map!Search(key)
    <3>1. answer' = IF key \in DOMAIN contents(table) THEN contents(table)[key] ELSE NULL
      BY <2>3, SearchIsLookup DEF Search
    <3>2. QED
      BY <2>3, <3>1 DEF Map!Search, Search
  <2>4. CASE Free
    <3>1. freed' = TRUE /\ answer' = answer
      BY <2>4 DEF Free
    <3>2. Map!Free
      BY <3>1, Zenon DEF Map!Free
    <3>3. QED
      BY <3>2 DEF Map!Next
  <2>5. CASE UNCHANGED tableVars
    BY <2>5 DEF tableVars
  <2>6. QED
    BY <2>2, <2>3, <2>4, <2>5 DEF Next, Map!Next
<1>3. QED
  BY <1>1, <1>2, Invariant, PTL DEF Spec, ImplementsMap, Map!Spec

=============================================================================
