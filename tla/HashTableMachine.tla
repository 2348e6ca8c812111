-------------------------- MODULE HashTableMachine --------------------------
(***************************************************************************)
(* The life of one hash table: created with one chain, as main does, used, *)
(* and freed.  'blocks' counts the heap blocks that have been allocated    *)
(* and not freed: a table is two (the struct and its array), a node three  *)
(* (the struct, its key and its value).                                    *)
(***************************************************************************)
EXTENDS HashTable

CONSTANTS
  Key, Value,
  MaxBlocks    \* bound of the model: no insertion beyond this many blocks

ASSUME KeyAssumption == Key = DOMAIN hash

VARIABLES table, blocks, answer, freed

tableVars == <<table, blocks, answer, freed>>

Init ==
  /\ table = create_hash_table(1)
  /\ blocks = 2
  /\ answer = NULL
  /\ freed = FALSE

(* Replacing a value allocates a new block for it.  A rehash allocates a   *)
(* table and copies of all nodes, and frees the array of the old table.    *)
blocksAllocated(key, value) ==
  IF isPresent(table, key) THEN 1
  ELSE 3 + IF needsRehash(table, key, value)
             THEN 2 + 3 * (table.count + 1) - 1 ELSE 0

Insert(key, value) ==
  /\ ~freed
  /\ blocks + blocksAllocated(key, value) <= MaxBlocks
  /\ table' = insert_into_hash_table(table, key, value)
  /\ blocks' = blocks + blocksAllocated(key, value)
  /\ UNCHANGED <<answer, freed>>

Search(key) ==
  /\ ~freed
  /\ answer' = search_hash_table(table, key)
  /\ UNCHANGED <<table, blocks, freed>>

(* Mutant of Free: the array of chains is freed twice.                     *)
FreeTwice ==
  /\ ~freed
  /\ freed' = TRUE
  /\ blocks' = blocks - 3 * Len(allNodes(table)) - 3
  /\ UNCHANGED <<table, answer>>

(* free_hash_table releases what can be reached from the table.            *)
Free ==
  /\ ~freed
  /\ freed' = TRUE
  /\ blocks' = blocks - 3 * Len(allNodes(table)) - 2
  /\ UNCHANGED <<table, answer>>

Next ==
  \/ \E key \in Key, value \in Value : Insert(key, value)
  \/ \E key \in Key : Search(key)
  \/ Free

Spec == Init /\ [][Next]_tableVars

-----------------------------------------------------------------------------
TypeOK ==
  /\ table.size \in Nat \ {0} /\ table.count \in Nat
  /\ table.items \in [0 .. table.size - 1 -> Seq([key : Key, value : Value])]
  /\ blocks \in Nat
  /\ answer \in Value \cup {NULL}
  /\ freed \in BOOLEAN

(* Every node is in the chain its key hashes to AT THE CURRENT SIZE, no    *)
(* key has two nodes, and count is the number of nodes: what a search and  *)
(* the decision to rehash rely on across growths of the table.             *)
WellPlaced ==
  \A i \in 0 .. table.size - 1 : \A n \in DOMAIN table.items[i] :
    index(table, table.items[i][n].key) = i

NoDuplicates ==
  \A i \in 0 .. table.size - 1 : \A m, n \in DOMAIN table.items[i] :
    table.items[i][m].key = table.items[i][n].key => m = n

CountIsExact == table.count = Len(allNodes(table))

(* After every operation the load is at most 0.7.  This is also why the    *)
(* insertions of a rehash never rehash in turn.                            *)
NeverCrowded == ~isCrowded(table)

(* The hash table is a map, whatever collides and however often it grows.  *)
Map ==
  INSTANCE SymbolTable
    WITH map <- IF freed THEN [key \in {} |-> NULL] ELSE contents(table)

ImplementsMap == Map!Spec

(* "Frees the memory occupied by the hash table and its associated nodes"  *)
(* (hashTable.c:185).                                                      *)
FreesEverything == freed => blocks = 0

=============================================================================
