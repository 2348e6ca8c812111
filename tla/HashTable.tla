----------------------------- MODULE HashTable ------------------------------
(***************************************************************************)
(* The assembler's hash table with separate chaining (hashTable.c), as     *)
(* operators on a table value.  A chain is the sequence of its nodes.      *)
(*                                                                         *)
(* hash gives the djb2 value of a key's characters.  Any function will do  *)
(* for the table, the interest is in which keys collide at which size; the *)
(* models take it from djb2.  Positions in items count from 0, as in C.    *)
(***************************************************************************)
EXTENDS Integers, SequencesExt

CONSTANTS
  hash,   \* a function from keys to natural numbers
  NULL    \* what searching for a key that is not there returns

ASSUME HashAssumption == \A key \in DOMAIN hash : hash[key] \in Nat

(* The djb2 hash of a string, given as the codes of its characters: its    *)
(* lower HASH_BITS bits, which are all of the unsigned long that matters   *)
(* to a table whose size is a power of two up to 2^HASH_BITS, and a table  *)
(* that is created with size 1 and grows by doubling has no other size.    *)
HASH_BITS == 20

djb2(codes) == FoldLeft(LAMBDA h, x : (33 * h + x) % 2 ^ HASH_BITS, 1234, codes)

Node(key, value) == [key |-> key, value |-> value]

create_hash_table(size) ==
  [size |-> size, count |-> 0, items |-> [i \in 0 .. size - 1 |-> <<>>]]

(* The chain a key belongs in, and the node of that key in the chain.      *)
index(table, key) == hash[key] % table.size

chainOf(table, key) == table.items[index(table, key)]

nodesOf(chain, key) == {i \in DOMAIN chain : chain[i].key = key}

(* Mutant of search_hash_table: only the head of the chain is compared.    *)
searchHead(table, key) ==
  LET chain == chainOf(table, key)
  IN  IF chain # <<>> /\ Head(chain).key = key THEN Head(chain).value ELSE NULL

search_hash_table(table, key) ==
  LET chain == chainOf(table, key)
  IN  IF nodesOf(chain, key) = {} THEN NULL
      ELSE chain[Min(nodesOf(chain, key))].value

-----------------------------------------------------------------------------
isPresent(table, key) == nodesOf(chainOf(table, key), key) # {}

(* Mutants of place: the keys of the chain are not compared; a replaced    *)
(* value is counted.                                                       *)
placeBehind(table, key, value) ==
  [table EXCEPT !.items[index(table, key)] = Append(@, Node(key, value)),
                !.count = @ + 1]

placeCounting(table, key, value) ==
  LET chain == chainOf(table, key)
      at    == Min(nodesOf(chain, key))
  IN  IF isPresent(table, key)
        THEN [table EXCEPT !.items[index(table, key)][at].value = value,
                           !.count = @ + 1]
        ELSE [table EXCEPT !.items[index(table, key)] = Append(@, Node(key, value)),
                           !.count = @ + 1]

(* Insertion without the test at its end: the value of the first node with *)
(* the key is replaced, or a node is appended to the chain.                *)
place(table, key, value) ==
  LET chain == chainOf(table, key)
      at    == Min(nodesOf(chain, key))
  IN  IF isPresent(table, key)
        THEN [table EXCEPT !.items[index(table, key)][at].value = value]
        ELSE [table EXCEPT !.items[index(table, key)] = Append(@, Node(key, value)),
                           !.count = @ + 1]

(* count / (float) size > 0.7                                              *)
isCrowded(table) == 10 * table.count > 7 * table.size

(* Every node, chain by chain, is inserted into a table of the new size.   *)
(* (The insertions into the new table test their own load, and never find  *)
(* it crowded: the invariant NeverCrowded of HashTableMachine says so.)    *)
allNodes(table) == FlattenSeq([i \in 1 .. table.size |-> table.items[i - 1]])

(* Mutant of rehash_hash_table: the chains keep their positions.           *)
enlarge(table, newSize) ==
  [size |-> newSize, count |-> table.count,
   items |-> [i \in 0 .. newSize - 1 |-> IF i < table.size THEN table.items[i] ELSE <<>>]]

rehash_hash_table(table, newSize) ==
  FoldLeft(LAMBDA t, node : place(t, node.key, node.value),
           create_hash_table(newSize), allNodes(table))

needsRehash(table, key, value) ==
  ~isPresent(table, key) /\ isCrowded(place(table, key, value))

(* Mutant of insert_into_hash_table: the table grows by one chain.         *)
insertGrowingByOne(table, key, value) ==
  LET placed == place(table, key, value)
  IN  IF needsRehash(table, key, value)
        THEN rehash_hash_table(placed, placed.size + 1)
        ELSE placed

insert_into_hash_table(table, key, value) ==
  LET placed == place(table, key, value)
  IN  IF needsRehash(table, key, value)
        THEN rehash_hash_table(placed, 2 * placed.size)
        ELSE placed

(* The table as the map it represents.                                     *)
keysOf(table) == {key \in DOMAIN hash : isPresent(table, key)}

contents(table) == [key \in keysOf(table) |-> search_hash_table(table, key)]

=============================================================================
