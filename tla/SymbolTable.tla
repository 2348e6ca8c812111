---------------------------- MODULE SymbolTable -----------------------------
(***************************************************************************)
(* What the hash table promises (the "How To Use" comment of hashTable.c): *)
(* a map from keys to values.  Inserting a key that is there replaces its  *)
(* value; searching returns the value last inserted, or NULL.              *)
(***************************************************************************)
CONSTANTS Key, Value, NULL

VARIABLES
  map,     \* a function from the keys inserted so far to their values
  answer   \* what the last search returned

Init == map = [key \in {} |-> NULL] /\ answer = NULL

Insert(key, value) ==
  /\ map' = [k \in DOMAIN map \cup {key} |-> IF k = key THEN value ELSE map[k]]
  /\ UNCHANGED answer

Search(key) ==
  /\ answer' = IF key \in DOMAIN map THEN map[key] ELSE NULL
  /\ UNCHANGED map

(* Freeing the table ends its life; what it held is gone.                  *)
Free == map' = [key \in {} |-> NULL] /\ UNCHANGED answer

Next ==
  \/ \E key \in Key, value \in Value : Insert(key, value)
  \/ \E key \in Key : Search(key)
  \/ Free

Spec == Init /\ [][Next]_<<map, answer>>

=============================================================================
