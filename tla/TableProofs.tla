---------------------------- MODULE TableProofs -----------------------------
(***************************************************************************)
(* What the operations of the hash table (hashTable.c) do to a table and   *)
(* to the map it represents, for every hash function and every table.      *)
(***************************************************************************)
EXTENDS HashTable, InductionProofs

(* A table over the values V, with its nodes where index puts them and no  *)
(* key in two of them.                                                     *)
Nodes(V) == [key : DOMAIN hash, value : V]

IsTable(t, V) ==
  /\ t = [size |-> t.size, count |-> t.count, items |-> t.items]
  /\ t.size \in Nat \ {0}
  /\ t.count \in Nat
  /\ t.items \in [0 .. t.size - 1 -> Seq(Nodes(V))]

Placed(t) ==
  \A i \in 0 .. t.size - 1 : \A n \in DOMAIN t.items[i] :
    index(t, t.items[i][n].key) = i

Distinct(t) ==
  \A i \in 0 .. t.size - 1 : \A m, n \in DOMAIN t.items[i] :
    t.items[i][m].key = t.items[i][n].key => m = n

Sound(t, V) == IsTable(t, V) /\ Placed(t) /\ Distinct(t)

-----------------------------------------------------------------------------
(* A key is hashed to a chain of the table.                                *)
LEMMA IndexInRange ==
  ASSUME NEW t, t.size \in Nat \ {0}, NEW key \in DOMAIN hash
  PROVE  index(t, key) \in 0 .. t.size - 1
<1>1. hash[key] \in Nat
  BY HashAssumption
<1>2. QED
  BY <1>1 DEF index

(* The chain of a key is a sequence of nodes.                              *)
LEMMA ChainIsSeq ==
  ASSUME NEW V, NEW t, IsTable(t, V), NEW key \in DOMAIN hash
  PROVE  chainOf(t, key) \in Seq(Nodes(V))
<1>1. index(t, key) \in 0 .. t.size - 1
  BY IndexInRange DEF IsTable
<1>2. QED
  BY <1>1 DEF IsTable, chainOf

(* In a sound table a key has at most one node, in its chain.              *)
LEMMA OnlyNode ==
  ASSUME NEW V, NEW t, Sound(t, V), NEW key \in DOMAIN hash,
         NEW n \in nodesOf(chainOf(t, key), key)
  PROVE  nodesOf(chainOf(t, key), key) = {n} /\ Min(nodesOf(chainOf(t, key), key)) = n
<1> DEFINE chain == chainOf(t, key)
<1>1. index(t, key) \in 0 .. t.size - 1
  BY IndexInRange DEF IsTable, Sound
<1>2. chain \in Seq(Nodes(V))
  BY ChainIsSeq DEF Sound
<1>3. \A i, j \in DOMAIN chain : chain[i].key = chain[j].key => i = j
  BY <1>1 DEF Sound, Distinct, chainOf
<1> HIDE DEF chain
<1>4. \A i \in nodesOf(chain, key) : i \in DOMAIN chain /\ chain[i].key = key
  BY DEF nodesOf
<1>5. nodesOf(chain, key) = {n}
  <2>1. n \in nodesOf(chain, key)
    BY DEF chain
  <2>2. \A i \in nodesOf(chain, key) : i = n
    BY <1>3, <1>4, <2>1, Zenon
  <2>3. QED
    BY <2>1, <2>2
<1>6. n \in Int
  BY <1>2, <1>4, <1>5
<1>7. QED
  BY <1>5, <1>6, MinOfSingleton DEF chain

(* A search returns the value of that node.                                *)
LEMMA SearchFinds ==
  ASSUME NEW V, NEW t, Sound(t, V), NEW key \in DOMAIN hash,
         NEW n \in nodesOf(chainOf(t, key), key)
  PROVE  search_hash_table(t, key) = chainOf(t, key)[n].value
BY OnlyNode, Zenon DEF search_hash_table

-----------------------------------------------------------------------------
(* Putting a chain in the place of another one.                            *)
WithChain(t, count, i, chain) ==
  [size |-> t.size, count |-> count, items |-> [t.items EXCEPT ![i] = chain]]

(* Inserting a new key appends a node to its chain and counts it.          *)
LEMMA PlaceNew ==
  ASSUME NEW V, NEW t, IsTable(t, V), NEW key \in DOMAIN hash, NEW value,
         ~isPresent(t, key)
  PROVE  place(t, key, value) =
           WithChain(t, t.count + 1, index(t, key), Append(chainOf(t, key), Node(key, value)))
<1>1. index(t, key) \in 0 .. t.size - 1
  BY IndexInRange DEF IsTable
<1>2. QED
  BY <1>1 DEF place, WithChain, IsTable, chainOf

(* Inserting an old key replaces a value within its chain.                 *)
LEMMA PlaceOld ==
  ASSUME NEW V, NEW t, Sound(t, V), NEW key \in DOMAIN hash, NEW value,
         NEW n \in nodesOf(chainOf(t, key), key)
  PROVE  place(t, key, value) =
           WithChain(t, t.count, index(t, key),
                     [chainOf(t, key) EXCEPT ![n].value = value])
<1>1. index(t, key) \in 0 .. t.size - 1
  BY IndexInRange DEF IsTable, Sound
<1>2. isPresent(t, key) /\ Min(nodesOf(chainOf(t, key), key)) = n
  BY OnlyNode DEF isPresent
<1>3. place(t, key, value) = [t EXCEPT !.items[index(t, key)][n].value = value]
  BY <1>2, Zenon DEF place
<1>4. QED
  BY <1>1, <1>3 DEF WithChain, IsTable, chainOf, Sound

(* A table stays sound when a chain gives way to another one whose keys    *)
(* belong there and differ, and only the keys of this chain see it.        *)
LEMMA WithChainSound ==
  ASSUME NEW V, NEW t, Sound(t, V), NEW count \in Nat,
         NEW i \in 0 .. t.size - 1, NEW chain \in Seq(Nodes(V)),
         \A n \in DOMAIN chain : index(t, chain[n].key) = i,
         \A m, n \in DOMAIN chain : chain[m].key = chain[n].key => m = n,
         NEW u, u = WithChain(t, count, i, chain)
  PROVE  /\ Sound(u, V) /\ u.size = t.size /\ u.count = count
         /\ \A key \in DOMAIN hash :
              chainOf(u, key) = IF index(t, key) = i THEN chain ELSE chainOf(t, key)
<1>1. u.size = t.size /\ u.count = count /\ u.items = [t.items EXCEPT ![i] = chain]
  BY DEF WithChain
<1>2. t.size \in Nat \ {0} /\ t.items \in [0 .. t.size - 1 -> Seq(Nodes(V))]
  BY DEF Sound, IsTable
<1>3. IsTable(u, V)
  BY <1>1, <1>2 DEF IsTable, WithChain
<1>4. \A key : index(u, key) = index(t, key)
  BY <1>1 DEF index
<1>5. ASSUME NEW c \in 0 .. t.size - 1 PROVE u.items[c] = IF c = i THEN chain ELSE t.items[c]
  BY <1>1, <1>2
<1>6. Placed(u)
  BY <1>1, <1>4, <1>5 DEF Sound, Placed
<1>7. Distinct(u)
  BY <1>1, <1>5 DEF Sound, Distinct
<1>8. ASSUME NEW key \in DOMAIN hash
      PROVE  chainOf(u, key) = IF index(t, key) = i THEN chain ELSE chainOf(t, key)
  <2>1. index(t, key) \in 0 .. t.size - 1
    BY <1>2, IndexInRange
  <2>2. QED
    BY <1>4, <1>5, <2>1, Zenon DEF chainOf
<1>9. QED
  BY <1>1, <1>3, <1>6, <1>7, <1>8, Zenon DEF Sound

(* Inserting a key that is not there.                                      *)
LEMMA PlaceNewSound ==
  ASSUME NEW V, NEW t, Sound(t, V), NEW key \in DOMAIN hash, NEW value \in V,
         ~isPresent(t, key), NEW u, u = place(t, key, value)
  PROVE  /\ Sound(u, V) /\ u.size = t.size /\ u.count = t.count + 1
         /\ \A k \in DOMAIN hash : chainOf(u, k) =
              IF index(t, k) = index(t, key) THEN Append(chainOf(t, k), Node(key, value))
                                             ELSE chainOf(t, k)
<1> DEFINE i == index(t, key)
           old == chainOf(t, key)
           chain == Append(old, Node(key, value))
<1>1. i \in 0 .. t.size - 1 /\ t.count + 1 \in Nat
  BY IndexInRange DEF Sound, IsTable
<1>2. old \in Seq(Nodes(V)) /\ Node(key, value) \in Nodes(V)
  BY ChainIsSeq DEF Sound, Node, Nodes
<1>3. /\ chain \in Seq(Nodes(V)) /\ DOMAIN chain = 1 .. Len(old) + 1 /\ DOMAIN old = 1 .. Len(old)
      /\ Len(old) \in Nat
      /\ \A n \in 1 .. Len(old) : chain[n] = old[n]
      /\ chain[Len(old) + 1] = Node(key, value)
  BY <1>2
<1>4. old = t.items[i]
  BY DEF chainOf
<1>5. \A n \in DOMAIN old : index(t, old[n].key) = i
  BY <1>1, <1>4 DEF Sound, Placed
<1>6. \A m, n \in DOMAIN old : old[m].key = old[n].key => m = n
  BY <1>1, <1>4, Zenon DEF Sound, Distinct
<1>7. \A n \in DOMAIN old : old[n].key # key
  BY DEF isPresent, nodesOf
<1>8. u = WithChain(t, t.count + 1, i, chain)
  BY PlaceNew DEF Sound
<1> HIDE DEF i, old, chain
<1>9. \A n \in DOMAIN chain : n \in DOMAIN old \/ n = Len(old) + 1
  BY <1>3
<1>10. Node(key, value).key = key
  BY DEF Node
<1>11. \A n \in DOMAIN chain : index(t, chain[n].key) = i
  BY <1>3, <1>5, <1>9, <1>10 DEF i
<1>12. \A m, n \in DOMAIN chain : chain[m].key = chain[n].key => m = n
  BY <1>3, <1>6, <1>7, <1>9, <1>10, Zenon
<1>13. /\ Sound(u, V) /\ u.size = t.size /\ u.count = t.count + 1
       /\ \A k \in DOMAIN hash :
            chainOf(u, k) = IF index(t, k) = i THEN chain ELSE chainOf(t, k)
  BY <1>1, <1>3, <1>8, <1>11, <1>12, WithChainSound
<1>14. ASSUME NEW k \in DOMAIN hash, index(t, k) = i PROVE chainOf(t, k) = old
  BY <1>14 DEF chainOf, old, i
<1>15. QED
  BY <1>13, <1>14, Zenon DEF chain, i

(* Replacing the value of a key that is there.                             *)
LEMMA PlaceOldSound ==
  ASSUME NEW V, NEW t, Sound(t, V), NEW key \in DOMAIN hash, NEW value \in V,
         NEW at \in nodesOf(chainOf(t, key), key), NEW u, u = place(t, key, value)
  PROVE  /\ Sound(u, V) /\ u.size = t.size /\ u.count = t.count
         /\ \A k \in DOMAIN hash : chainOf(u, k) =
              IF index(t, k) = index(t, key) THEN [chainOf(t, k) EXCEPT ![at].value = value]
                                             ELSE chainOf(t, k)
<1> DEFINE i == index(t, key)
           old == chainOf(t, key)
           chain == [old EXCEPT ![at].value = value]
<1>1. i \in 0 .. t.size - 1 /\ t.count \in Nat
  BY IndexInRange DEF Sound, IsTable
<1>2. old \in Seq(Nodes(V))
  BY ChainIsSeq DEF Sound
<1>3. at \in DOMAIN old /\ old[at] \in Nodes(V)
  BY <1>2 DEF nodesOf
<1>4. /\ chain \in Seq(Nodes(V)) /\ DOMAIN chain = DOMAIN old
      /\ \A n \in DOMAIN old : chain[n].key = old[n].key
  <2>1. [old[at] EXCEPT !.value = value] \in Nodes(V)
    BY <1>3 DEF Nodes
  <2>2. chain = [old EXCEPT ![at] = [old[at] EXCEPT !.value = value]]
    BY <1>3
  <2>3. [old[at] EXCEPT !.value = value].key = old[at].key
    BY <1>3 DEF Nodes
  <2>4. chain \in Seq(Nodes(V))
    BY <1>2, <1>3, <2>1, <2>2
  <2>5. QED
    BY <1>3, <2>2, <2>3, <2>4
<1>5. old = t.items[i]
  BY DEF chainOf
<1>6. \A n \in DOMAIN old : index(t, old[n].key) = i
  BY <1>1, <1>5 DEF Sound, Placed
<1>7. \A m, n \in DOMAIN old : old[m].key = old[n].key => m = n
  BY <1>1, <1>5, Zenon DEF Sound, Distinct
<1>8. u = WithChain(t, t.count, i, chain)
  BY PlaceOld
<1> HIDE DEF i, old, chain
<1>9. \A n \in DOMAIN chain : index(t, chain[n].key) = i
  BY <1>4, <1>6, Zenon
<1>10. \A m, n \in DOMAIN chain : chain[m].key = chain[n].key => m = n
  BY <1>4, <1>7, Zenon
<1>11. /\ Sound(u, V) /\ u.size = t.size /\ u.count = t.count
       /\ \A k \in DOMAIN hash :
            chainOf(u, k) = IF index(t, k) = i THEN chain ELSE chainOf(t, k)
  BY <1>1, <1>4, <1>8, <1>9, <1>10, WithChainSound
<1>12. ASSUME NEW k \in DOMAIN hash, index(t, k) = i PROVE chainOf(t, k) = old
  BY <1>12 DEF chainOf, old, i
<1>13. QED
  BY <1>11, <1>12, Zenon DEF chain, i

-----------------------------------------------------------------------------
(* What a search sees of a table are the nodes of its key.                 *)
LEMMA SameNodes ==
  ASSUME NEW V, NEW t, Sound(t, V), NEW u, NEW key \in DOMAIN hash,
         nodesOf(chainOf(u, key), key) = nodesOf(chainOf(t, key), key),
         \A n \in nodesOf(chainOf(t, key), key) :
           chainOf(u, key)[n].value = chainOf(t, key)[n].value
  PROVE  /\ isPresent(u, key) <=> isPresent(t, key)
         /\ search_hash_table(u, key) = search_hash_table(t, key)
<1>1. CASE nodesOf(chainOf(t, key), key) = {}
  BY <1>1 DEF isPresent, search_hash_table
<1>2. CASE nodesOf(chainOf(t, key), key) # {}
  <2>1. PICK n \in nodesOf(chainOf(t, key), key) : TRUE
    BY <1>2
  <2>2. Min(nodesOf(chainOf(t, key), key)) = n
    BY <2>1, OnlyNode
  <2>3. QED
    BY <1>2, <2>1, <2>2, Zenon DEF isPresent, search_hash_table
<1>3. QED
  BY <1>1, <1>2

(* The table u holds what t holds, but for one key.                        *)
Updates(u, t, key, value) ==
  \A k \in DOMAIN hash :
    /\ isPresent(u, k) <=> k = key \/ isPresent(t, k)
    /\ search_hash_table(u, k) = IF k = key THEN value ELSE search_hash_table(t, k)

(* Inserting a new key changes what a search returns for this key only.    *)
LEMMA PlaceNewUpdates ==
  ASSUME NEW V, NEW t, Sound(t, V), NEW key \in DOMAIN hash, NEW value \in V,
         ~isPresent(t, key)
  PROVE  Updates(place(t, key, value), t, key, value)
<1> DEFINE u == place(t, key, value)
<1>1. /\ Sound(u, V)
      /\ \A k \in DOMAIN hash : chainOf(u, k) =
           IF index(t, k) = index(t, key) THEN Append(chainOf(t, k), Node(key, value))
                                          ELSE chainOf(t, k)
  BY PlaceNewSound
<1>2. Node(key, value) \in Nodes(V) /\ Node(key, value).key = key /\ Node(key, value).value = value
  BY DEF Node, Nodes
<1> HIDE DEF u
<1> SUFFICES ASSUME NEW k \in DOMAIN hash
             PROVE  /\ isPresent(u, k) <=> k = key \/ isPresent(t, k)
                    /\ search_hash_table(u, k) = IF k = key THEN value ELSE search_hash_table(t, k)
  BY DEF Updates, u
<1> DEFINE old == chainOf(t, k)
           new == chainOf(u, k)
<1>3. old \in Seq(Nodes(V))
  BY ChainIsSeq DEF Sound
<1>4. CASE index(t, k) = index(t, key)
  <2>1. new = Append(old, Node(key, value))
    BY <1>1, <1>4
  <2> HIDE DEF old, new
  <2>2. /\ DOMAIN new = 1 .. Len(old) + 1 /\ DOMAIN old = 1 .. Len(old) /\ Len(old) \in Nat
        /\ \A n \in 1 .. Len(old) : new[n] = old[n]
        /\ new[Len(old) + 1] = Node(key, value)
    BY <1>2, <1>3, <2>1
  <2>3. CASE k = key
    <3>1. Len(old) + 1 \in nodesOf(new, k)
      BY <1>2, <2>2, <2>3 DEF nodesOf
    <3>2. search_hash_table(u, k) = new[Len(old) + 1].value
      BY <1>1, <3>1, SearchFinds DEF new
    <3>3. isPresent(u, k)
      BY <3>1 DEF isPresent, new
    <3>4. QED
      BY <1>2, <2>2, <2>3, <3>2, <3>3, Zenon
  <2>4. CASE k # key
    <3>1. \A n : n \in nodesOf(new, k) <=> n \in nodesOf(old, k)
      <4>1. \A n \in DOMAIN new : n \in DOMAIN old \/ n = Len(old) + 1
        BY <2>2
      <4>2. new[Len(old) + 1].key # k
        BY <1>2, <2>2, <2>4, Zenon
      <4>3. \A n \in DOMAIN old : n \in DOMAIN new /\ new[n] = old[n]
        BY <2>2
      <4>4. QED
        BY <4>1, <4>2, <4>3, Zenon DEF nodesOf
    <3>2. nodesOf(new, k) = nodesOf(old, k)
      BY <3>1
    <3>3. \A n \in nodesOf(old, k) : new[n].value = old[n].value
      BY <2>2 DEF nodesOf
    <3>4. QED
      BY <2>4, <3>2, <3>3, SameNodes DEF old, new
  <2>5. QED
    BY <2>3, <2>4
<1>5. CASE index(t, k) # index(t, key)
  <2>1. new = old /\ k # key
    BY <1>1, <1>5
  <2>2. QED
    BY <2>1, SameNodes
<1>6. QED
  BY <1>4, <1>5

(* So does replacing the value of an old one.                              *)
LEMMA PlaceOldUpdates ==
  ASSUME NEW V, NEW t, Sound(t, V), NEW key \in DOMAIN hash, NEW value \in V,
         isPresent(t, key)
  PROVE  Updates(place(t, key, value), t, key, value)
<1> DEFINE u == place(t, key, value)
<1>1. PICK at \in nodesOf(chainOf(t, key), key) : TRUE
  BY DEF isPresent
<1>2. /\ Sound(u, V)
      /\ \A k \in DOMAIN hash : chainOf(u, k) =
           IF index(t, k) = index(t, key) THEN [chainOf(t, k) EXCEPT ![at].value = value]
                                          ELSE chainOf(t, k)
  BY PlaceOldSound
<1> HIDE DEF u
<1> SUFFICES ASSUME NEW k \in DOMAIN hash
             PROVE  /\ isPresent(u, k) <=> k = key \/ isPresent(t, k)
                    /\ search_hash_table(u, k) = IF k = key THEN value ELSE search_hash_table(t, k)
  BY DEF Updates, u
<1> DEFINE old == chainOf(t, k)
           new == chainOf(u, k)
<1>3. old \in Seq(Nodes(V))
  BY ChainIsSeq DEF Sound
<1>4. CASE index(t, k) = index(t, key)
  <2>1. new = [old EXCEPT ![at].value = value]
    BY <1>2, <1>4
  <2>2. old = chainOf(t, key)
    BY <1>4 DEF chainOf
  <2>3. at \in DOMAIN old /\ old[at].key = key
    BY <2>2 DEF nodesOf
  <2> HIDE DEF old, new
  <2>4. \A n \in DOMAIN old : old[n] \in Nodes(V)
    BY <1>3
  <2>5. /\ DOMAIN new = DOMAIN old
        /\ \A n \in DOMAIN old : n # at => new[n] = old[n]
        /\ new[at] = [old[at] EXCEPT !.value = value]
    BY <1>3, <2>1, <2>3
  <2>6. new[at].key = old[at].key /\ new[at].value = value
    BY <2>3, <2>4, <2>5 DEF Nodes
  <2>7. \A n \in DOMAIN old : new[n].key = old[n].key
    BY <2>5, <2>6, Zenon
  <2>8. nodesOf(new, k) = nodesOf(old, k)
    BY <2>5, <2>7, Zenon DEF nodesOf
  <2>9. CASE k = key
    <3>1. at \in nodesOf(new, k)
      BY <2>2, <2>8, <2>9
    <3>2. search_hash_table(u, k) = new[at].value /\ isPresent(u, k)
      BY <1>2, <3>1, SearchFinds DEF new, isPresent
    <3>3. QED
      BY <2>6, <2>9, <3>2
  <2>10. CASE k # key
    <3>1. \A n \in nodesOf(old, k) : new[n].value = old[n].value
      BY <2>3, <2>5, <2>10, Zenon DEF nodesOf
    <3>2. QED
      BY <2>8, <2>10, <3>1, SameNodes DEF old, new
  <2>11. QED
    BY <2>9, <2>10
<1>5. CASE index(t, k) # index(t, key)
  <2>1. new = old /\ k # key
    BY <1>2, <1>5
  <2>2. QED
    BY <2>1, SameNodes
<1>6. QED
  BY <1>4, <1>5

-----------------------------------------------------------------------------
(* The nodes of a table, chain by chain.                                   *)
chains(t) == [i \in 1 .. t.size |-> t.items[i - 1]]

(* The chains, numbered from 1, are sequences of nodes.                    *)
LEMMA ChainsAreSeqs ==
  ASSUME NEW V, NEW t, IsTable(t, V)
  PROVE  AreSeqs(chains(t), t.size, Nodes(V)) /\ chains(t) \in Seq(Seq(Nodes(V)))
         /\ Len(chains(t)) = t.size /\ t.size \in Nat /\ t.size > 0
<1>1. t.size \in Nat \ {0} /\ t.items \in [0 .. t.size - 1 -> Seq(Nodes(V))]
  BY DEF IsTable
<1>2. \A i \in 1 .. t.size : i - 1 \in 0 .. t.size - 1
  BY <1>1
<1>3. chains(t) \in [1 .. t.size -> Seq(Nodes(V))]
  BY <1>1, <1>2 DEF chains
<1>4. QED
  BY <1>1, <1>3 DEF AreSeqs

(* allNodes joins them.                                                    *)
LEMMA AllNodesJoin ==
  ASSUME NEW V, NEW t, IsTable(t, V)
  PROVE  \E f : Joins(f, chains(t), t.size) /\ allNodes(t) = f[t.size]
<1>1. chains(t) \in Seq(Seq(Nodes(V))) /\ Len(chains(t)) = t.size /\ t.size > 0
  BY ChainsAreSeqs
<1>2. PICK f : Joins(f, chains(t), Len(chains(t))) /\ FlattenSeq(chains(t)) = f[Len(chains(t))]
  BY <1>1, FlattenJoins
<1>3. QED
  BY <1>1, <1>2, Zenon DEF allNodes, chains

(* It is a sequence of nodes.                                              *)
LEMMA AllNodesSeq ==
  ASSUME NEW V, NEW t, IsTable(t, V)
  PROVE  allNodes(t) \in Seq(Nodes(V))
<1>1. AreSeqs(chains(t), t.size, Nodes(V)) /\ t.size \in Nat /\ t.size \in 1 .. t.size
  BY ChainsAreSeqs
<1>2. PICK f : Joins(f, chains(t), t.size) /\ allNodes(t) = f[t.size]
  BY AllNodesJoin
<1>3. \A n \in 1 .. t.size : f[n] \in Seq(Nodes(V))
  BY <1>1, <1>2, JoinsType
<1>4. QED
  BY <1>1, <1>2, <1>3

(* They are the nodes that a search finds.                                 *)
LEMMA AllNodesFound ==
  ASSUME NEW V, NEW t, Sound(t, V)
  PROVE  /\ \A j \in 1 .. Len(allNodes(t)) :
              /\ allNodes(t)[j].key \in DOMAIN hash
              /\ isPresent(t, allNodes(t)[j].key)
              /\ search_hash_table(t, allNodes(t)[j].key) = allNodes(t)[j].value
         /\ \A key \in DOMAIN hash : isPresent(t, key) =>
              \E j \in 1 .. Len(allNodes(t)) : allNodes(t)[j].key = key
<1>1. AreSeqs(chains(t), t.size, Nodes(V)) /\ t.size \in Nat /\ t.size \in 1 .. t.size
  BY ChainsAreSeqs DEF Sound
<1>2. PICK f : Joins(f, chains(t), t.size) /\ allNodes(t) = f[t.size]
  BY AllNodesJoin DEF Sound
<1> DEFINE nodes == allNodes(t)
<1>3. /\ \A j \in 1 .. Len(nodes) : \E c \in 1 .. t.size : \E m \in 1 .. Len(chains(t)[c]) :
           nodes[j] = chains(t)[c][m]
      /\ \A c \in 1 .. t.size : \A m \in 1 .. Len(chains(t)[c]) : \E j \in 1 .. Len(nodes) :
           nodes[j] = chains(t)[c][m]
  <2>1. \A n \in 1 .. t.size : Gathers(f[n], chains(t), n)
    BY <1>1, <1>2, JoinsMembers
  <2>2. Gathers(nodes, chains(t), t.size)
    BY <1>1, <1>2, <2>1
  <2>3. QED
    BY <2>2, Zenon DEF Gathers
<1> HIDE DEF nodes
<1>4. ASSUME NEW j \in 1 .. Len(nodes)
      PROVE  /\ nodes[j].key \in DOMAIN hash
             /\ isPresent(t, nodes[j].key)
             /\ search_hash_table(t, nodes[j].key) = nodes[j].value
  <2>1. PICK c \in 1 .. t.size : \E m \in 1 .. Len(chains(t)[c]) : nodes[j] = chains(t)[c][m]
    BY <1>3, Zenon
  <2>2. PICK m \in 1 .. Len(chains(t)[c]) : nodes[j] = chains(t)[c][m]
    BY <2>1
  <2> DEFINE chain == t.items[c - 1]
             key == nodes[j].key
  <2>3. chains(t)[c] = chain /\ c - 1 \in 0 .. t.size - 1
    BY <1>1 DEF chains
  <2>4. chain \in Seq(Nodes(V))
    BY <2>3 DEF Sound, IsTable
  <2>5. m \in DOMAIN chain /\ nodes[j] = chain[m] /\ chain[m] \in Nodes(V)
    BY <2>2, <2>3, <2>4
  <2>6. key \in DOMAIN hash
    BY <2>5 DEF Nodes
  <2>7. index(t, key) = c - 1
    BY <2>3, <2>5 DEF Sound, Placed
  <2>8. chainOf(t, key) = chain
    BY <2>7, Zenon DEF chainOf
  <2>9. m \in nodesOf(chainOf(t, key), key)
    BY <2>5, <2>8 DEF nodesOf
  <2>10. search_hash_table(t, key) = chain[m].value
    BY <2>6, <2>8, <2>9, SearchFinds
  <2>11. QED
    BY <2>5, <2>6, <2>9, <2>10 DEF isPresent
<1>5. ASSUME NEW key \in DOMAIN hash, isPresent(t, key)
      PROVE  \E j \in 1 .. Len(nodes) : nodes[j].key = key
  <2>1. PICK m \in nodesOf(chainOf(t, key), key) : TRUE
    BY <1>5 DEF isPresent
  <2> DEFINE i == index(t, key)
  <2>2. i \in 0 .. t.size - 1
    BY IndexInRange DEF Sound, IsTable
  <2>3. i + 1 \in 1 .. t.size /\ chains(t)[i + 1] = chainOf(t, key)
    BY <1>1, <2>2 DEF chains, chainOf
  <2>4. chainOf(t, key) \in Seq(Nodes(V))
    BY ChainIsSeq DEF Sound
  <2>5. m \in 1 .. Len(chainOf(t, key)) /\ chainOf(t, key)[m].key = key
    BY <2>1, <2>4 DEF nodesOf
  <2> HIDE DEF i
  <2>6. \A x \in 1 .. Len(chains(t)[i + 1]) : \E j \in 1 .. Len(nodes) :
          nodes[j] = chains(t)[i + 1][x]
    BY <1>3, <2>3, Zenon
  <2>7. PICK j \in 1 .. Len(nodes) : nodes[j] = chainOf(t, key)[m]
    BY <2>3, <2>5, <2>6, Zenon
  <2>8. QED
    BY <2>5, <2>7, Zenon
<1>6. QED
  BY <1>4, <1>5, Zenon DEF nodes

(* No key is in two of them.                                               *)
LEMMA AllNodesDistinct ==
  ASSUME NEW V, NEW t, Sound(t, V)
  PROVE  \A i, j \in 1 .. Len(allNodes(t)) : allNodes(t)[i].key = allNodes(t)[j].key => i = j
<1> DEFINE N == t.size
           S == Nodes(V)
           seqs == chains(t)
<1>1. AreSeqs(seqs, N, S) /\ N \in Nat /\ N \in 1 .. N
  BY ChainsAreSeqs DEF Sound
<1>2. PICK f : Joins(f, seqs, N) /\ allNodes(t) = f[N]
  BY AllNodesJoin DEF Sound
<1>3. \A c \in 1 .. N : /\ \A m \in 1 .. Len(seqs[c]) : index(t, seqs[c][m].key) + 1 = c
                        /\ \A m, l \in 1 .. Len(seqs[c]) : seqs[c][m].key = seqs[c][l].key => m = l
  <2> TAKE c \in 1 .. N
  <2>1. seqs[c] = t.items[c - 1] /\ c - 1 \in 0 .. t.size - 1 /\ c \in Nat
    BY <1>1 DEF chains
  <2>2. seqs[c] \in Seq(S) /\ DOMAIN t.items[c - 1] = 1 .. Len(seqs[c])
    BY <1>1, <2>1 DEF AreSeqs
  <2> HIDE DEF seqs
  <2>3. \A m \in 1 .. Len(seqs[c]) : index(t, seqs[c][m].key) = c - 1
    BY <2>1, <2>2, Zenon DEF Sound, Placed
  <2>4. \A m, l \in 1 .. Len(seqs[c]) : seqs[c][m].key = seqs[c][l].key => m = l
    BY <2>1, <2>2, Zenon DEF Sound, Distinct
  <2>5. QED
    BY <2>1, <2>3, <2>4
<1> DEFINE in(x, c) == index(t, x.key) + 1 = c
           distinct(s) == \A i, j \in 1 .. Len(s) : s[i].key = s[j].key => i = j
           T == {n \in Nat : n > 0 => distinct(f[n])}
<1>4. \A n \in 1 .. N : f[n] \in Seq(S)
  BY <1>1, <1>2, JoinsType
<1>5. \A n \in 1 .. N : \A j \in 1 .. Len(f[n]) : \E c \in 1 .. n : \E m \in 1 .. Len(seqs[c]) :
         f[n][j] = seqs[c][m]
  <2> HIDE DEF N, S, seqs
  <2>1. \A n \in 1 .. N : Gathers(f[n], seqs, n)
    BY <1>1, <1>2, JoinsMembers
  <2>2. QED
    BY <2>1, Zenon DEF Gathers
<1> HIDE DEF N, S, seqs
<1>6. 0 \in T
  OBVIOUS
<1>7. ASSUME NEW n \in 0 .. N - 1, n \in T PROVE n + 1 \in T
  <2>1. n + 1 \in 1 .. N /\ (n + 1) - 1 = n
    BY <1>1
  <2>2. seqs[n + 1] \in Seq(S)
    BY <1>1, <2>1 DEF AreSeqs
  <2>3. f[n + 1] = IF n + 1 = 1 THEN seqs[n + 1] ELSE f[(n + 1) - 1] \o seqs[n + 1]
    BY <1>2, <2>1 DEF Joins
  <2>4. distinct(seqs[n + 1])
    BY <1>3, <2>1, Zenon
  <2>5. CASE n = 0
    <3>1. f[n + 1] = seqs[n + 1]
      BY <2>3, <2>5
    <3>2. distinct(f[n + 1])
      BY <2>4, <3>1, Zenon
    <3> HIDE DEF distinct
    <3>3. QED
      BY <3>2, <2>1
  <2>6. CASE n # 0
    <3>1. n \in 1 .. N /\ n + 1 # 1
      BY <2>6, <1>1
    <3>2. f[n] \in Seq(S)
      BY <3>1, <1>4
    <3>3. f[n + 1] = f[n] \o seqs[n + 1]
      BY <2>1, <2>3, <3>1, Zenon
    <3>4. distinct(f[n])
      BY <1>7, <3>1
    <3>5. \A j \in 1 .. Len(f[n]) : \E c \in 1 .. n : in(f[n][j], c)
      <4> TAKE j \in 1 .. Len(f[n])
      <4>1. PICK c \in 1 .. n : \E m \in 1 .. Len(seqs[c]) : f[n][j] = seqs[c][m]
        BY <1>5, <3>1, Zenon
      <4>2. PICK m \in 1 .. Len(seqs[c]) : f[n][j] = seqs[c][m]
        BY <4>1
      <4>3. c \in 1 .. N
        BY <3>1, <1>1
      <4>4. in(seqs[c][m], c)
        BY <1>3, <4>3, Zenon
      <4>5. in(f[n][j], c)
        BY <4>2, <4>4, Zenon
      <4>6. QED
        BY <4>5, Zenon
    <3>6. \A m \in 1 .. Len(seqs[n + 1]) : in(seqs[n + 1][m], n + 1)
      BY <1>3, <2>1, Zenon
    <3>7. \A j \in 1 .. Len(f[n]) : \A m \in 1 .. Len(seqs[n + 1]) :
             f[n][j].key # seqs[n + 1][m].key
      <4> SUFFICES ASSUME NEW j \in 1 .. Len(f[n]), NEW m \in 1 .. Len(seqs[n + 1]),
                          f[n][j].key = seqs[n + 1][m].key
                   PROVE  FALSE
        BY Zenon
      <4>1. PICK c \in 1 .. n : in(f[n][j], c)
        BY <3>5, Zenon
      <4>2. c = n + 1
        <5>1. index(t, f[n][j].key) + 1 = c
          BY <4>1
        <5>2. index(t, seqs[n + 1][m].key) + 1 = n + 1
          BY <3>6, Zenon
        <5>3. QED
          BY <5>1, <5>2, Zenon
      <4>3. QED
        BY <4>2
    <3>8. distinct(f[n + 1])
      <4> DEFINE a == f[n]
                 b == seqs[n + 1]
                 s == f[n + 1]
                 k == Len(a)
                 l == Len(b)
      <4>1. /\ k \in Nat /\ l \in Nat /\ Len(s) = k + l
            /\ \A i \in 1 .. k + l : s[i] = IF i <= k THEN a[i] ELSE b[i - k]
        <5>1. /\ Len(a \o b) = k + l /\ k \in Nat /\ l \in Nat
              /\ \A i \in 1 .. k + l : (a \o b)[i] = IF i <= k THEN a[i] ELSE b[i - k]
          <6> HIDE DEF a, b
          <6>1. a \in Seq(S) /\ b \in Seq(S)
            BY <2>2, <3>2 DEF a, b
          <6>2. QED
            BY <6>1, ConcatProperties
        <5>2. QED
          BY <3>3, <5>1, Zenon
      <4>2. /\ \A i, j \in 1 .. k : a[i].key = a[j].key => i = j
            /\ \A i, j \in 1 .. l : b[i].key = b[j].key => i = j
            /\ \A i \in 1 .. k, j \in 1 .. l : a[i].key # b[j].key
        BY <2>4, <3>4, <3>7, Zenon
      <4> HIDE DEF a, b, s, k, l
      <4>3. ASSUME NEW i \in 1 .. k + l
            PROVE  \/ i \in 1 .. k /\ s[i] = a[i]
                   \/ i - k \in 1 .. l /\ s[i] = b[i - k]
        BY <4>1
      <4>4. ASSUME NEW i \in 1 .. k + l, NEW j \in 1 .. k + l, s[i].key = s[j].key
            PROVE  i = j
        <5>1. CASE i \in 1 .. k /\ s[i] = a[i] /\ j \in 1 .. k /\ s[j] = a[j]
          BY <4>2, <4>4, <5>1, Zenon
        <5>2. CASE i - k \in 1 .. l /\ s[i] = b[i - k] /\ j - k \in 1 .. l /\ s[j] = b[j - k]
          <6>1. i - k = j - k
            BY <4>2, <4>4, <5>2, Zenon
          <6>2. QED
            BY <4>1, <6>1
        <5>3. CASE i \in 1 .. k /\ s[i] = a[i] /\ j - k \in 1 .. l /\ s[j] = b[j - k]
          BY <4>2, <4>4, <5>3, Zenon
        <5>4. CASE i - k \in 1 .. l /\ s[i] = b[i - k] /\ j \in 1 .. k /\ s[j] = a[j]
          BY <4>2, <4>4, <5>4, Zenon
        <5>5. QED
          BY <4>3, <5>1, <5>2, <5>3, <5>4, Zenon
      <4>5. QED
        BY <4>1, <4>4, Zenon DEF s
    <3> HIDE DEF distinct
    <3>9. QED
      BY <3>8, <2>1
  <2>7. QED
    BY <2>5, <2>6
<1> HIDE DEF T
<1>8. \A n \in 0 .. N : n \in T
  BY <1>1, <1>6, <1>7, BoundedInduction
<1> HIDE DEF distinct
<1>9. distinct(f[N])
  <2>1. N \in T /\ N > 0
    BY <1>1, <1>8
  <2>2. QED
    BY <2>1 DEF T
<1>10. QED
  BY <1>2, <1>9, Zenon DEF distinct

-----------------------------------------------------------------------------
(* A new table is sound and holds nothing.                                 *)
LEMMA CreateSound ==
  ASSUME NEW V, NEW size \in Nat \ {0}, NEW t, t = create_hash_table(size)
  PROVE  /\ Sound(t, V) /\ t.size = size /\ t.count = 0
         /\ Len(allNodes(t)) = 0
         /\ \A key \in DOMAIN hash : ~isPresent(t, key)
<1>1. t.size = size /\ t.count = 0 /\ t.items = [i \in 0 .. size - 1 |-> <<>>]
  BY DEF create_hash_table
<1>2. \A i \in 0 .. t.size - 1 : t.items[i] = <<>> /\ DOMAIN t.items[i] = {}
  BY <1>1
<1>3. t.items \in [0 .. t.size - 1 -> Seq(Nodes(V))]
  BY <1>1
<1>4. IsTable(t, V)
  BY <1>1, <1>3 DEF IsTable, create_hash_table
<1>5. Sound(t, V)
  BY <1>2, <1>4 DEF Sound, Placed, Distinct
<1>6. \A key \in DOMAIN hash : ~isPresent(t, key)
  <2> TAKE key \in DOMAIN hash
  <2>1. index(t, key) \in 0 .. t.size - 1
    BY <1>1, IndexInRange
  <2>2. DOMAIN chainOf(t, key) = {}
    BY <1>2, <2>1 DEF chainOf
  <2>3. QED
    BY <2>2 DEF isPresent, nodesOf
<1>7. Len(allNodes(t)) = 0
  <2>1. Len(allNodes(t)) \in Nat
    BY <1>4, AllNodesSeq, LenProperties
  <2>2. Len(allNodes(t)) # 0 => 1 \in 1 .. Len(allNodes(t))
    BY <2>1
  <2>3. QED
    BY <1>5, <1>6, <2>2, AllNodesFound, Zenon
<1>8. QED
  BY <1>1, <1>5, <1>6, <1>7

(* Inserting adds one to what allNodes lists for a new key and nothing for *)
(* an old one.                                                             *)
LEMMA PlaceLength ==
  ASSUME NEW V, NEW t, Sound(t, V), NEW key \in DOMAIN hash, NEW value \in V,
         NEW u, u = place(t, key, value)
  PROVE  Len(allNodes(u)) = Len(allNodes(t)) + (IF isPresent(t, key) THEN 0 ELSE 1)
<1> DEFINE N == t.size
           i == index(t, key)
           d == IF isPresent(t, key) THEN 0 ELSE 1
<1>1. i \in 0 .. N - 1
  BY IndexInRange DEF Sound, IsTable
<1>2. \E count, chain : /\ u = WithChain(t, count, i, chain)
                        /\ Sound(u, V) /\ u.size = N
                        /\ Len(chain) = Len(chainOf(t, key)) + d
  <2>1. CASE ~isPresent(t, key)
    <3>1. u = WithChain(t, t.count + 1, i, Append(chainOf(t, key), Node(key, value)))
      BY <2>1, PlaceNew DEF Sound
    <3>2. Sound(u, V) /\ u.size = N
      BY <2>1, PlaceNewSound
    <3>3. Len(Append(chainOf(t, key), Node(key, value))) = Len(chainOf(t, key)) + 1
      <4>1. chainOf(t, key) \in Seq(Nodes(V)) /\ Node(key, value) \in Nodes(V)
        BY ChainIsSeq DEF Sound, Node, Nodes
      <4>2. QED
        BY <4>1, AppendProperties
    <3>4. QED
      BY <2>1, <3>1, <3>2, <3>3
  <2>2. CASE isPresent(t, key)
    <3>1. PICK n \in nodesOf(chainOf(t, key), key) : TRUE
      BY <2>2 DEF isPresent
    <3> DEFINE chain == [chainOf(t, key) EXCEPT ![n].value = value]
    <3>2. u = WithChain(t, t.count, i, chain)
      BY PlaceOld
    <3>3. Sound(u, V) /\ u.size = N
      BY PlaceOldSound
    <3>4. Len(chain) = Len(chainOf(t, key)) + 0
      <4>1. chainOf(t, key) \in Seq(Nodes(V))
        BY ChainIsSeq DEF Sound
      <4>2. Len(chainOf(t, key)) \in Nat /\ Len(chain) = Len(chainOf(t, key))
        BY <4>1
      <4> HIDE DEF chain
      <4>3. QED
        BY <4>2
    <3> HIDE DEF chain
    <3>5. QED
      BY <2>2, <3>2, <3>3, <3>4
  <2>3. QED
    BY <2>1, <2>2
<1>3. PICK count, chain : /\ u = WithChain(t, count, i, chain)
                          /\ Sound(u, V) /\ u.size = N
                          /\ Len(chain) = Len(chainOf(t, key)) + d
  BY <1>2
<1>4. AreSeqs(chains(t), N, Nodes(V)) /\ AreSeqs(chains(u), N, Nodes(V)) /\ N \in Nat
  BY <1>3, ChainsAreSeqs DEF Sound
<1>5. PICK f : Joins(f, chains(t), N) /\ allNodes(t) = f[N]
  BY AllNodesJoin DEF Sound
<1>6. PICK g : Joins(g, chains(u), N) /\ allNodes(u) = g[N]
  BY <1>3, AllNodesJoin DEF Sound
<1>7. t.items \in [0 .. N - 1 -> Seq(Nodes(V))] /\ u.items = [t.items EXCEPT ![i] = chain]
  BY <1>3 DEF Sound, IsTable, WithChain
<1>8. ASSUME NEW c \in 1 .. N
      PROVE  chains(u)[c] = IF c = i + 1 THEN chain ELSE chains(t)[c]
  <2>1. c - 1 \in 0 .. N - 1 /\ (c - 1 = i <=> c = i + 1)
    BY <1>1, <1>4
  <2>2. chains(t)[c] = t.items[c - 1] /\ chains(u)[c] = u.items[c - 1]
    BY <1>3 DEF chains
  <2>3. QED
    BY <1>7, <2>1, <2>2
<1>9. i + 1 \in 1 .. N /\ d \in Nat
  BY <1>1, <1>4
<1>10. Len(chains(u)[i + 1]) = Len(chains(t)[i + 1]) + d
  <2>1. chains(u)[i + 1] = chain
    BY <1>8, <1>9
  <2>2. chains(t)[i + 1] = chainOf(t, key)
    BY <1>1, <1>9 DEF chains, chainOf
  <2>3. QED
    BY <1>3, <2>1, <2>2, Zenon
<1>11. \A c \in 1 .. N : c # i + 1 => chains(u)[c] = chains(t)[c]
  BY <1>8, Zenon
<1>12. Longer(chains(u), chains(t), N, i + 1, d)
  BY <1>10, <1>11, Zenon DEF Longer
<1> HIDE DEF N, i, d
<1>13. Len(g[N]) = Len(f[N]) + d
  BY <1>4, <1>5, <1>6, <1>9, <1>12, JoinsLength
<1>14. QED
  BY <1>5, <1>6, <1>13, Zenon DEF d

-----------------------------------------------------------------------------
(* rehash_hash_table fills a new table node by node: filled[k] is what it  *)
(* is after k of them.                                                     *)
Fills(filled, nodes, newSize) ==
  /\ filled[0] = create_hash_table(newSize)
  /\ \A k \in 0 .. Len(nodes) - 1 :
       filled[k + 1] = place(filled[k], nodes[k + 1].key, nodes[k + 1].value)

(* The fold of rehash_hash_table, unfolded to the recursive function on    *)
(* sets of positions that the library defines it by.                       *)
LEMMA RehashIs ==
  ASSUME NEW table, NEW newSize
  PROVE  rehash_hash_table(table, newSize) =
           (CHOOSE g : g = [s \in SUBSET (DOMAIN allNodes(table)) |->
              IF s = {} THEN create_hash_table(newSize)
              ELSE place(g[s \ {Max(s)}], allNodes(table)[Max(s)].key,
                         allNodes(table)[Max(s)].value)])[DOMAIN allNodes(table)]
BY DEF rehash_hash_table, FoldLeft, MapThenFoldSet

(* That function exists, and its values on 1..k are the tables after the   *)
(* first k nodes.                                                          *)
LEMMA RehashFills ==
  ASSUME NEW S, NEW table, allNodes(table) \in Seq(S), NEW newSize
  PROVE  \E filled : /\ Fills(filled, allNodes(table), newSize)
                     /\ rehash_hash_table(table, newSize) = filled[Len(allNodes(table))]
<1> DEFINE nodes == allNodes(table)
           N == Len(nodes)
           next(g, s) == place(g[s \ {Max(s)}], nodes[Max(s)].key, nodes[Max(s)].value)
           new == create_hash_table(newSize)
           solves(g, n) == g = [s \in SUBSET (1 .. n) |-> IF s = {} THEN new ELSE next(g, s)]
           T == {n \in Nat : \E g : solves(g, n)}
<1>1. N \in Nat /\ DOMAIN nodes = 1 .. N
  OBVIOUS
<1>2. \A n \in Nat : \A s \in SUBSET (1 .. n) : n \in s => Max(s) = n
  <2> TAKE n \in Nat
  <2> TAKE s \in SUBSET (1 .. n)
  <2>1. HAVE n \in s
  <2>2. s \subseteq Int /\ \A k \in s : k <= n
    OBVIOUS
  <2>3. QED
    BY <2>1, <2>2, MaxOfInterval
<1> HIDE DEF nodes, N, new
<1>3. 0 \in T
  <2> DEFINE g == [s \in SUBSET (1 .. 0) |-> new]
  <2>1. \A s \in SUBSET (1 .. 0) : s = {}
    OBVIOUS
  <2>2. solves(g, 0)
    BY <2>1
  <2> HIDE DEF solves, g
  <2>3. QED
    BY <2>2
<1>4. ASSUME NEW n \in 0 .. N - 1, n \in T PROVE n + 1 \in T
  <2>1. PICK g : solves(g, n)
    BY <1>4
  <2> DEFINE h == [s \in SUBSET (1 .. n + 1) |->
                    IF s \in SUBSET (1 .. n) THEN g[s] ELSE next(g, s)]
  <2>2. ASSUME NEW s \in SUBSET (1 .. n + 1)
        PROVE  h[s] = IF s = {} THEN new ELSE next(h, s)
    <3>1. CASE s \in SUBSET (1 .. n)
      <4>1. h[s] = g[s]
        BY <3>1
      <4>2. s \ {Max(s)} \in SUBSET (1 .. n) /\ s \ {Max(s)} \in SUBSET (1 .. n + 1)
        BY <3>1
      <4>3. h[s \ {Max(s)}] = g[s \ {Max(s)}]
        BY <4>2
      <4>4. g[s] = IF s = {} THEN new ELSE next(g, s)
        BY <2>1, <3>1
      <4> HIDE DEF h
      <4>5. QED
        BY <4>1, <4>3, <4>4, Zenon
    <3>2. CASE s \notin SUBSET (1 .. n)
      <4>1. n + 1 \in s /\ s # {} /\ n + 1 \in Nat
        BY <3>2
      <4>2. Max(s) = n + 1
        BY <1>2, <4>1
      <4>3. s \ {n + 1} \in SUBSET (1 .. n) /\ s \ {n + 1} \in SUBSET (1 .. n + 1)
        OBVIOUS
      <4>4. h[s \ {Max(s)}] = g[s \ {Max(s)}]
        BY <4>2, <4>3
      <4>5. h[s] = next(g, s)
        BY <3>2
      <4> HIDE DEF h
      <4>6. QED
        BY <4>1, <4>4, <4>5, Zenon
    <3>3. QED
      BY <3>1, <3>2
  <2>3. solves(h, n + 1)
    <3>1. h = [s \in SUBSET (1 .. n + 1) |-> h[s]]
      BY Zenon
    <3> HIDE DEF h, next
    <3>2. QED
      BY <2>2, <3>1
  <2> HIDE DEF solves, h
  <2>4. n + 1 \in Nat
    OBVIOUS
  <2>5. QED
    BY <2>3, <2>4
<1> HIDE DEF T
<1>5. N \in T
  <2>1. \A n \in 0 .. N : n \in T
    BY <1>1, <1>3, <1>4, BoundedInduction
  <2>2. QED
    BY <1>1, <2>1
<1> DEFINE F == CHOOSE g : solves(g, N)
<1>6. solves(F, N)
  BY <1>5, Zenon DEF T
<1>7. rehash_hash_table(table, newSize) = F[1 .. N]
  BY <1>1, RehashIs, Zenon DEF new, nodes
<1> HIDE DEF F
<1> DEFINE filled == [k \in 0 .. N |-> F[1 .. k]]
<1>8. filled[0] = new /\ filled[N] = F[1 .. N]
  <2>1. 1 .. 0 = {} /\ {} \in SUBSET (1 .. N) /\ 0 \in 0 .. N /\ N \in 0 .. N
    BY <1>1
  <2>2. F[{}] = new
    BY <1>6, <2>1
  <2>3. filled[0] = F[1 .. 0] /\ filled[N] = F[1 .. N]
    BY <2>1
  <2>4. QED
    BY <2>1, <2>2, <2>3, Zenon
<1>9. ASSUME NEW k \in 0 .. N - 1
      PROVE  filled[k + 1] = place(filled[k], nodes[k + 1].key, nodes[k + 1].value)
  <2>1. k + 1 \in 1 .. k + 1 /\ 1 .. k + 1 \in SUBSET (1 .. N) /\ k + 1 \in 0 .. N
        /\ k \in 0 .. N /\ k + 1 \in Nat
    BY <1>1
  <2>2. Max(1 .. k + 1) = k + 1
    BY <1>2, <2>1
  <2>3. (1 .. k + 1) \ {k + 1} = 1 .. k
    BY <1>1
  <2>4. filled[k + 1] = F[1 .. k + 1] /\ filled[k] = F[1 .. k]
    BY <2>1
  <2>5. F[1 .. k + 1] = next(F, 1 .. k + 1)
    <3>1. 1 .. k + 1 # {}
      BY <2>1
    <3>2. F[1 .. k + 1] = IF 1 .. k + 1 = {} THEN new ELSE next(F, 1 .. k + 1)
      BY <1>6, <2>1
    <3>3. QED
      BY <3>1, <3>2, Zenon
  <2> HIDE DEF filled
  <2>6. QED
    BY <2>2, <2>3, <2>4, <2>5, Zenon
<1> HIDE DEF filled
<1>10. Fills(filled, nodes, newSize)
  BY <1>8, <1>9, Zenon DEF Fills, N, new
<1>11. QED
  BY <1>7, <1>8, <1>10, Zenon DEF N, nodes

(* The table after k nodes: it is sound, and holds just these nodes.       *)
HoldsFirst(u, V, nodes, k, newSize) ==
  /\ Sound(u, V) /\ u.size = newSize /\ u.count = k
  /\ Len(allNodes(u)) = k
  /\ \A j \in 1 .. k : /\ isPresent(u, nodes[j].key)
                       /\ search_hash_table(u, nodes[j].key) = nodes[j].value
  /\ \A key \in DOMAIN hash : isPresent(u, key) => \E j \in 1 .. k : nodes[j].key = key

(* One more node.                                                          *)
LEMMA PlaceNext ==
  ASSUME NEW V, NEW nodes \in Seq(Nodes(V)), NEW newSize,
         \A i, j \in 1 .. Len(nodes) : nodes[i].key = nodes[j].key => i = j,
         NEW k \in 0 .. Len(nodes) - 1, NEW t, HoldsFirst(t, V, nodes, k, newSize),
         NEW u, u = place(t, nodes[k + 1].key, nodes[k + 1].value)
  PROVE  HoldsFirst(u, V, nodes, k + 1, newSize)
<1> DEFINE key == nodes[k + 1].key
           value == nodes[k + 1].value
<1>1. key \in DOMAIN hash /\ value \in V
  <2>1. nodes[k + 1] \in Nodes(V)
    OBVIOUS
  <2>2. QED
    BY <2>1 DEF Nodes
<1>2. k \in Nat /\ \A j \in 1 .. k + 1 : j \in 1 .. k \/ j = k + 1
  OBVIOUS
<1>3. \A j \in 1 .. k : nodes[j].key # key
  <2> TAKE j \in 1 .. k
  <2>1. j \in 1 .. Len(nodes) /\ k + 1 \in 1 .. Len(nodes) /\ j # k + 1
    OBVIOUS
  <2>2. QED
    BY <2>1, Zenon
<1>4. \A j \in 1 .. k + 1 : nodes[j].key \in DOMAIN hash
  <2> TAKE j \in 1 .. k + 1
  <2>1. nodes[j] \in Nodes(V)
    OBVIOUS
  <2>2. QED
    BY <2>1 DEF Nodes
<1> HIDE DEF key, value
<1>5. u = place(t, key, value)
  BY Zenon DEF key, value
<1>6. ~isPresent(t, key)
  BY <1>1, <1>3, Zenon DEF HoldsFirst
<1>7. Sound(t, V) /\ t.size = newSize /\ t.count = k /\ Len(allNodes(t)) = k
  BY DEF HoldsFirst
<1>8. Sound(u, V) /\ u.size = newSize /\ u.count = k + 1
  BY <1>1, <1>5, <1>6, <1>7, PlaceNewSound
<1>9. Len(allNodes(u)) = k + 1
  BY <1>1, <1>5, <1>6, <1>7, PlaceLength
<1>10. Updates(u, t, key, value)
  BY <1>1, <1>5, <1>6, <1>7, PlaceNewUpdates
<1>11. ASSUME NEW j \in 1 .. k + 1
       PROVE  /\ isPresent(u, nodes[j].key)
              /\ search_hash_table(u, nodes[j].key) = nodes[j].value
  <2>1. CASE j \in 1 .. k
    <3>1. /\ isPresent(t, nodes[j].key)
          /\ search_hash_table(t, nodes[j].key) = nodes[j].value
      BY <2>1, Zenon DEF HoldsFirst
    <3>2. nodes[j].key # key
      BY <1>3, <2>1
    <3>3. QED
      BY <1>4, <1>10, <3>1, <3>2, Zenon DEF Updates
  <2>2. CASE j = k + 1
    <3>1. nodes[j].key = key /\ nodes[j].value = value
      BY <2>2, Zenon DEF key, value
    <3>2. QED
      BY <1>1, <1>10, <3>1, Zenon DEF Updates
  <2>3. QED
    BY <1>2, <2>1, <2>2
<1>12. ASSUME NEW x \in DOMAIN hash, isPresent(u, x)
       PROVE  \E j \in 1 .. k + 1 : nodes[j].key = x
  <2>1. CASE x = key
    <3>1. k + 1 \in 1 .. k + 1 /\ nodes[k + 1].key = x
      BY <1>2, <2>1 DEF key
    <3>2. QED
      BY <3>1, Zenon
  <2>2. CASE x # key
    <3>1. isPresent(t, x)
      BY <1>10, <1>12, <2>2, Zenon DEF Updates
    <3>2. PICK j \in 1 .. k : nodes[j].key = x
      BY <3>1, Zenon DEF HoldsFirst
    <3>3. j \in 1 .. k + 1
      BY <1>2
    <3>4. QED
      BY <3>2, <3>3, Zenon
  <2>3. QED
    BY <2>1, <2>2
<1>13. QED
  BY <1>8, <1>9, <1>11, <1>12, Zenon DEF HoldsFirst

(* By induction: after k nodes the new table holds the first k.            *)
LEMMA FillsHolds ==
  ASSUME NEW V, NEW nodes \in Seq(Nodes(V)), NEW newSize \in Nat \ {0},
         \A i, j \in 1 .. Len(nodes) : nodes[i].key = nodes[j].key => i = j,
         NEW filled, Fills(filled, nodes, newSize)
  PROVE  \A k \in 0 .. Len(nodes) : HoldsFirst(filled[k], V, nodes, k, newSize)
<1> DEFINE T == {k \in Nat : HoldsFirst(filled[k], V, nodes, k, newSize)}
<1>1. 0 \in T
  <2>1. filled[0] = create_hash_table(newSize)
    BY DEF Fills
  <2>2. \A j \in 1 .. 0 : FALSE
    OBVIOUS
  <2>3. HoldsFirst(filled[0], V, nodes, 0, newSize)
    <3>1. /\ Sound(filled[0], V) /\ filled[0].size = newSize /\ filled[0].count = 0
          /\ Len(allNodes(filled[0])) = 0
          /\ \A key \in DOMAIN hash : ~isPresent(filled[0], key)
      BY <2>1, CreateSound
    <3>2. QED
      BY <2>2, <3>1, Zenon DEF HoldsFirst
  <2>4. QED
    BY <2>3
<1>2. ASSUME NEW k \in 0 .. Len(nodes) - 1, k \in T PROVE k + 1 \in T
  <2>1. HoldsFirst(filled[k], V, nodes, k, newSize)
    BY <1>2
  <2>2. filled[k + 1] = place(filled[k], nodes[k + 1].key, nodes[k + 1].value)
    BY DEF Fills
  <2>3. HoldsFirst(filled[k + 1], V, nodes, k + 1, newSize)
    BY <2>1, <2>2, PlaceNext
  <2>4. QED
    BY <2>3
<1> HIDE DEF T
<1>3. \A k \in 0 .. Len(nodes) : k \in T
  BY <1>1, <1>2, LenProperties, BoundedInduction
<1>4. QED
  BY <1>3 DEF T

(* Two tables that hold the same.                                          *)
SameContents(u, t) ==
  \A key \in DOMAIN hash :
    /\ isPresent(u, key) <=> isPresent(t, key)
    /\ search_hash_table(u, key) = search_hash_table(t, key)

(* Rehashing a sound table, to any size, loses nothing and adds nothing.   *)
LEMMA RehashSound ==
  ASSUME NEW V, NEW t, Sound(t, V), NEW newSize \in Nat \ {0},
         NEW u, u = rehash_hash_table(t, newSize)
  PROVE  /\ Sound(u, V) /\ u.size = newSize
         /\ u.count = Len(allNodes(t)) /\ Len(allNodes(u)) = u.count
         /\ SameContents(u, t)
<1> DEFINE nodes == allNodes(t)
           N == Len(nodes)
<1>1. nodes \in Seq(Nodes(V))
  BY AllNodesSeq DEF Sound
<1>2. N \in Nat /\ N \in 0 .. N
  BY <1>1, LenProperties
<1>3. \A i, j \in 1 .. N : nodes[i].key = nodes[j].key => i = j
  BY AllNodesDistinct
<1>4. /\ \A j \in 1 .. N : /\ nodes[j].key \in DOMAIN hash
                           /\ isPresent(t, nodes[j].key)
                           /\ search_hash_table(t, nodes[j].key) = nodes[j].value
      /\ \A key \in DOMAIN hash : isPresent(t, key) => \E j \in 1 .. N : nodes[j].key = key
  BY AllNodesFound
<1>5. PICK filled : Fills(filled, nodes, newSize) /\ u = filled[N]
  BY <1>1, RehashFills
<1> HIDE DEF nodes
<1>6. HoldsFirst(u, V, nodes, N, newSize)
  <2>1. \A k \in 0 .. N : HoldsFirst(filled[k], V, nodes, k, newSize)
    BY <1>1, <1>3, <1>5, FillsHolds
  <2>2. QED
    BY <1>2, <1>5, <2>1, Zenon
<1>7. ASSUME NEW key \in DOMAIN hash
      PROVE  /\ isPresent(u, key) <=> isPresent(t, key)
             /\ search_hash_table(u, key) = search_hash_table(t, key)
  <2>1. CASE \E j \in 1 .. N : nodes[j].key = key
    <3>1. PICK j \in 1 .. N : nodes[j].key = key
      BY <2>1
    <3>2. /\ isPresent(u, nodes[j].key)
          /\ search_hash_table(u, nodes[j].key) = nodes[j].value
      BY <1>6, Zenon DEF HoldsFirst
    <3>3. QED
      BY <1>4, <3>1, <3>2, Zenon
  <2>2. CASE ~ \E j \in 1 .. N : nodes[j].key = key
    <3>1. ~isPresent(u, key) /\ ~isPresent(t, key)
      BY <1>4, <1>6, <2>2, Zenon DEF HoldsFirst
    <3>2. search_hash_table(u, key) = NULL /\ search_hash_table(t, key) = NULL
      BY <3>1 DEF search_hash_table, isPresent
    <3>3. QED
      BY <3>1, <3>2
  <2>3. QED
    BY <2>1, <2>2
<1>8. QED
  BY <1>6, <1>7, Zenon DEF HoldsFirst, SameContents, nodes

(* None of the insertions of a rehash finds the new table crowded, when it *)
(* has room for the nodes: the code makes them with insert_into_hash_table,*)
(* which tests for it, and the model with place, which does not.           *)
THEOREM RehashNeverGrows ==
  ASSUME NEW V, NEW t, Sound(t, V), NEW newSize \in Nat \ {0},
         10 * Len(allNodes(t)) <= 7 * newSize,
         NEW filled, Fills(filled, allNodes(t), newSize)
  PROVE  \A k \in 0 .. Len(allNodes(t)) - 1 :
           filled[k + 1] = insert_into_hash_table(filled[k], allNodes(t)[k + 1].key,
                                                  allNodes(t)[k + 1].value)
<1> DEFINE nodes == allNodes(t)
           N == Len(nodes)
<1>1. nodes \in Seq(Nodes(V)) /\ N \in Nat
  BY AllNodesSeq, LenProperties DEF Sound
<1>2. \A i, j \in 1 .. N : nodes[i].key = nodes[j].key => i = j
  BY AllNodesDistinct
<1> HIDE DEF nodes
<1>3. \A k \in 0 .. N : HoldsFirst(filled[k], V, nodes, k, newSize)
  BY <1>1, <1>2, FillsHolds DEF nodes
<1> SUFFICES ASSUME NEW k \in 0 .. N - 1
             PROVE  filled[k + 1] = insert_into_hash_table(filled[k], nodes[k + 1].key,
                                                           nodes[k + 1].value)
  BY DEF nodes
<1>4. filled[k + 1] = place(filled[k], nodes[k + 1].key, nodes[k + 1].value)
  BY DEF Fills, nodes
<1>5. k + 1 \in 0 .. N /\ 10 * N <= 7 * newSize
  BY <1>1 DEF nodes
<1>6. filled[k + 1].count = k + 1 /\ filled[k + 1].size = newSize
  BY <1>3, <1>5 DEF HoldsFirst
<1>7. ~isCrowded(filled[k + 1])
  BY <1>1, <1>5, <1>6 DEF isCrowded
<1>8. QED
  BY <1>4, <1>7, Zenon DEF insert_into_hash_table, needsRehash

-----------------------------------------------------------------------------
(* What insertion finds and leaves: a table that is sound, counts its      *)
(* nodes and is not crowded.                                               *)
Counted(t) == t.count = Len(allNodes(t))

Healthy(t, V) == Sound(t, V) /\ Counted(t) /\ ~isCrowded(t)

(* Insertion without the test at its end keeps the table sound and         *)
(* counted.                                                                *)
LEMMA PlaceSound ==
  ASSUME NEW V, NEW t, Sound(t, V), Counted(t),
         NEW key \in DOMAIN hash, NEW value \in V, NEW u, u = place(t, key, value)
  PROVE  /\ Sound(u, V) /\ u.size = t.size
         /\ u.count = t.count + (IF isPresent(t, key) THEN 0 ELSE 1)
         /\ Counted(u)
         /\ Updates(u, t, key, value)
<1>1. t.count \in Nat
  BY DEF Sound, IsTable
<1>2. Len(allNodes(u)) = Len(allNodes(t)) + (IF isPresent(t, key) THEN 0 ELSE 1)
  BY PlaceLength
<1>3. CASE isPresent(t, key)
  <2>1. PICK n \in nodesOf(chainOf(t, key), key) : TRUE
    BY <1>3 DEF isPresent
  <2>2. Sound(u, V) /\ u.size = t.size /\ u.count = t.count
    BY PlaceOldSound
  <2>3. Updates(u, t, key, value)
    BY <1>3, PlaceOldUpdates
  <2>4. QED
    BY <1>1, <1>2, <1>3, <2>2, <2>3 DEF Counted
<1>4. CASE ~isPresent(t, key)
  <2>1. Sound(u, V) /\ u.size = t.size /\ u.count = t.count + 1
    BY <1>4, PlaceNewSound
  <2>2. Updates(u, t, key, value)
    BY <1>4, PlaceNewUpdates
  <2>3. QED
    BY <1>1, <1>2, <1>4, <2>1, <2>2 DEF Counted
<1>5. QED
  BY <1>3, <1>4

(* Insertion as a whole, growth included. The load is within its bound     *)
(* again after one doubling because it was before the insertion.           *)
LEMMA InsertSound ==
  ASSUME NEW V, NEW t, Healthy(t, V), NEW key \in DOMAIN hash, NEW value \in V,
         NEW u, u = insert_into_hash_table(t, key, value)
  PROVE  /\ Healthy(u, V)
         /\ u.count = t.count + (IF isPresent(t, key) THEN 0 ELSE 1)
         /\ Updates(u, t, key, value)
<1> DEFINE placed == place(t, key, value)
           added == IF isPresent(t, key) THEN 0 ELSE 1
<1>1. /\ Sound(t, V) /\ Counted(t) /\ 10 * t.count <= 7 * t.size
      /\ t.count \in Nat /\ t.size \in Nat \ {0}
  BY DEF Healthy, isCrowded, Sound, IsTable
<1>2. /\ Sound(placed, V) /\ placed.size = t.size
      /\ placed.count = t.count + added
      /\ Counted(placed)
      /\ Updates(placed, t, key, value)
  BY <1>1, PlaceSound
<1> HIDE DEF placed
<1>3. CASE needsRehash(t, key, value)
  <2>1. u = rehash_hash_table(placed, 2 * placed.size)
    BY <1>3 DEF insert_into_hash_table, placed
  <2>2. 2 * placed.size \in Nat \ {0} /\ 2 * placed.size = 2 * t.size
    BY <1>1, <1>2
  <2>3. /\ Sound(u, V) /\ u.size = 2 * placed.size
        /\ u.count = Len(allNodes(placed)) /\ Len(allNodes(u)) = u.count
        /\ SameContents(u, placed)
    BY <1>2, <2>1, <2>2, RehashSound
  <2>4. u.size = 2 * t.size /\ u.count = placed.count
    BY <1>2, <2>2, <2>3 DEF Counted
  <2>5. ~isCrowded(u)
    <3>1. added \in 0 .. 1
      OBVIOUS
    <3> HIDE DEF added
    <3>2. u.count = t.count + added
      BY <1>2, <2>4
    <3>3. 10 * (t.count + added) <= 7 * (2 * t.size)
      BY <1>1, <3>1
    <3>4. QED
      BY <2>4, <3>2, <3>3, <1>1, <3>1 DEF isCrowded
  <2>6. Updates(u, t, key, value)
    BY <1>2, <2>3, Zenon DEF Updates, SameContents
  <2>7. QED
    BY <1>2, <2>3, <2>4, <2>5, <2>6 DEF Healthy, Counted
<1>4. CASE ~needsRehash(t, key, value)
  <2>1. u = placed
    BY <1>4 DEF insert_into_hash_table, placed
  <2>2. ~isCrowded(u)
    <3>1. CASE isPresent(t, key)
      BY <1>1, <1>2, <2>1, <3>1 DEF isCrowded
    <3>2. CASE ~isPresent(t, key)
      BY <1>4, <2>1, <3>2 DEF needsRehash, placed
    <3>3. QED
      BY <3>1, <3>2
  <2>3. QED
    BY <1>2, <2>1, <2>2 DEF Healthy
<1>5. QED
  BY <1>3, <1>4

-----------------------------------------------------------------------------
(* The map g, overridden at one key.                                       *)
Overrides(f, g, key, value) ==
  f = [k \in DOMAIN g \cup {key} |-> IF k = key THEN value ELSE g[k]]

(* The map a table represents after an update.                             *)
LEMMA ContentsUpdated ==
  ASSUME NEW t, NEW u, NEW key \in DOMAIN hash, NEW value, Updates(u, t, key, value)
  PROVE  Overrides(contents(u), contents(t), key, value)
<1>1. DOMAIN contents(t) = keysOf(t) /\ DOMAIN contents(u) = keysOf(u)
  BY DEF contents
<1>2. keysOf(u) = keysOf(t) \cup {key}
  BY DEF Updates, keysOf
<1>3. \A k \in keysOf(u) : search_hash_table(u, k) =
        IF k = key THEN value ELSE contents(t)[k]
  <2> TAKE k \in keysOf(u)
  <2>1. k \in DOMAIN hash
    BY DEF keysOf
  <2>2. search_hash_table(u, k) = IF k = key THEN value ELSE search_hash_table(t, k)
    BY <2>1 DEF Updates
  <2>3. k # key => contents(t)[k] = search_hash_table(t, k)
    BY <1>2 DEF contents
  <2>4. QED
    BY <2>2, <2>3
<1>4. QED
  BY <1>1, <1>2, <1>3 DEF contents, Overrides

(* A search of the table is a search of the map.                           *)
LEMMA SearchIsLookup ==
  ASSUME NEW t, NEW key \in DOMAIN hash
  PROVE  search_hash_table(t, key) =
           IF key \in DOMAIN contents(t) THEN contents(t)[key] ELSE NULL
<1>1. key \in DOMAIN contents(t) <=> isPresent(t, key)
  BY DEF contents, keysOf
<1>2. key \in DOMAIN contents(t) => contents(t)[key] = search_hash_table(t, key)
  BY DEF contents
<1>3. ~isPresent(t, key) => search_hash_table(t, key) = NULL
  BY DEF isPresent, search_hash_table
<1>4. QED
  BY <1>1, <1>2, <1>3

=============================================================================
