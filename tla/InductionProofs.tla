-------------------------- MODULE InductionProofs ---------------------------
(***************************************************************************)
(* Induction over the naturals, and the facts about sequences that follow  *)
(* from it.  A predicate is given as the SET of the numbers it holds of:   *)
(* the induction theorems of the library take an operator instead, which   *)
(* the provers cannot instantiate, but that a nonempty set of naturals has *)
(* a least element is first-order, and this is enough.                     *)
(***************************************************************************)
EXTENDS Integers, SequencesExt, SequenceTheorems, WellFoundedInduction, TLAPS

(* A set of naturals that is not empty has a least element.                *)
LEMMA LeastElement ==
  ASSUME NEW T, T \subseteq Nat, T # {}
  PROVE  \E x \in T : \A y \in T : x <= y
<1> DEFINE R == OpToRel(<, Nat)
<1>1. \A x, y \in Nat : x < y => <<x, y>> \in R
  BY DEF OpToRel
<1>2. IsWellFoundedOn(R, Nat)
  BY NatLessThanWellFounded
<1> HIDE DEF R
<1>3. PICK x \in T : \A y \in T : ~ (<<y, x>> \in R)
  BY <1>2, WFMin
<1>4. \A y \in T : ~ (y < x)
  BY <1>1, <1>3
<1>5. QED
  BY <1>4

(* Induction over the naturals.                                            *)
LEMMA SetInduction ==
  ASSUME NEW S, 0 \in S, \A n \in Nat : n \in S => n + 1 \in S
  PROVE  \A n \in Nat : n \in S
<1> SUFFICES ASSUME NEW m \in Nat, m \notin S PROVE FALSE
  OBVIOUS
<1>1. PICK x \in Nat \ S : \A y \in Nat \ S : x <= y
  BY LeastElement
<1>2. x # 0
  BY <1>1
<1>3. x - 1 \in S
  BY <1>1, <1>2
<1>4. (x - 1) + 1 \in S
  BY <1>1, <1>2, <1>3
<1>5. QED
  BY <1>1, <1>4

(* Induction up to a bound.                                                *)
LEMMA BoundedInduction ==
  ASSUME NEW N \in Nat, NEW S, 0 \in S,
         \A n \in 0 .. N - 1 : n \in S => n + 1 \in S
  PROVE  \A n \in 0 .. N : n \in S
<1> DEFINE T == {n \in Nat : n <= N => n \in S}
<1>1. 0 \in T
  OBVIOUS
<1>2. \A n \in Nat : n \in T => n + 1 \in T
  OBVIOUS
<1> HIDE DEF T
<1>3. \A n \in Nat : n \in T
  BY <1>1, <1>2, SetInduction
<1>4. QED
  BY <1>3 DEF T

-----------------------------------------------------------------------------
(* The least of one number, the greatest of an interval.                   *)
LEMMA MinOfSingleton == ASSUME NEW i \in Int PROVE Min({i}) = i
BY DEF Min

(* An element that no other one exceeds is the greatest.                   *)
LEMMA MaxOfInterval ==
  ASSUME NEW S, NEW n \in S, S \subseteq Int, \A k \in S : k <= n
  PROVE  Max(S) = n
<1>1. \A y \in S : n >= y
  OBVIOUS
<1>2. Max(S) \in S /\ \A y \in S : Max(S) >= y
  BY <1>1 DEF Max
<1>3. Max(S) <= n /\ Max(S) >= n /\ Max(S) \in Int
  BY <1>2
<1>4. QED
  BY <1>3

-----------------------------------------------------------------------------
(* FlattenSeq joins N sequences one after the other: the results f[i] of   *)
(* joining the first i of them lead up to it.                              *)
Joins(f, seqs, N) ==
  \A i \in 1 .. N : f[i] = IF i = 1 THEN seqs[i] ELSE f[i - 1] \o seqs[i]

(* (That they are sequences is a definition so that it is used only where  *)
(* it is cited.)                                                           *)
AreSeqs(seqs, N, S) == seqs \in [1 .. N -> Seq(S)]

(* The partial results are sequences too.                                  *)
LEMMA JoinsType ==
  ASSUME NEW S, NEW N \in Nat, NEW seqs, AreSeqs(seqs, N, S),
         NEW f, Joins(f, seqs, N)
  PROVE  \A n \in 1 .. N : f[n] \in Seq(S)
<1> DEFINE T == {n \in Nat : n > 0 => f[n] \in Seq(S)}
<1>1. 0 \in T
  OBVIOUS
<1>2. ASSUME NEW n \in 0 .. N - 1, n \in T PROVE n + 1 \in T
  <2>1. n + 1 \in 1 .. N /\ (n + 1) - 1 = n
    OBVIOUS
  <2>2. seqs[n + 1] \in Seq(S)
    BY <2>1 DEF AreSeqs
  <2>3. f[n + 1] = IF n + 1 = 1 THEN seqs[n + 1] ELSE f[(n + 1) - 1] \o seqs[n + 1]
    BY <2>1 DEF Joins
  <2>4. CASE n = 0
    BY <2>1, <2>2, <2>3, <2>4
  <2>5. CASE n # 0
    <3>1. f[n] \in Seq(S)
      BY <1>2, <2>5
    <3>2. n + 1 # 1
      BY <2>5
    <3>3. f[n + 1] = f[n] \o seqs[n + 1]
      BY <2>1, <2>3, <3>2, Zenon
    <3>4. f[n + 1] \in Seq(S)
      BY <2>2, <3>1, <3>3, ConcatProperties
    <3>5. QED
      BY <3>4
  <2>6. QED
    BY <2>4, <2>5
<1> HIDE DEF T
<1>3. \A n \in 0 .. N : n \in T
  BY <1>1, <1>2, BoundedInduction
<1>4. QED
  BY <1>3 DEF T

(* There are partial results, whatever is joined.                          *)
LEMMA JoinsExists ==
  ASSUME NEW N \in Nat, NEW seqs
  PROVE  \E f : f = [i \in 1 .. N |-> f[i]] /\ Joins(f, seqs, N)
<1> DEFINE T == {n \in Nat : \E f : f = [i \in 1 .. n |-> f[i]] /\ Joins(f, seqs, n)}
<1>1. 0 \in T
  <2> DEFINE f == [i \in 1 .. 0 |-> <<>>]
  <2>1. f = [i \in 1 .. 0 |-> f[i]] /\ Joins(f, seqs, 0)
    BY DEF Joins
  <2>2. QED
    BY <2>1
<1>2. ASSUME NEW n \in 0 .. N - 1, n \in T PROVE n + 1 \in T
  <2>1. PICK f : f = [i \in 1 .. n |-> f[i]] /\ Joins(f, seqs, n)
    BY <1>2
  <2> DEFINE last == IF n + 1 = 1 THEN seqs[n + 1] ELSE f[n] \o seqs[n + 1]
             g == [i \in 1 .. n + 1 |-> IF i = n + 1 THEN last ELSE f[i]]
  <2>2. g = [i \in 1 .. n + 1 |-> g[i]]
    OBVIOUS
  <2>3. ASSUME NEW i \in 1 .. n + 1
        PROVE  g[i] = IF i = 1 THEN seqs[i] ELSE g[i - 1] \o seqs[i]
    <3>1. CASE i = n + 1 /\ i = 1
      BY <3>1
    <3>2. CASE i = n + 1 /\ i # 1
      <4>1. i - 1 = n /\ n \in 1 .. n + 1 /\ n # n + 1
        BY <3>2
      <4>2. g[i - 1] = f[n] /\ g[i] = last
        BY <3>2, <4>1
      <4>3. QED
        BY <3>2, <4>2
    <3>3. CASE i # n + 1
      <4>1. i \in 1 .. n /\ (i # 1 => i - 1 \in 1 .. n + 1 /\ i - 1 # n + 1)
        BY <3>3
      <4>2. g[i] = f[i] /\ (i # 1 => g[i - 1] = f[i - 1])
        BY <3>3, <4>1
      <4>3. f[i] = IF i = 1 THEN seqs[i] ELSE f[i - 1] \o seqs[i]
        BY <2>1, <4>1 DEF Joins
      <4> HIDE DEF g
      <4>4. QED
        BY <4>2, <4>3
    <3>4. QED
      BY <3>1, <3>2, <3>3
  <2> HIDE DEF g
  <2>4. n + 1 \in Nat /\ Joins(g, seqs, n + 1)
    BY <2>3 DEF Joins
  <2>5. QED
    BY <2>2, <2>4
<1> HIDE DEF T
<1>3. N \in T
  <2>1. \A n \in 0 .. N : n \in T
    BY <1>1, <1>2, BoundedInduction
  <2>2. QED
    BY <2>1
<1>4. QED
  BY <1>3 DEF T

(* FlattenSeq is the last of them.                                         *)
LEMMA FlattenJoins ==
  ASSUME NEW S, NEW seqs \in Seq(Seq(S)), Len(seqs) > 0
  PROVE  \E f : Joins(f, seqs, Len(seqs)) /\ FlattenSeq(seqs) = f[Len(seqs)]
<1> DEFINE N == Len(seqs)
           step(g) == [i \in 1 .. N |-> IF i = 1 THEN seqs[i] ELSE g[i - 1] \o seqs[i]]
           F == CHOOSE g : g = step(g)
<1>1. N \in Nat
  OBVIOUS
<1>2. FlattenSeq(seqs) = F[N]
  BY DEF FlattenSeq
<1>3. PICK f : f = [i \in 1 .. N |-> f[i]] /\ Joins(f, seqs, N)
  BY <1>1, JoinsExists
<1> HIDE DEF N
<1>4. f = step(f)
  BY <1>3 DEF Joins
<1>5. F = step(F)
  BY <1>4
<1> HIDE DEF F
<1>6. Joins(F, seqs, N)
  BY <1>5 DEF Joins
<1>7. QED
  BY <1>2, <1>6 DEF N

(* What two sequences have, their concatenation has, and nothing else.     *)
MadeOf(s, s1, s2) ==
  /\ \A j \in 1 .. Len(s) : \/ \E i \in 1 .. Len(s1) : s[j] = s1[i]
                            \/ \E i \in 1 .. Len(s2) : s[j] = s2[i]
  /\ \A i \in 1 .. Len(s1) : \E j \in 1 .. Len(s) : s[j] = s1[i]
  /\ \A i \in 1 .. Len(s2) : \E j \in 1 .. Len(s) : s[j] = s2[i]

(* The length of a concatenation.                                          *)
LEMMA LenOfConcat ==
  ASSUME NEW S, NEW s1 \in Seq(S), NEW s2 \in Seq(S)
  PROVE  Len(s1 \o s2) = Len(s1) + Len(s2)
BY ConcatProperties

(* A concatenation is made of its parts.                                   *)
LEMMA ConcatMembers ==
  ASSUME NEW S, NEW s1 \in Seq(S), NEW s2 \in Seq(S)
  PROVE  MadeOf(s1 \o s2, s1, s2)
<1> DEFINE s == s1 \o s2
           k == Len(s1)
           l == Len(s2)
<1>1. /\ s \in Seq(S) /\ Len(s) = k + l /\ k \in Nat /\ l \in Nat
      /\ \A i \in 1 .. k + l : s[i] = IF i <= k THEN s1[i] ELSE s2[i - k]
  BY ConcatProperties
<1> HIDE DEF s, k, l
<1>2. ASSUME NEW j \in 1 .. k + l
      PROVE  \/ \E i \in 1 .. k : s[j] = s1[i]
             \/ \E i \in 1 .. l : s[j] = s2[i]
  <2>1. CASE j <= k
    <3>1. j \in 1 .. k /\ s[j] = s1[j]
      BY <1>1, <2>1
    <3>2. QED
      BY <3>1
  <2>2. CASE ~ (j <= k)
    <3>1. j - k \in 1 .. l /\ s[j] = s2[j - k]
      BY <1>1, <2>2
    <3>2. QED
      BY <3>1
  <2>3. QED
    BY <2>1, <2>2
<1>3. ASSUME NEW i \in 1 .. k PROVE \E j \in 1 .. k + l : s[j] = s1[i]
  <2>1. i \in 1 .. k + l /\ i <= k
    BY <1>1
  <2>2. s[i] = s1[i]
    BY <1>1, <2>1
  <2>3. QED
    BY <2>1, <2>2
<1>4. ASSUME NEW i \in 1 .. l PROVE \E j \in 1 .. k + l : s[j] = s2[i]
  <2>1. k + i \in 1 .. k + l /\ ~ (k + i <= k) /\ (k + i) - k = i
    BY <1>1
  <2>2. s[k + i] = IF k + i <= k THEN s1[k + i] ELSE s2[(k + i) - k]
    BY <1>1, <2>1
  <2>3. s[k + i] = s2[i]
    BY <2>1, <2>2, Zenon
  <2>4. QED
    BY <2>1, <2>3
<1>5. QED
  BY <1>1, <1>2, <1>3, <1>4 DEF MadeOf, s, k, l

(* What has been joined: the elements of the first n sequences, each.      *)
Gathers(s, seqs, n) ==
  /\ \A j \in 1 .. Len(s) : \E c \in 1 .. n : \E m \in 1 .. Len(seqs[c]) : s[j] = seqs[c][m]
  /\ \A c \in 1 .. n : \A m \in 1 .. Len(seqs[c]) : \E j \in 1 .. Len(s) : s[j] = seqs[c][m]

(* Each partial result gathers the elements of the sequences so far.       *)
LEMMA JoinsMembers ==
  ASSUME NEW S, NEW N \in Nat, NEW seqs, AreSeqs(seqs, N, S),
         NEW f, Joins(f, seqs, N)
  PROVE  \A n \in 1 .. N : Gathers(f[n], seqs, n)
<1> DEFINE from(n) == \A j \in 1 .. Len(f[n]) : \E c \in 1 .. n : \E m \in 1 .. Len(seqs[c]) :
                        f[n][j] = seqs[c][m]
           to(n)   == \A c \in 1 .. n : \A m \in 1 .. Len(seqs[c]) : \E j \in 1 .. Len(f[n]) :
                        f[n][j] = seqs[c][m]
           T == {n \in Nat : n > 0 => from(n) /\ to(n)}
<1>1. 0 \in T
  OBVIOUS
<1>2. ASSUME NEW n \in 0 .. N - 1, n \in T PROVE n + 1 \in T
  <2>1. n + 1 \in 1 .. N /\ (n + 1) - 1 = n
    OBVIOUS
  <2>2. seqs[n + 1] \in Seq(S)
    BY <2>1 DEF AreSeqs
  <2>3. f[n + 1] = IF n + 1 = 1 THEN seqs[n + 1] ELSE f[(n + 1) - 1] \o seqs[n + 1]
    BY <2>1 DEF Joins
  <2>4. CASE n = 0
    <3>1. f[1] = seqs[1] /\ 1 \in 1 .. 1
      BY <2>1, <2>3, <2>4
    <3>2. from(1)
      <4> TAKE j \in 1 .. Len(f[1])
      <4>1. f[1][j] = seqs[1][j] /\ j \in 1 .. Len(seqs[1])
        BY <3>1, Zenon
      <4>2. QED
        BY <3>1, <4>1, Zenon
    <3>3. to(1)
      <4> TAKE c \in 1 .. 1
      <4> TAKE m \in 1 .. Len(seqs[c])
      <4>1. c = 1
        OBVIOUS
      <4>2. f[1][m] = seqs[c][m] /\ m \in 1 .. Len(f[1])
        BY <3>1, <4>1, Zenon
      <4>3. QED
        BY <4>2, Zenon
    <3> HIDE DEF from, to
    <3>4. QED
      BY <2>4, <3>2, <3>3
  <2>5. CASE n # 0
    <3>1. n \in 1 .. N /\ n + 1 # 1
      BY <2>5
    <3>2. f[n] \in Seq(S)
      BY <3>1, JoinsType
    <3>3. f[n + 1] = f[n] \o seqs[n + 1]
      BY <2>1, <2>3, <3>1, Zenon
    <3>4. from(n) /\ to(n)
      BY <1>2, <3>1
    <3>5. \A c \in 1 .. n : c \in 1 .. n + 1
      OBVIOUS
    <3>6. \A c \in 1 .. n + 1 : c \in 1 .. n \/ c = n + 1
      OBVIOUS
    <3>7. n + 1 \in 1 .. n + 1
      OBVIOUS
    <3>8. MadeOf(f[n + 1], f[n], seqs[n + 1])
      BY <2>2, <3>2, <3>3, ConcatMembers, Zenon
    <3>9. from(n + 1)
      <4> TAKE j \in 1 .. Len(f[n + 1])
      <4>1. CASE \E i \in 1 .. Len(f[n]) : f[n + 1][j] = f[n][i]
        <5>1. PICK i \in 1 .. Len(f[n]) : f[n + 1][j] = f[n][i]
          BY <4>1
        <5>2. PICK c \in 1 .. n : \E m \in 1 .. Len(seqs[c]) : f[n][i] = seqs[c][m]
          BY <3>4, Zenon
        <5>3. QED
          BY <3>5, <5>1, <5>2, Zenon
      <4>2. CASE \E i \in 1 .. Len(seqs[n + 1]) : f[n + 1][j] = seqs[n + 1][i]
        BY <3>7, <4>2, Zenon
      <4>3. QED
        BY <3>8, <4>1, <4>2, Zenon DEF MadeOf
    <3>10. to(n + 1)
      <4> TAKE c \in 1 .. n + 1
      <4> TAKE m \in 1 .. Len(seqs[c])
      <4>1. CASE c \in 1 .. n
        <5>1. PICK i \in 1 .. Len(f[n]) : f[n][i] = seqs[c][m]
          BY <3>4, <4>1, Zenon
        <5>2. QED
          BY <3>8, <5>1, Zenon DEF MadeOf
      <4>2. CASE c = n + 1
        BY <3>8, <4>2, Zenon DEF MadeOf
      <4>3. QED
        BY <3>6, <4>1, <4>2
    <3> HIDE DEF from, to
    <3>11. QED
      BY <3>9, <3>10
  <2>6. QED
    BY <2>4, <2>5
<1> HIDE DEF T
<1>3. \A n \in 0 .. N : n \in T
  BY <1>1, <1>2, BoundedInduction
<1> HIDE DEF from, to
<1>4. \A n \in 1 .. N : from(n) /\ to(n)
  BY <1>3 DEF T
<1>5. QED
  BY <1>4, Zenon DEF from, to, Gathers

(* Lengthening one of the sequences, s[k], by d lengthens what is joined.  *)
Longer(s, r, N, k, d) ==
  /\ Len(s[k]) = Len(r[k]) + d
  /\ \A c \in 1 .. N : c # k => s[c] = r[c]

(* If one sequence is longer by d, so is what is joined.                   *)
LEMMA JoinsLength ==
  ASSUME NEW S, NEW N \in Nat,
         NEW r, AreSeqs(r, N, S), NEW s, AreSeqs(s, N, S),
         NEW f, Joins(f, r, N), NEW g, Joins(g, s, N),
         NEW k \in 1 .. N, NEW d \in Nat, Longer(s, r, N, k, d)
  PROVE  Len(g[N]) = Len(f[N]) + d
<1> DEFINE lr(n) == Len(r[n])
           ls(n) == Len(s[n])
           lf(n) == Len(f[n])
           lg(n) == Len(g[n])
           before(n) == n < k => lg(n) = lf(n)
           after(n)  == k <= n => lg(n) = lf(n) + d
           T == {n \in Nat : n > 0 => before(n) /\ after(n)}
<1>1. \A n \in 1 .. N : lf(n) \in Nat /\ lg(n) \in Nat
  <2>1. \A n \in 1 .. N : f[n] \in Seq(S)
    BY JoinsType
  <2>2. \A n \in 1 .. N : g[n] \in Seq(S)
    BY JoinsType
  <2>3. QED
    BY <2>1, <2>2, LenProperties
<1>2. \A n \in 1 .. N : lr(n) \in Nat /\ ls(n) \in Nat
  BY LenProperties DEF AreSeqs
<1>3. \A n \in 1 .. N : n # k => ls(n) = lr(n)
  BY Zenon DEF Longer
<1>4. ls(k) = lr(k) + d
  BY DEF Longer
<1>5. ASSUME NEW n \in 1 .. N, n # 1
      PROVE  /\ lf(n) = lf(n - 1) + lr(n)
             /\ lg(n) = lg(n - 1) + ls(n)
  <2>1. n - 1 \in 1 .. N
    BY <1>5
  <2>2. f[n - 1] \in Seq(S) /\ r[n] \in Seq(S)
    BY <2>1, JoinsType DEF AreSeqs
  <2>3. g[n - 1] \in Seq(S) /\ s[n] \in Seq(S)
    BY <2>1, JoinsType DEF AreSeqs
  <2>4. f[n] = f[n - 1] \o r[n] /\ g[n] = g[n - 1] \o s[n]
    BY <1>5, Zenon DEF Joins
  <2>5. QED
    <3>1. lf(n) = lf(n - 1) + lr(n)
      BY <2>2, <2>4, LenOfConcat, Zenon
    <3>2. lg(n) = lg(n - 1) + ls(n)
      BY <2>3, <2>4, LenOfConcat, Zenon
    <3>3. QED
      BY <3>1, <3>2
<1>6. lf(1) = lr(1) /\ lg(1) = ls(1)
  <2>1. 1 \in 1 .. N
    OBVIOUS
  <2>2. f[1] = r[1] /\ g[1] = s[1]
    BY <2>1, Zenon DEF Joins
  <2>3. QED
    BY <2>2
<1> HIDE DEF lr, ls, lf, lg
<1>7. 0 \in T
  OBVIOUS
<1>8. ASSUME NEW n \in 0 .. N - 1, n \in T PROVE n + 1 \in T
  <2>1. n + 1 \in 1 .. N /\ (n + 1) - 1 = n
    OBVIOUS
  <2>2. CASE n = 0
    <3>1. before(1) /\ after(1)
      BY <1>2, <1>3, <1>4, <1>6, <2>1, <2>2
    <3>2. QED
      BY <2>2, <3>1
  <2>3. CASE n # 0
    <3>1. n \in 1 .. N /\ n + 1 # 1
      BY <2>3
    <3>2. before(n) /\ after(n)
      BY <1>8, <3>1
    <3>3. lf(n + 1) = lf(n) + lr(n + 1) /\ lg(n + 1) = lg(n) + ls(n + 1)
      BY <1>5, <2>1, <3>1
    <3>4. before(n + 1) /\ after(n + 1)
      <4>1. lf(n) \in Nat /\ lg(n) \in Nat /\ lr(n + 1) \in Nat /\ ls(n + 1) \in Nat
        BY <1>1, <1>2, <2>1, <3>1
      <4>2. CASE n + 1 < k
        <5>1. ls(n + 1) = lr(n + 1) /\ lg(n) = lf(n)
          BY <1>3, <2>1, <3>2, <4>2
        <5>2. QED
          BY <3>3, <4>1, <4>2, <5>1
      <4>3. CASE n + 1 = k
        <5>1. ls(n + 1) = lr(n + 1) + d /\ lg(n) = lf(n)
          BY <1>4, <3>2, <4>3
        <5>2. QED
          BY <3>3, <4>1, <4>3, <5>1
      <4>4. CASE k < n + 1
        <5>1. ls(n + 1) = lr(n + 1) /\ lg(n) = lf(n) + d
          BY <1>3, <2>1, <3>2, <4>4
        <5>2. QED
          BY <3>3, <4>1, <4>4, <5>1
      <4>5. QED
        BY <4>2, <4>3, <4>4
    <3>5. QED
      BY <3>4
  <2>4. QED
    BY <2>2, <2>3
<1> HIDE DEF T
<1>9. \A n \in 0 .. N : n \in T
  BY <1>7, <1>8, BoundedInduction
<1>10. N \in T /\ N > 0 /\ k <= N
  BY <1>9
<1>11. lg(N) = lf(N) + d
  BY <1>10 DEF T
<1>12. QED
  BY <1>11, Zenon DEF lg, lf

-----------------------------------------------------------------------------
(* A set of numbers with an upper bound has a greatest element.            *)
LEMMA GreatestElement ==
  ASSUME NEW N \in Nat, NEW T, T \subseteq 0 .. N, T # {}
  PROVE  Max(T) \in T /\ \A y \in T : Max(T) >= y
<1> DEFINE D == {N - x : x \in T}
<1>1. D \subseteq Nat /\ D # {}
  <2>1. \A x \in T : N - x \in Nat
    OBVIOUS
  <2>2. PICK x \in T : TRUE
    OBVIOUS
  <2>3. N - x \in D
    OBVIOUS
  <2>4. QED
    BY <2>1, <2>3
<1> HIDE DEF D
<1>2. PICK d \in D : \A e \in D : d <= e
  BY <1>1, LeastElement
<1>3. PICK x \in T : d = N - x
  BY DEF D
<1>4. \A y \in T : x >= y
  <2> TAKE y \in T
  <2>1. N - y \in D
    BY DEF D
  <2>2. QED
    BY <1>2, <1>3, <2>1
<1>5. QED
  BY <1>4 DEF Max

-----------------------------------------------------------------------------
(* The elements of s at the positions T, in order: f[k] is what is taken   *)
(* of the first k elements.                                                *)
Selects(f, s, T) ==
  /\ f[0] = <<>>
  /\ \A k \in 0 .. Len(s) - 1 :
       f[k + 1] = IF k + 1 \in T THEN Append(f[k], s[k + 1]) ELSE f[k]

Selection(r, s, T) == \E f : Selects(f, s, T) /\ r = f[Len(s)]

(* The recursive function that selects exists.                             *)
Solves(f, s, N, T) ==
  f = [i \in 0 .. N |-> IF i = 0 THEN <<>>
                        ELSE IF i \in T THEN Append(f[i - 1], s[i]) ELSE f[i - 1]]

(* For every length there is one.                                          *)
LEMMA SelectsExists ==
  ASSUME NEW N \in Nat, NEW s, NEW T
  PROVE  \E f : Solves(f, s, N, T)
<1> DEFINE next(f, i) == IF i = 0 THEN <<>>
                         ELSE IF i \in T THEN Append(f[i - 1], s[i]) ELSE f[i - 1]
           solves(f, n) == f = [i \in 0 .. n |-> next(f, i)]
           S == {n \in Nat : \E f : solves(f, n)}
<1>1. 0 \in S
  <2> DEFINE f == [i \in 0 .. 0 |-> <<>>]
  <2>1. solves(f, 0)
    OBVIOUS
  <2> HIDE DEF solves, f
  <2>2. QED
    BY <2>1
<1>2. ASSUME NEW n \in 0 .. N - 1, n \in S PROVE n + 1 \in S
  <2>1. PICK f : solves(f, n)
    BY <1>2
  <2> DEFINE g == [i \in 0 .. n + 1 |-> IF i = n + 1 THEN next(f, n + 1) ELSE f[i]]
  <2>2. ASSUME NEW i \in 0 .. n + 1 PROVE g[i] = next(g, i)
    <3>1. i # 0 => i - 1 \in 0 .. n + 1 /\ i - 1 # n + 1
      OBVIOUS
    <3>2. i # 0 => g[i - 1] = f[i - 1]
      BY <3>1
    <3>3. CASE i = n + 1
      <4>1. g[i] = next(f, i)
        BY <3>3
      <4> HIDE DEF g
      <4>2. QED
        BY <3>2, <4>1, Zenon
    <3>4. CASE i # n + 1
      <4>1. g[i] = f[i] /\ i \in 0 .. n
        BY <3>4
      <4>2. f[i] = next(f, i)
        BY <2>1, <4>1
      <4> HIDE DEF g
      <4>3. QED
        BY <3>2, <4>1, <4>2, Zenon
    <3>5. QED
      BY <3>3, <3>4
  <2>3. solves(g, n + 1)
    <3>1. g = [i \in 0 .. n + 1 |-> g[i]]
      BY Zenon
    <3> HIDE DEF g, next
    <3>2. QED
      BY <2>2, <3>1
  <2> HIDE DEF solves, g
  <2>4. n + 1 \in Nat
    OBVIOUS
  <2>5. QED
    BY <2>3, <2>4
<1> HIDE DEF S
<1>3. N \in S
  <2>1. \A n \in 0 .. N : n \in S
    BY <1>1, <1>2, BoundedInduction
  <2>2. QED
    BY <2>1
<1>4. QED
  BY <1>3, Zenon DEF S, Solves

(* It selects.                                                             *)
LEMMA SolutionSelects ==
  ASSUME NEW f, NEW s, Len(s) \in Nat, NEW T, Solves(f, s, Len(s), T)
  PROVE  Selects(f, s, T)
<1> DEFINE N == Len(s)
<1> HIDE DEF N
<1>1. N \in Nat /\ Solves(f, s, N, T)
  BY DEF N
<1>2. f[0] = <<>>
  BY <1>1 DEF Solves
<1>3. ASSUME NEW k \in 0 .. N - 1
      PROVE  f[k + 1] = IF k + 1 \in T THEN Append(f[k], s[k + 1]) ELSE f[k]
  <2>1. k + 1 \in 0 .. N /\ k + 1 # 0 /\ (k + 1) - 1 = k
    BY <1>1
  <2>2. f[k + 1] = IF k + 1 = 0 THEN <<>>
                   ELSE IF k + 1 \in T THEN Append(f[(k + 1) - 1], s[k + 1])
                        ELSE f[(k + 1) - 1]
    BY <1>1, <2>1 DEF Solves
  <2>3. QED
    BY <2>1, <2>2, Zenon
<1>4. QED
  BY <1>2, <1>3, Zenon DEF Selects, N

(* A selection of a sequence is a sequence of some of its elements.        *)
LEMMA SelectionType ==
  ASSUME NEW S, NEW s \in Seq(S), NEW T, NEW r, Selection(r, s, T)
  PROVE  r \in Seq({s[i] : i \in T \cap (1 .. Len(s))})
<1> DEFINE R == {s[i] : i \in T \cap (1 .. Len(s))}
<1>1. PICK f : Selects(f, s, T) /\ r = f[Len(s)]
  BY DEF Selection
<1> DEFINE U == {n \in Nat : f[n] \in Seq(R)}
<1>2. 0 \in U
  <2> HIDE DEF R
  <2>1. f[0] \in Seq(R)
    BY <1>1 DEF Selects
  <2>2. QED
    BY <2>1
<1>3. ASSUME NEW n \in 0 .. Len(s) - 1, n \in U PROVE n + 1 \in U
  <2>1. f[n + 1] = IF n + 1 \in T THEN Append(f[n], s[n + 1]) ELSE f[n]
    BY <1>1 DEF Selects
  <2>2. n + 1 \in T => s[n + 1] \in R
    OBVIOUS
  <2>3. f[n] \in Seq(R) /\ n + 1 \in Nat
    BY <1>3
  <2> HIDE DEF R
  <2>4. f[n + 1] \in Seq(R)
    <3>1. CASE n + 1 \in T
      BY <2>1, <2>2, <2>3, <3>1, AppendProperties, Zenon
    <3>2. CASE n + 1 \notin T
      BY <2>1, <2>3, <3>2, Zenon
    <3>3. QED
      BY <3>1, <3>2
  <2>5. QED
    BY <2>3, <2>4
<1> HIDE DEF U
<1>4. \A n \in 0 .. Len(s) : n \in U
  BY <1>2, <1>3, LenProperties, BoundedInduction
<1>5. Len(s) \in U
  BY <1>4, LenProperties
<1>6. QED
  BY <1>1, <1>5, Zenon DEF U

(* Nothing is selected of nothing.                                         *)
LEMMA SelectionEmpty ==
  ASSUME NEW s, Len(s) = 0, NEW T, NEW r, Selection(r, s, T)
  PROVE  r = <<>>
BY DEF Selection, Selects

(* One more element is selected or not; it does not matter to the others.  *)
LEMMA SelectionAppend ==
  ASSUME NEW S, NEW s \in Seq(S), NEW x \in S, NEW T, NEW U,
         \A i \in 1 .. Len(s) : i \in T <=> i \in U,
         NEW r, Selection(r, s, T), NEW q, Selection(q, Append(s, x), U)
  PROVE  q = IF Len(s) + 1 \in U THEN Append(r, x) ELSE r
<1> DEFINE N == Len(s)
           longer == Append(s, x)
<1>1. /\ N \in Nat /\ Len(longer) = N + 1 /\ longer[N + 1] = x
      /\ \A i \in 1 .. N : longer[i] = s[i]
  BY AppendProperties
<1>2. PICK f : Selects(f, s, T) /\ r = f[N]
  BY DEF Selection
<1>3. PICK g : Selects(g, longer, U) /\ q = g[N + 1]
  BY <1>1, Zenon DEF Selection
<1> HIDE DEF N, longer
<1> DEFINE V == {n \in Nat : g[n] = f[n]}
<1>4. 0 \in V
  BY <1>2, <1>3 DEF Selects
<1>5. ASSUME NEW n \in 0 .. N - 1, n \in V PROVE n + 1 \in V
  <2>1. n + 1 \in 1 .. N /\ n \in 0 .. Len(longer) - 1 /\ n + 1 \in Nat
    BY <1>1
  <2>2. f[n + 1] = IF n + 1 \in T THEN Append(f[n], s[n + 1]) ELSE f[n]
    BY <1>2 DEF Selects, N
  <2>3. g[n + 1] = IF n + 1 \in U THEN Append(g[n], longer[n + 1]) ELSE g[n]
    BY <1>3, <2>1, Zenon DEF Selects
  <2>4. longer[n + 1] = s[n + 1] /\ g[n] = f[n] /\ (n + 1 \in T <=> n + 1 \in U)
    BY <1>1, <1>5, <2>1 DEF N
  <2>5. g[n + 1] = f[n + 1]
    BY <2>2, <2>3, <2>4, Zenon
  <2>6. QED
    BY <2>1, <2>5
<1> HIDE DEF V
<1>6. \A n \in 0 .. N : n \in V
  BY <1>1, <1>4, <1>5, BoundedInduction
<1>7. g[N] = f[N]
  <2>1. N \in V
    BY <1>1, <1>6
  <2>2. QED
    BY <2>1 DEF V
<1>8. N \in 0 .. Len(longer) - 1
  BY <1>1
<1>9. g[N + 1] = IF N + 1 \in U THEN Append(g[N], longer[N + 1]) ELSE g[N]
  BY <1>3, <1>8, Zenon DEF Selects
<1>10. QED
  BY <1>1, <1>2, <1>3, <1>7, <1>9, Zenon DEF N

=============================================================================
