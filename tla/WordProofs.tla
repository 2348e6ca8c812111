---------------------------- MODULE WordProofs ------------------------------
(***************************************************************************)
(* Lemmas about the operators on words: their ranges, and what they        *)
(* compute as numbers.  That ToNat is a sum of powers of two, and that     *)
(* Plus adds, is proved by induction on the bits; what is needed of the    *)
(* powers of two themselves is the hypothesis PowersDouble(N).             *)
(***************************************************************************)
EXTENDS Utilities, InductionProofs, FiniteSetTheorems, TLAPS

(* The sum and the difference of anything are words.                       *)
LEMMA PlusIsWord == ASSUME NEW a, NEW b PROVE Plus(a, b) \in Word
BY DEF Plus, Word

LEMMA MinusIsWord == ASSUME NEW a, NEW b PROVE Minus(a, b) \in Word
BY DEF Minus, Word

(* So are the results of the shifts, the narrowings and the complement.    *)
LEMMA ShiftLeftIsWord == ASSUME NEW a, NEW n PROVE ShiftLeft(a, n) \in Word
BY DEF ShiftLeft, Word

LEMMA UnsignedShiftRightIsWord ==
  ASSUME NEW a, NEW n PROVE UnsignedShiftRight(a, n) \in Word
BY DEF UnsignedShiftRight, Word

LEMMA SignedShiftRightIsWord ==
  ASSUME NEW a, NEW n PROVE SignedShiftRight(a, n) \in Word
BY UnsignedShiftRightIsWord DEF SignedShiftRight, Word

LEMMA LowBitsIsWord ==
  ASSUME NEW a \in Word, NEW n PROVE LowBits(a, n) \in Word
BY DEF LowBits, Word

LEMMA ComplementIsWord == ASSUME NEW a PROVE Complement(a) \in Word
BY DEF Complement, Word

LEMMA SymDiffIsWord ==
  ASSUME NEW a \in Word, NEW b \in Word PROVE SymDiff(a, b) \in Word
BY DEF SymDiff, Word

LEMMA UnionIsWord ==
  ASSUME NEW a \in Word, NEW b \in Word PROVE a \cup b \in Word
BY DEF Word

(* The W form of a value has no bit above the register's width.            *)
LEMMA LowBitsIsNarrow ==
  ASSUME NEW a PROVE LowBits(a, WLEN) \subseteq 0 .. WLEN - 1
BY DEF LowBits

-----------------------------------------------------------------------------
(* The shift functions of utilities.c return words.                        *)
LEMMA LogicalLeftIsWord ==
  ASSUME NEW bits, NEW control, NEW shamt
  PROVE  logicalLeft(bits, control, shamt) \in Word
BY ShiftLeftIsWord DEF logicalLeft, Word

LEMMA LogicalRightIsWord ==
  ASSUME NEW bits, NEW control, NEW shamt
  PROVE  logicalRight(bits, control, shamt) \in Word
BY SignedShiftRightIsWord, MinusIsWord DEF logicalRight

LEMMA ArithmeticRightIsWord ==
  ASSUME NEW bits, NEW control, NEW shamt
  PROVE  arithmeticRight(bits, control, shamt) \in Word
BY SignedShiftRightIsWord, PlusIsWord DEF arithmeticRight

LEMMA RotateRightIsWord ==
  ASSUME NEW bits, NEW control, NEW shamt
  PROVE  rotateRight(bits, control, shamt) \in Word
BY PlusIsWord, ShiftLeftIsWord, UnsignedShiftRightIsWord, UnionIsWord DEF rotateRight

-----------------------------------------------------------------------------
(* Extracting num bits leaves bits num - 1 .. 0, as long as a mask of that *)
(* length is exact and is not cut at the width of an instruction.          *)
LEMMA BitMaskBits ==
  ASSUME NEW bits, NEW start, NEW num \in 1 .. WLEN - 1
  PROVE  bitMask(bits, start, num) \subseteq 0 .. num - 1
<1> DEFINE m == bitMask64(SignExtend(bits, WLEN), start, num)
<1>1. m \subseteq 0 .. num - 1
  <2>1. pow2Minus1(num) \subseteq 0 .. num - 1
    BY MantissaAssumption, WidthAssumption DEF pow2Minus1, LowBits
  <2>2. QED
    BY <2>1 DEF bitMask64
<1>2. WLEN - 1 \notin m
  BY <1>1, WidthAssumption
<1>3. SignExtend(m, WLEN) \subseteq m
  BY <1>2 DEF SignExtend, LowBits
<1>4. QED
  BY <1>1, <1>3 DEF bitMask

(* A field of five bits is a register index, 31 included.                  *)
LEMMA FieldValueOfFive ==
  ASSUME NEW a, a \subseteq 0 .. 4 PROVE FieldValue(a) \in 0 .. 31
<1>1. 5 \notin a
  OBVIOUS
<1>2. QED
  BY <1>1 DEF FieldValue

(* The position of a byte in its doubleword.                               *)
LEMMA FieldValueOfThree ==
  ASSUME NEW a, a \subseteq 0 .. 2 PROVE FieldValue(a) \in 0 .. 7
<1>1. 3 \notin a /\ 4 \notin a /\ 5 \notin a
  OBVIOUS
<1>2. QED
  BY <1>1 DEF FieldValue

-----------------------------------------------------------------------------
(* The weights of the positions S are numbers.                             *)
Weigh(S) == \A i \in S : 2 ^ i \in Nat

SumRule(f, s) == IF s = {} THEN 0
                 ELSE 2 ^ (CHOOSE x \in s : TRUE) + f[s \ {CHOOSE x \in s : TRUE}]

(* f holds the sums that ToNat makes of the subsets of S.                  *)
Sums(f, S) == f = [s \in SUBSET S |-> SumRule(f, s)]

(* ToNat of a subset of S, by any function that holds the sums of S.       *)
LEMMA ToNatIsSum ==
  ASSUME NEW a PROVE ToNat(a) = (CHOOSE f : Sums(f, a))[a]
BY Zenon DEF ToNat, MapThenSumSet, MapThenFoldSet, Sums, SumRule

(* Without one of its elements a set has one less.                         *)
LEMMA OneLess ==
  ASSUME NEW S, IsFiniteSet(S), NEW s \in SUBSET S, NEW x \in s
  PROVE  /\ s \ {x} \in SUBSET S
         /\ Cardinality(s) \in Nat
         /\ Cardinality(s \ {x}) = Cardinality(s) - 1
<1>1. IsFiniteSet(s)
  BY FS_Subset
<1>2. Cardinality(s \ {x}) = IF x \in s THEN Cardinality(s) - 1 ELSE Cardinality(s)
  BY <1>1, FS_RemoveElement, Zenon
<1>3. QED
  BY <1>1, <1>2, FS_CardinalityType

(* A finite set has such a function.                                       *)
LEMMA SumsExist ==
  ASSUME NEW S, IsFiniteSet(S) PROVE \E f : Sums(f, S)
<1> DEFINE D(k) == {s \in SUBSET S : Cardinality(s) <= k}
           solves(f, k) == f = [s \in D(k) |-> SumRule(f, s)]
           T == {k \in Nat : \E f : solves(f, k)}
<1>1. \A s \in SUBSET S : IsFiniteSet(s) /\ Cardinality(s) \in Nat
  BY FS_Subset, FS_CardinalityType
<1>2. 0 \in T
  <2> DEFINE f == [s \in D(0) |-> 0]
  <2>1. \A s \in D(0) : s = {}
    BY <1>1, FS_EmptySet
  <2>2. \A s \in D(0) : SumRule(f, s) = 0
    BY <2>1 DEF SumRule
  <2>3. solves(f, 0)
    BY <2>2, Zenon
  <2>4. QED
    BY <2>3
<1>3. ASSUME NEW k \in Nat, k \in T PROVE k + 1 \in T
  <2>1. PICK f : solves(f, k)
    BY <1>3
  <2> DEFINE g == [s \in D(k + 1) |-> SumRule(f, s)]
  <2>2. \A s \in D(k) : s \in D(k + 1)
    BY <1>1
  <2>3. \A s \in D(k) : g[s] = f[s]
    <3> HIDE DEF D
    <3>1. \A s \in D(k) : f[s] = SumRule(f, s)
      BY <2>1, Zenon
    <3>2. \A s \in D(k) : g[s] = SumRule(f, s)
      BY <2>2, Zenon
    <3>3. QED
      BY <3>1, <3>2, Zenon
  <2>4. ASSUME NEW s \in D(k + 1), s # {}
        PROVE  s \ {CHOOSE x \in s : TRUE} \in D(k)
    <3> DEFINE c == CHOOSE x \in s : TRUE
    <3>1. c \in s
      BY <2>4
    <3> HIDE DEF c
    <3>2. Cardinality(s \ {c}) = Cardinality(s) - 1
      BY <3>1, OneLess
    <3>3. s \ {c} \in SUBSET S /\ Cardinality(s) <= k + 1 /\ Cardinality(s) \in Nat
      BY <1>1
    <3>4. s \ {c} \in D(k)
      BY <3>2, <3>3
    <3>5. QED
      BY <3>4 DEF c
  <2>5. ASSUME NEW s \in D(k + 1) PROVE SumRule(g, s) = SumRule(f, s)
    <3> HIDE DEF D, g
    <3>1. CASE s = {}
      BY <3>1, Zenon DEF SumRule
    <3>2. CASE s # {}
      <4>1. g[s \ {CHOOSE x \in s : TRUE}] = f[s \ {CHOOSE x \in s : TRUE}]
        BY <2>3, <2>4, <3>2, Zenon
      <4>2. QED
        BY <3>2, <4>1, Zenon DEF SumRule
    <3>3. QED
      BY <3>1, <3>2
  <2>6. g = [s \in D(k + 1) |-> SumRule(g, s)]
    <3> HIDE DEF D
    <3>1. \A s \in D(k + 1) : SumRule(f, s) = SumRule(g, s)
      BY <2>5
    <3>2. QED
      BY <3>1, Zenon
  <2>7. \E h : solves(h, k + 1)
    <3> HIDE DEF D, g
    <3> QED BY <2>6
  <2> HIDE DEF solves
  <2>8. QED
    BY <2>7
<1>4. \A k \in Nat : k \in T
  <2> HIDE DEF T
  <2> QED BY <1>2, <1>3, SetInduction
<1>5. PICK f : solves(f, Cardinality(S))
  BY <1>1, <1>4
<1>6. D(Cardinality(S)) = SUBSET S
  BY FS_Subset
<1>7. QED
  BY <1>5, <1>6, Zenon DEF Sums

(* Two such functions agree on the sets they are both defined for.         *)
LEMMA SumsUnique ==
  ASSUME NEW S, NEW U, IsFiniteSet(S), IsFiniteSet(U), NEW f, Sums(f, S), NEW g, Sums(g, U)
  PROVE  \A s \in SUBSET (S \cap U) : f[s] = g[s]
<1> DEFINE T == {k \in Nat : \A s \in SUBSET (S \cap U) : Cardinality(s) = k => f[s] = g[s]}
<1>1. \A s \in SUBSET (S \cap U) : IsFiniteSet(s) /\ Cardinality(s) \in Nat
  BY FS_Subset, FS_CardinalityType
<1>2. \A s \in SUBSET (S \cap U) : f[s] = SumRule(f, s) /\ g[s] = SumRule(g, s)
  BY Zenon DEF Sums
<1>3. 0 \in T
  <2>1. ASSUME NEW s \in SUBSET (S \cap U), Cardinality(s) = 0 PROVE f[s] = g[s]
    <3>1. s = {}
      BY <1>1, <2>1, FS_EmptySet
    <3>2. QED
      BY <1>2, <3>1, Zenon DEF SumRule
  <2>2. QED
    BY <2>1
<1>4. ASSUME NEW k \in Nat, k \in T PROVE k + 1 \in T
  <2>1. ASSUME NEW s \in SUBSET (S \cap U), Cardinality(s) = k + 1 PROVE f[s] = g[s]
    <3> DEFINE c == CHOOSE x \in s : TRUE
    <3>1. s # {}
      BY <2>1, FS_EmptySet
    <3>2. c \in s
      BY <3>1
    <3>3. f[s] = SumRule(f, s) /\ g[s] = SumRule(g, s)
      BY <1>2
    <3>4. SumRule(f, s) = 2 ^ c + f[s \ {c}] /\ SumRule(g, s) = 2 ^ c + g[s \ {c}]
      BY <3>1, Zenon DEF SumRule
    <3> HIDE DEF c
    <3>5. s \ {c} \in SUBSET (S \cap U) /\ Cardinality(s \ {c}) = k
      <4>1. IsFiniteSet(S \cap U)
        BY FS_Subset
      <4>2. QED
        BY <2>1, <3>2, <4>1, OneLess
    <3>6. f[s \ {c}] = g[s \ {c}]
      BY <1>4, <3>5
    <3>7. QED
      BY <3>3, <3>4, <3>6, Zenon
  <2>2. QED
    BY <2>1
<1>5. \A k \in Nat : k \in T
  <2> HIDE DEF T
  <2> QED BY <1>3, <1>4, SetInduction
<1>6. QED
  BY <1>1, <1>5

(* So there is one, and ToNat returns what it holds.                       *)
LEMMA ToNatSums ==
  ASSUME NEW S, IsFiniteSet(S), NEW f, Sums(f, S)
  PROVE  \A s \in SUBSET S : f[s] = ToNat(s)
<1> SUFFICES ASSUME NEW s \in SUBSET S PROVE f[s] = ToNat(s)
  OBVIOUS
<1> DEFINE g == CHOOSE h : Sums(h, s)
<1>1. IsFiniteSet(s)
  BY FS_Subset
<1>2. Sums(g, s)
  BY <1>1, SumsExist, Zenon
<1>3. ToNat(s) = g[s]
  BY ToNatIsSum
<1> HIDE DEF g
<1>4. f[s] = g[s]
  BY <1>1, <1>2, SumsUnique
<1>5. QED
  BY <1>3, <1>4

(* A word without a 1 bit is zero.                                         *)
LEMMA ToNatEmpty == ToNat({}) = 0
<1>1. IsFiniteSet({})
  BY FS_EmptySet
<1>2. PICK f : Sums(f, {})
  BY <1>1, SumsExist
<1>3. f[{}] = ToNat({})
  BY <1>1, <1>2, ToNatSums
<1>4. f[{}] = 0
  BY <1>2, Zenon DEF Sums, SumRule
<1>5. QED
  BY <1>3, <1>4

(* Any other word is the weight of the bit taken first and the rest.       *)
LEMMA ToNatChosen ==
  ASSUME NEW S, IsFiniteSet(S), S # {}
  PROVE  \E c \in S : ToNat(S) = 2 ^ c + ToNat(S \ {c})
<1> DEFINE c == CHOOSE x \in S : TRUE
<1>1. PICK f : Sums(f, S)
  BY SumsExist
<1>2. c \in S
  OBVIOUS
<1>3. f[S] = 2 ^ c + f[S \ {c}]
  BY <1>1, Zenon DEF Sums, SumRule
<1> HIDE DEF c
<1>4. f[S] = ToNat(S) /\ f[S \ {c}] = ToNat(S \ {c})
  BY <1>1, ToNatSums
<1>5. ToNat(S) = 2 ^ c + ToNat(S \ {c})
  BY <1>3, <1>4, Zenon
<1>6. QED
  BY <1>2, <1>5

(* A word denotes a natural number.                                        *)
LEMMA ToNatIsNat ==
  ASSUME NEW S, IsFiniteSet(S), Weigh(S) PROVE ToNat(S) \in Nat
<1> DEFINE T == {k \in Nat : \A s \in SUBSET S : Cardinality(s) = k => ToNat(s) \in Nat}
<1>1. \A s \in SUBSET S : IsFiniteSet(s) /\ Cardinality(s) \in Nat
  BY FS_Subset, FS_CardinalityType
<1>2. 0 \in T
  <2>1. ASSUME NEW s \in SUBSET S, Cardinality(s) = 0 PROVE ToNat(s) \in Nat
    <3>1. s = {}
      BY <1>1, <2>1, FS_EmptySet
    <3>2. QED
      BY <3>1, ToNatEmpty
  <2>2. QED
    BY <2>1
<1>3. ASSUME NEW k \in Nat, k \in T PROVE k + 1 \in T
  <2>1. ASSUME NEW s \in SUBSET S, Cardinality(s) = k + 1 PROVE ToNat(s) \in Nat
    <3>1. s # {}
      BY <2>1, FS_EmptySet
    <3>2. PICK c \in s : ToNat(s) = 2 ^ c + ToNat(s \ {c})
      BY <1>1, <3>1, ToNatChosen
    <3>3. s \ {c} \in SUBSET S /\ Cardinality(s \ {c}) = k /\ 2 ^ c \in Nat
      BY <2>1, OneLess DEF Weigh
    <3>4. QED
      BY <1>3, <3>2, <3>3
  <2>2. QED
    BY <2>1
<1>4. \A k \in Nat : k \in T
  <2> HIDE DEF T
  <2> QED BY <1>2, <1>3, SetInduction
<1>5. QED
  BY <1>1, <1>4

(* Whichever bit is taken away first.                                      *)
LEMMA ToNatSplits ==
  ASSUME NEW S, IsFiniteSet(S), Weigh(S)
  PROVE  /\ ToNat(S) \in Nat
         /\ \A x \in S : ToNat(S) = 2 ^ x + ToNat(S \ {x})
<1> DEFINE good(s) == /\ ToNat(s) \in Nat
                      /\ \A x \in s : ToNat(s) = 2 ^ x + ToNat(s \ {x})
           T == {k \in Nat : \A s \in SUBSET S : Cardinality(s) = k => good(s)}
<1>1. \A s \in SUBSET S : IsFiniteSet(s) /\ Cardinality(s) \in Nat
  BY FS_Subset, FS_CardinalityType
<1>2. 0 \in T
  <2>1. ASSUME NEW s \in SUBSET S, Cardinality(s) = 0 PROVE good(s)
    <3>1. s = {}
      BY <1>1, <2>1, FS_EmptySet
    <3>2. QED
      BY <3>1, ToNatEmpty
  <2>2. QED
    BY <2>1
<1>3. ASSUME NEW k \in Nat, k \in T PROVE k + 1 \in T
  <2>1. ASSUME NEW s \in SUBSET S, Cardinality(s) = k + 1 PROVE good(s)
    <3>1. s # {}
      BY <2>1, FS_EmptySet
    <3>2. PICK c \in s : ToNat(s) = 2 ^ c + ToNat(s \ {c})
      BY <1>1, <3>1, ToNatChosen
    <3>3. \A x \in s : /\ s \ {x} \in SUBSET S /\ Cardinality(s \ {x}) = k
                       /\ 2 ^ x \in Nat
      BY <2>1, OneLess DEF Weigh
    <3>4. \A x \in s : good(s \ {x})
      BY <1>3, <3>3
    <3>5. ToNat(s) \in Nat
      BY <3>2, <3>3, <3>4
    <3>6. ASSUME NEW x \in s, x # c PROVE ToNat(s) = 2 ^ x + ToNat(s \ {x})
      <4>1. (s \ {c}) \ {x} = (s \ {x}) \ {c}
        OBVIOUS
      <4>2. ToNat(s \ {c}) = 2 ^ x + ToNat((s \ {c}) \ {x})
        BY <3>4, <3>6
      <4>3. ToNat(s \ {x}) = 2 ^ c + ToNat((s \ {x}) \ {c})
        BY <3>4, <3>6
      <4> DEFINE r == ToNat((s \ {x}) \ {c})
                 wx == 2 ^ x
                 wc == 2 ^ c
      <4>4. r \in Nat
        <5>1. (s \ {x}) \ {c} \in SUBSET S
          OBVIOUS
        <5>2. QED
          BY <1>1, <5>1, ToNatIsNat DEF Weigh
      <4>5. wx \in Nat /\ wc \in Nat
        BY <3>3
      <4>6. ToNat(s) = wc + (wx + r) /\ ToNat(s \ {x}) = wc + r
        BY <3>2, <4>1, <4>2, <4>3, Zenon
      <4> HIDE DEF r, wx, wc
      <4>7. ToNat(s) = wx + ToNat(s \ {x})
        BY <4>4, <4>5, <4>6
      <4>8. QED
        BY <4>7 DEF wx
    <3>7. QED
      BY <3>2, <3>5, <3>6
  <2>2. QED
    BY <2>1
<1>4. \A k \in Nat : k \in T
  <2> HIDE DEF T
  <2> QED BY <1>2, <1>3, SetInduction
<1>5. QED
  BY <1>1, <1>4

-----------------------------------------------------------------------------
(* tlapm computes the powers of two of these numerals itself.              *)
LEMMA PowersUpTo35 == PowersDouble(35)
<1>1. \A n \in 0 .. 34 : 2 ^ (n + 1) = 2 * 2 ^ n
  <2> SUFFICES ASSUME NEW n \in 0 .. 34 PROVE 2 ^ (n + 1) = 2 * 2 ^ n
    OBVIOUS
  <2>1. CASE n = 0
    BY <2>1
  <2>2. CASE n = 1
    BY <2>2
  <2>3. CASE n = 2
    BY <2>3
  <2>4. CASE n = 3
    BY <2>4
  <2>5. CASE n = 4
    BY <2>5
  <2>6. CASE n = 5
    BY <2>6
  <2>7. CASE n = 6
    BY <2>7
  <2>8. CASE n = 7
    BY <2>8
  <2>9. CASE n = 8
    BY <2>9
  <2>10. CASE n = 9
    BY <2>10
  <2>11. CASE n = 10
    BY <2>11
  <2>12. CASE n = 11
    BY <2>12
  <2>13. CASE n = 12
    BY <2>13
  <2>14. CASE n = 13
    BY <2>14
  <2>15. CASE n = 14
    BY <2>15
  <2>16. CASE n = 15
    BY <2>16
  <2>17. CASE n = 16
    BY <2>17
  <2>18. CASE n = 17
    BY <2>18
  <2>19. CASE n = 18
    BY <2>19
  <2>20. CASE n = 19
    BY <2>20
  <2>21. CASE n = 20
    BY <2>21
  <2>22. CASE n = 21
    BY <2>22
  <2>23. CASE n = 22
    BY <2>23
  <2>24. CASE n = 23
    BY <2>24
  <2>25. CASE n = 24
    BY <2>25
  <2>26. CASE n = 25
    BY <2>26
  <2>27. CASE n = 26
    BY <2>27
  <2>28. CASE n = 27
    BY <2>28
  <2>29. CASE n = 28
    BY <2>29
  <2>30. CASE n = 29
    BY <2>30
  <2>31. CASE n = 30
    BY <2>31
  <2>32. CASE n = 31
    BY <2>32
  <2>33. CASE n = 32
    BY <2>33
  <2>34. CASE n = 33
    BY <2>34
  <2>35. CASE n = 34
    BY <2>35
  <2>36. QED
    BY <2>1, <2>2, <2>3, <2>4, <2>5, <2>6, <2>7, <2>8, <2>9, <2>10, <2>11, <2>12, <2>13, <2>14, <2>15, <2>16, <2>17, <2>18, <2>19, <2>20, <2>21, <2>22, <2>23, <2>24, <2>25, <2>26, <2>27, <2>28, <2>29, <2>30, <2>31, <2>32, <2>33, <2>34, <2>35
<1>2. QED
  BY <1>1 DEF PowersDouble

(* They are positive numbers.                                              *)
LEMMA PowersType ==
  ASSUME NEW N \in Nat, PowersDouble(N)
  PROVE  \A n \in 0 .. N : 2 ^ n \in Nat \ {0}
<1> DEFINE T == {n \in Nat : 2 ^ n \in Nat \ {0}}
<1>1. 0 \in T
  BY DEF PowersDouble
<1>2. \A n \in 0 .. N - 1 : n \in T => n + 1 \in T
  BY DEF PowersDouble
<1>3. \A n \in 0 .. N : n \in T
  <2> HIDE DEF T
  <2> QED BY <1>1, <1>2, BoundedInduction
<1>4. QED
  BY <1>3

(* The value of the low bits of a word, bit by bit.                        *)
LEMMA LowBitsStep ==
  ASSUME NEW N \in Nat, PowersDouble(N), NEW a, NEW n \in 0 .. N - 1
  PROVE  /\ ToNat(LowBits(a, n)) \in Nat
         /\ ToNat(LowBits(a, n + 1)) \in Nat
         /\ ToNat(LowBits(a, n + 1)) = ToNat(LowBits(a, n)) + (IF n \in a THEN 2 ^ n ELSE 0)
<1> DEFINE low == LowBits(a, n)
           more == LowBits(a, n + 1)
<1>1. \A m \in 0 .. N : 2 ^ m \in Nat \ {0}
  BY PowersType
<1>2. /\ IsFiniteSet(low) /\ Weigh(low)
      /\ IsFiniteSet(more) /\ Weigh(more)
  <2>1. IsFiniteSet(0 .. N)
    BY FS_Interval
  <2>2. low \in SUBSET (0 .. N) /\ more \in SUBSET (0 .. N)
    BY DEF LowBits
  <2>3. QED
    BY <1>1, <2>1, <2>2, FS_Subset DEF Weigh
<1>3. CASE n \in a
  <2>1. n \in more /\ more \ {n} = low
    BY <1>3 DEF LowBits
  <2> HIDE DEF low, more
  <2>2. ToNat(low) \in Nat /\ ToNat(more) \in Nat /\ ToNat(more) = 2 ^ n + ToNat(low)
    BY <1>2, <2>1, ToNatSplits
  <2>3. 2 ^ n \in Nat
    BY <1>1
  <2>4. QED
    BY <1>3, <2>2, <2>3 DEF low, more
<1>4. CASE n \notin a
  <2>1. more = low
    BY <1>4 DEF LowBits
  <2> HIDE DEF low, more
  <2>2. ToNat(low) \in Nat
    BY <1>2, ToNatSplits
  <2>3. QED
    BY <1>4, <2>1, <2>2 DEF low, more
<1>5. QED
  BY <1>3, <1>4

(* No bits make zero.                                                      *)
LEMMA LowBitsNone == ASSUME NEW a PROVE ToNat(LowBits(a, 0)) = 0
<1>1. LowBits(a, 0) = {}
  BY DEF LowBits
<1>2. QED
  BY <1>1, ToNatEmpty

(* n bits make numbers below 2^n.                                          *)
LEMMA LowBitsBound ==
  ASSUME NEW N \in Nat, PowersDouble(N), NEW a
  PROVE  \A n \in 0 .. N : ToNat(LowBits(a, n)) \in Nat /\ ToNat(LowBits(a, n)) < 2 ^ n
<1> DEFINE v(n) == ToNat(LowBits(a, n))
           T == {n \in Nat : v(n) \in Nat /\ v(n) < 2 ^ n}
<1>1. 0 \in T
  BY LowBitsNone DEF PowersDouble
<1>2. ASSUME NEW n \in 0 .. N - 1, n \in T PROVE n + 1 \in T
  <2>1. v(n) \in Nat /\ v(n + 1) \in Nat /\ v(n + 1) = v(n) + IF n \in a THEN 2 ^ n ELSE 0
    BY LowBitsStep
  <2>2. 2 ^ n \in Nat /\ 2 ^ (n + 1) = 2 * 2 ^ n
    BY PowersType DEF PowersDouble
  <2>3. v(n) < 2 ^ n
    BY <1>2
  <2> HIDE DEF v
  <2>4. v(n + 1) < 2 ^ (n + 1)
    BY <2>1, <2>2, <2>3
  <2>5. QED
    BY <2>1, <2>4
<1>3. \A n \in 0 .. N : n \in T
  <2> HIDE DEF T
  <2> QED BY <1>1, <1>2, BoundedInduction
<1>4. QED
  BY <1>3

(* The carry into a bit is the majority of the bits below and the carry    *)
(* into them.                                                              *)
LEMMA CarryStep ==
  ASSUME NEW a \in Word, NEW b \in Word, NEW n \in Nat
  PROVE  CarryInto(n + 1, a, b)
           <=> \/ n \in a /\ n \in b
               \/ (n \in a \/ n \in b) /\ CarryInto(n, a, b)
<1>1. a \subseteq Int /\ b \subseteq Int
  BY WidthAssumption DEF Word, Bits
<1>2. ASSUME CarryInto(n + 1, a, b)
      PROVE  \/ n \in a /\ n \in b
             \/ (n \in a \/ n \in b) /\ CarryInto(n, a, b)
  <2>1. PICK j \in a \cap b : j < n + 1 /\ (j + 1) .. n \subseteq a \cup b
    BY <1>2 DEF CarryInto
  <2>2. CASE j = n
    BY <2>1, <2>2
  <2>3. CASE j < n
    <3>1. n \in (j + 1) .. n /\ (j + 1) .. (n - 1) \subseteq (j + 1) .. n
      BY <1>1, <2>1, <2>3
    <3>2. QED
      BY <2>1, <2>3, <3>1 DEF CarryInto
  <2>4. QED
    BY <1>1, <2>1, <2>2, <2>3
<1>3. ASSUME n \in a /\ n \in b PROVE CarryInto(n + 1, a, b)
  <2>1. n < n + 1 /\ (n + 1) .. ((n + 1) - 1) \subseteq a \cup b
    OBVIOUS
  <2>2. QED
    BY <1>3, <2>1 DEF CarryInto
<1>4. ASSUME n \in a \/ n \in b, CarryInto(n, a, b) PROVE CarryInto(n + 1, a, b)
  <2>1. PICK j \in a \cap b : j < n /\ (j + 1) .. (n - 1) \subseteq a \cup b
    BY <1>4 DEF CarryInto
  <2>2. (j + 1) .. ((n + 1) - 1) \subseteq a \cup b /\ j < n + 1
    BY <1>1, <1>4, <2>1
  <2>3. QED
    BY <2>1, <2>2 DEF CarryInto
<1>5. QED
  BY <1>2, <1>3, <1>4

(* No carry enters bit 0.                                                  *)
LEMMA NoFirstCarry ==
  ASSUME NEW a \in Word, NEW b \in Word PROVE ~CarryInto(0, a, b)
BY WidthAssumption DEF CarryInto, Word, Bits

(* One bit of a sum.                                                       *)
LEMMA PlusBit ==
  ASSUME NEW a, NEW b, NEW n \in Bits
  PROVE  n \in Plus(a, b) <=> ((n \in a) # (n \in b)) # CarryInto(n, a, b)
<1> DEFINE S(x, y) == {i \in Bits : (i \in SymDiff(x, y)) # CarryInto(i, x, y)}
<1>1. n \in Plus(a, b) <=> n \in S(a, b)
  <2>1. ASSUME n \in Plus(a, b) PROVE n \in S(a, b)
    BY <2>1 DEF Plus
  <2>2. ASSUME n \in S(a, b) PROVE n \in Plus(a, b)
    <3> DEFINE U == {{i \in Bits : (i \in SymDiff(x, y)) # CarryInto(i, x, y)} :
                       x \in {a}, y \in {b}}
    <3>1. Plus(a, b) = UNION U
      BY DEF Plus
    <3>2. S(a, b) \in U
      <4>1. \E x \in {a}, y \in {b} :
              S(a, b) = {i \in Bits : (i \in SymDiff(x, y)) # CarryInto(i, x, y)}
        BY Zenon
      <4> HIDE DEF S
      <4>2. QED
        BY <4>1
    <3> HIDE DEF U, S
    <3>3. QED
      BY <2>2, <3>1, <3>2
  <2>3. QED
    BY <2>1, <2>2
<1>2. n \in S(a, b) <=> (n \in SymDiff(a, b)) # CarryInto(n, a, b)
  OBVIOUS
<1>3. (n \in SymDiff(a, b)) = ((n \in a) # (n \in b))
  <2>1. CASE n \in a
    BY <2>1 DEF SymDiff
  <2>2. CASE n \notin a
    BY <2>2 DEF SymDiff
  <2>3. QED
    BY <2>1, <2>2
<1> HIDE DEF S
<1>4. QED
  BY <1>1, <1>2, <1>3

(* Addition adds: the low bits of a sum and the carry out of them are the  *)
(* sum of the low bits.                                                    *)
LEMMA PlusAdds ==
  ASSUME NEW N \in 0 .. XLEN, PowersDouble(N), NEW a \in Word, NEW b \in Word
  PROVE  \A n \in 0 .. N :
           ToNat(LowBits(Plus(a, b), n)) + (IF CarryInto(n, a, b) THEN 2 ^ n ELSE 0)
             = ToNat(LowBits(a, n)) + ToNat(LowBits(b, n))
<1> DEFINE va(n) == ToNat(LowBits(a, n))
           vb(n) == ToNat(LowBits(b, n))
           vs(n) == ToNat(LowBits(Plus(a, b), n))
           carry(n) == IF CarryInto(n, a, b) THEN 2 ^ n ELSE 0
           T == {n \in Nat : vs(n) + carry(n) = va(n) + vb(n)}
<1>1. 0 \in T
  <2>1. va(0) = 0 /\ vb(0) = 0 /\ vs(0) = 0
    BY LowBitsNone
  <2>2. carry(0) = 0
    BY NoFirstCarry
  <2> HIDE DEF va, vb, vs, carry
  <2>3. QED
    BY <2>1, <2>2
<1>2. ASSUME NEW n \in 0 .. N - 1, n \in T PROVE n + 1 \in T
  <2> DEFINE w == 2 ^ n
             w1 == 2 ^ (n + 1)
             ina == n \in a
             inb == n \in b
             ins == n \in Plus(a, b)
             cin == CarryInto(n, a, b)
             cout == CarryInto(n + 1, a, b)
  <2>1. /\ va(n) \in Nat /\ va(n + 1) = va(n) + (IF ina THEN w ELSE 0)
        /\ vb(n) \in Nat /\ vb(n + 1) = vb(n) + (IF inb THEN w ELSE 0)
        /\ vs(n) \in Nat /\ vs(n + 1) = vs(n) + (IF ins THEN w ELSE 0)
    BY LowBitsStep
  <2>2. w \in Nat /\ w1 = 2 * w
    BY PowersType DEF PowersDouble
  <2>3. carry(n) = (IF cin THEN w ELSE 0) /\ carry(n + 1) = (IF cout THEN w1 ELSE 0)
    OBVIOUS
  <2>4. cout <=> \/ ina /\ inb
                 \/ (ina \/ inb) /\ cin
    BY CarryStep
  <2>5. ins <=> ((ina # inb) # cin)
    <3>1. n \in Bits
      BY WidthAssumption DEF Bits
    <3>2. QED
      BY <3>1, PlusBit
  <2>6. vs(n) + carry(n) = va(n) + vb(n)
    BY <1>2
  <2>7. ina \in BOOLEAN /\ inb \in BOOLEAN /\ cin \in BOOLEAN
    BY DEF CarryInto
  <2> HIDE DEF va, vb, vs, carry, w, w1, ina, inb, ins, cin, cout
  <2>8. vs(n + 1) + carry(n + 1) = va(n + 1) + vb(n + 1)
    BY <2>1, <2>2, <2>3, <2>4, <2>5, <2>6, <2>7
  <2>9. QED
    BY <2>8
<1>3. \A n \in 0 .. N : n \in T
  <2> HIDE DEF T
  <2> QED BY <1>1, <1>2, BoundedInduction
<1>4. QED
  BY <1>3

-----------------------------------------------------------------------------
(* The powers of two of a sum of exponents.                                *)
LEMMA PowersAdd ==
  ASSUME NEW N \in Nat, PowersDouble(N), NEW s \in Nat, NEW t \in Nat, s + t <= N
  PROVE  2 ^ (s + t) = 2 ^ s * 2 ^ t
<1> DEFINE p(n) == 2 ^ n
           T == {n \in Nat : p(s + n) = p(s) * p(n)}
<1>1. p(0) = 1 /\ \A n \in 0 .. N - 1 : p(n + 1) = 2 * p(n)
  BY Zenon DEF PowersDouble
<1>2. \A n \in 0 .. N : p(n) \in Nat
  BY PowersType
<1> HIDE DEF p
<1>3. 0 \in T
  BY <1>1, <1>2
<1>4. ASSUME NEW n \in 0 .. t - 1, n \in T PROVE n + 1 \in T
  <2>1. p(s + n) = p(s) * p(n) /\ p(s) \in Nat /\ p(n) \in Nat /\ p(s + n) \in Nat
    BY <1>2, <1>4
  <2>2. p(n + 1) = 2 * p(n)
    BY <1>1
  <2>3. p((s + n) + 1) = 2 * p(s + n)
    BY <1>1
  <2>4. (s + n) + 1 = s + (n + 1)
    OBVIOUS
  <2>5. p(s) * (2 * p(n)) = 2 * (p(s) * p(n))
    BY <2>1
  <2>6. p(s + (n + 1)) = p(s) * p(n + 1)
    BY <2>1, <2>2, <2>3, <2>4, <2>5
  <2>7. QED
    BY <2>6
<1>5. \A n \in 0 .. t : n \in T
  <2> HIDE DEF T
  <2> QED BY <1>3, <1>4, BoundedInduction
<1>6. QED
  BY <1>5 DEF p

(* Words that agree below n have the same low bits.                        *)
LEMMA SameLowBits ==
  ASSUME NEW a, NEW b, NEW n \in Nat, \A i \in 0 .. n - 1 : i \in a <=> i \in b
  PROVE  LowBits(a, n) = LowBits(b, n)
BY DEF LowBits

(* Cutting a number in two: b is what is left of a above its low s bits.   *)
LEMMA LowBitsSplit ==
  ASSUME NEW N \in Nat, PowersDouble(N), NEW s \in Nat, NEW t \in Nat, s + t <= N,
         NEW a, NEW b, \A i \in 0 .. t - 1 : i \in b <=> s + i \in a
  PROVE  ToNat(LowBits(a, s + t)) = ToNat(LowBits(a, s)) + 2 ^ s * ToNat(LowBits(b, t))
<1> DEFINE va(n) == ToNat(LowBits(a, n))
           vb(n) == ToNat(LowBits(b, n))
           p(n) == 2 ^ n
           T == {n \in Nat : va(s + n) = va(s) + p(s) * vb(n)}
<1>1. \A n \in 0 .. N : p(n) \in Nat /\ va(n) \in Nat /\ vb(n) \in Nat
  BY PowersType, LowBitsBound
<1>2. \A n \in 0 .. N - 1 : /\ va(n + 1) = va(n) + (IF n \in a THEN p(n) ELSE 0)
                            /\ vb(n + 1) = vb(n) + (IF n \in b THEN p(n) ELSE 0)
  BY LowBitsStep
<1>3. \A n \in 0 .. t : p(s + n) = p(s) * p(n)
  BY PowersAdd
<1>4. vb(0) = 0
  BY LowBitsNone
<1> HIDE DEF va, vb, p
<1>5. 0 \in T
  <2>1. s + 0 = s /\ s \in 0 .. N
    OBVIOUS
  <2>2. p(s) * 0 = 0 /\ va(s) + 0 = va(s)
    BY <1>1, <2>1
  <2>3. QED
    BY <1>4, <2>1, <2>2
<1>6. ASSUME NEW n \in 0 .. t - 1, n \in T PROVE n + 1 \in T
  <2>1. /\ s \in 0 .. N /\ n \in 0 .. N - 1 /\ s + n \in 0 .. N - 1
        /\ (s + n) + 1 = s + (n + 1)
    OBVIOUS
  <2>2. /\ va(s + (n + 1)) = va(s + n) + (IF s + n \in a THEN p(s + n) ELSE 0)
        /\ vb(n + 1) = vb(n) + (IF n \in b THEN p(n) ELSE 0)
    BY <1>2, <2>1
  <2>3. p(s + n) = p(s) * p(n) /\ va(s + n) = va(s) + p(s) * vb(n)
    BY <1>3, <1>6
  <2>4. n \in b <=> s + n \in a
    OBVIOUS
  <2>5. va(s) \in Nat /\ vb(n) \in Nat /\ p(s) \in Nat /\ p(n) \in Nat
    BY <1>1, <2>1
  <2>6. p(s) * (vb(n) + p(n)) = p(s) * vb(n) + p(s) * p(n)
    BY <2>5
  <2>7. va(s + (n + 1)) = va(s) + p(s) * vb(n + 1)
    <3>1. CASE n \in b
      BY <3>1, <2>2, <2>3, <2>4, <2>5, <2>6
    <3>2. CASE n \notin b
      BY <3>2, <2>2, <2>3, <2>4, <2>5
    <3>3. QED
      BY <3>1, <3>2
  <2>8. QED
    BY <2>7
<1>7. \A n \in 0 .. t : n \in T
  <2> HIDE DEF T
  <2> QED BY <1>5, <1>6, BoundedInduction
<1>8. QED
  BY <1>7 DEF va, vb, p

(* n bits that are all 1.                                                  *)
LEMMA LowBitsAll ==
  ASSUME NEW N \in Nat, PowersDouble(N), NEW t \in 0 .. N, NEW a, 0 .. t - 1 \subseteq a
  PROVE  ToNat(LowBits(a, t)) = 2 ^ t - 1
<1> DEFINE va(n) == ToNat(LowBits(a, n))
           p(n) == 2 ^ n
           T == {n \in Nat : va(n) = p(n) - 1}
<1>1. \A n \in 0 .. N : p(n) \in Nat /\ va(n) \in Nat
  BY PowersType, LowBitsBound
<1>2. \A n \in 0 .. N - 1 : va(n + 1) = va(n) + (IF n \in a THEN p(n) ELSE 0)
  BY LowBitsStep
<1>3. p(0) = 1 /\ \A n \in 0 .. N - 1 : p(n + 1) = 2 * p(n)
  BY Zenon DEF PowersDouble
<1>4. va(0) = 0
  BY LowBitsNone
<1> HIDE DEF va, p
<1>5. 0 \in T
  BY <1>3, <1>4
<1>6. ASSUME NEW n \in 0 .. t - 1, n \in T PROVE n + 1 \in T
  <2>1. n \in 0 .. N - 1 /\ n \in a /\ n \in 0 .. N
    OBVIOUS
  <2>2. va(n + 1) = va(n) + p(n) /\ p(n + 1) = 2 * p(n) /\ p(n) \in Nat
    BY <1>1, <1>2, <1>3, <2>1
  <2>3. QED
    BY <1>6, <2>2
<1>7. \A n \in 0 .. t : n \in T
  <2> HIDE DEF T
  <2> QED BY <1>5, <1>6, BoundedInduction
<1>8. QED
  BY <1>7 DEF va, p

(* Quotient and remainder are determined by each other.                    *)
LEMMA QuotientAndRemainder ==
  ASSUME NEW m \in Nat \ {0}, NEW h \in Int, NEW r \in 0 .. m - 1
  PROVE  (m * h + r) \div m = h /\ (m * h + r) % m = r
<1> DEFINE x == m * h + r
           q == x \div m
           t == x % m
<1>1. m * h \in Int /\ x \in Int
  OBVIOUS
<1>2. q \in Int /\ t \in 0 .. m - 1 /\ x = m * q + t
  <2> HIDE DEF x
  <2> QED BY <1>1
<1>3. m * q + t = m * h + r
  BY <1>2
<1> HIDE DEF x, q, t
<1>4. m * (q - h) = r - t
  BY <1>2, <1>3
<1>5. q - h = 0
  <2> DEFINE d == q - h
  <2>1. d \in Int /\ m * d = r - t
    BY <1>2, <1>4
  <2> HIDE DEF d
  <2>2. CASE d >= 1
    <3>1. m * d >= m
      BY <2>1, <2>2
    <3>2. QED
      BY <1>2, <2>1, <3>1
  <2>3. CASE d <= -1
    <3>1. m * d <= -m
      BY <2>1, <2>3
    <3>2. QED
      BY <1>2, <2>1, <3>1
  <2>4. QED
    BY <2>1, <2>2, <2>3 DEF d
<1>6. q = h
  BY <1>2, <1>5
<1>7. t = r
  BY <1>2, <1>3, <1>6
<1>8. QED
  BY <1>6, <1>7 DEF q, t, x

-----------------------------------------------------------------------------
(* One bit of a difference.                                                *)
LEMMA MinusBit ==
  ASSUME NEW a, NEW b, NEW n \in Bits
  PROVE  n \in Minus(a, b) <=> ((n \in a) # (n \in b)) # BorrowInto(n, a, b)
<1> DEFINE S(x, y) == {i \in Bits : (i \in SymDiff(x, y)) # BorrowInto(i, x, y)}
<1>1. n \in Minus(a, b) <=> n \in S(a, b)
  <2>1. ASSUME n \in Minus(a, b) PROVE n \in S(a, b)
    BY <2>1 DEF Minus
  <2>2. ASSUME n \in S(a, b) PROVE n \in Minus(a, b)
    <3> DEFINE U == {{i \in Bits : (i \in SymDiff(x, y)) # BorrowInto(i, x, y)} :
                       x \in {a}, y \in {b}}
    <3>1. Minus(a, b) = UNION U
      BY DEF Minus
    <3>2. S(a, b) \in U
      <4>1. \E x \in {a}, y \in {b} :
              S(a, b) = {i \in Bits : (i \in SymDiff(x, y)) # BorrowInto(i, x, y)}
        BY Zenon
      <4> HIDE DEF S
      <4>2. QED
        BY <4>1
    <3> HIDE DEF U, S
    <3>3. QED
      BY <2>2, <3>1, <3>2
  <2>3. QED
    BY <2>1, <2>2
<1>2. n \in S(a, b) <=> (n \in SymDiff(a, b)) # BorrowInto(n, a, b)
  OBVIOUS
<1>3. (n \in SymDiff(a, b)) = ((n \in a) # (n \in b))
  <2>1. CASE n \in a
    BY <2>1 DEF SymDiff
  <2>2. CASE n \notin a
    BY <2>2 DEF SymDiff
  <2>3. QED
    BY <2>1, <2>2
<1> HIDE DEF S
<1>4. QED
  BY <1>1, <1>2, <1>3

(* Sums without carries and differences without borrows.                   *)
LEMMA PlusDisjoint ==
  ASSUME NEW a \in Word, NEW b \in Word, a \cap b = {} PROVE Plus(a, b) = a \cup b
<1>1. ASSUME NEW n \in Bits PROVE n \in Plus(a, b) <=> n \in a \cup b
  <2> DEFINE sum == n \in Plus(a, b)
             ina == n \in a
             inb == n \in b
             carry == CarryInto(n, a, b)
  <2>1. sum <=> ((ina # inb) # carry)
    BY PlusBit
  <2>2. carry = FALSE
    BY DEF CarryInto
  <2>3. ina \in BOOLEAN /\ inb \in BOOLEAN /\ ~(ina /\ inb)
    OBVIOUS
  <2> HIDE DEF sum, ina, inb, carry
  <2>4. sum <=> ina \/ inb
    BY <2>1, <2>2, <2>3
  <2>5. QED
    BY <2>4 DEF sum, ina, inb
<1>2. Plus(a, b) \subseteq Bits /\ a \cup b \subseteq Bits
  BY PlusIsWord DEF Word
<1>3. QED
  BY <1>1, <1>2

(* A difference of a word and a part of it borrows nothing.                *)
LEMMA MinusSubset ==
  ASSUME NEW a \in Word, NEW b, b \subseteq a PROVE Minus(a, b) = a \ b
<1>1. ASSUME NEW n \in Bits PROVE n \in Minus(a, b) <=> n \in a \ b
  <2> DEFINE difference == n \in Minus(a, b)
             ina == n \in a
             inb == n \in b
             borrow == BorrowInto(n, a, b)
  <2>1. difference <=> ((ina # inb) # borrow)
    BY MinusBit
  <2>2. borrow = FALSE
    BY DEF BorrowInto
  <2>3. ina \in BOOLEAN /\ inb \in BOOLEAN /\ (inb => ina)
    OBVIOUS
  <2> HIDE DEF difference, ina, inb, borrow
  <2>4. difference <=> ina /\ ~inb
    BY <2>1, <2>2, <2>3
  <2>5. QED
    BY <2>4 DEF difference, ina, inb
<1>2. Minus(a, b) \subseteq Bits /\ a \ b \subseteq Bits
  BY MinusIsWord DEF Word
<1>3. QED
  BY <1>1, <1>2

=============================================================================
