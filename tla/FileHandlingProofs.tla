------------------------- MODULE FileHandlingProofs -------------------------
(***************************************************************************)
(* What FileHandling promises, for every source file, every hash function, *)
(* every number of lines there is room for, and every fault.               *)
(***************************************************************************)
EXTENDS FileHandling, TableProofs, FiniteSetTheorems

-----------------------------------------------------------------------------
(* What Select returns, once for each test it is used with.                *)
kept(s) == Select(s, LAMBDA l : l # Empty /\ l # Blank)

(* The instructions of a source program.                                   *)
LEMMA InstructionsSelected ==
  ASSUME NEW S, NEW s \in Seq(S)
  PROVE  Selection(InstructionsOf(s), s, {i \in 1 .. Len(s) : isInstruction(s[i])})
<1> DEFINE N == Len(s)
           T == {i \in 1 .. N : isInstruction(s[i])}
           solves(f) == f = [i \in 0 .. N |-> IF i = 0 THEN <<>>
                                              ELSE IF isInstruction(s[i])
                                                THEN Append(f[i - 1], s[i]) ELSE f[i - 1]]
           F == CHOOSE f : solves(f)
<1>1. InstructionsOf(s) = F[N]
  BY DEF InstructionsOf, Select
<1>2. N \in Nat
  BY LenProperties
<1> HIDE DEF N
<1>3. \A i \in 0 .. N : i # 0 => (i \in T <=> isInstruction(s[i]))
  BY <1>2
<1> HIDE DEF T
<1>4. \A f : Solves(f, s, N, T) <=> solves(f)
  BY <1>3 DEF Solves
<1>5. \E f : solves(f)
  BY <1>2, <1>4, SelectsExists, Zenon
<1>6. solves(F)
  BY <1>5, Zenon
<1> HIDE DEF F
<1>7. Solves(F, s, N, T)
  BY <1>4, <1>6, Zenon
<1>8. Selects(F, s, T)
  BY <1>2, <1>7, SolutionSelects DEF N
<1>9. QED
  BY <1>1, <1>8, Zenon DEF Selection, N, T

(* The lines of a file that hold something.                                *)
LEMMA LinesKept ==
  ASSUME NEW S, NEW s \in Seq(S)
  PROVE  Selection(kept(s), s, {i \in 1 .. Len(s) : s[i] # Empty /\ s[i] # Blank})
<1> DEFINE N == Len(s)
           T == {i \in 1 .. N : s[i] # Empty /\ s[i] # Blank}
           solves(f) == f = [i \in 0 .. N |-> IF i = 0 THEN <<>>
                                              ELSE IF s[i] # Empty /\ s[i] # Blank
                                                THEN Append(f[i - 1], s[i]) ELSE f[i - 1]]
           F == CHOOSE f : solves(f)
<1>1. kept(s) = F[N]
  BY DEF kept, Select
<1>2. N \in Nat
  BY LenProperties
<1> HIDE DEF N
<1>3. \A i \in 0 .. N : i # 0 => (i \in T <=> s[i] # Empty /\ s[i] # Blank)
  BY <1>2
<1> HIDE DEF T
<1>4. \A f : Solves(f, s, N, T) <=> solves(f)
  BY <1>3 DEF Solves
<1>5. \E f : solves(f)
  BY <1>2, <1>4, SelectsExists, Zenon
<1>6. solves(F)
  BY <1>5, Zenon
<1> HIDE DEF F
<1>7. Solves(F, s, N, T)
  BY <1>4, <1>6, Zenon
<1>8. Selects(F, s, T)
  BY <1>2, <1>7, SolutionSelects DEF N
<1>9. QED
  BY <1>1, <1>8, Zenon DEF Selection, N, T

(* The numbers of some of the lines.                                       *)
chosen(n, W) == Select([i \in 1 .. n |-> i], LAMBDA i : i \in W)

(* They are the ones that are wanted.                                      *)
LEMMA LinesChosen ==
  ASSUME NEW n \in Nat, NEW W
  PROVE  Selection(chosen(n, W), [i \in 1 .. n |-> i], {i \in 1 .. n : i \in W})
<1> DEFINE s == [i \in 1 .. n |-> i]
           N == Len(s)
           T == {i \in 1 .. N : s[i] \in W}
           solves(f) == f = [i \in 0 .. N |-> IF i = 0 THEN <<>>
                                              ELSE IF s[i] \in W
                                                THEN Append(f[i - 1], s[i]) ELSE f[i - 1]]
           F == CHOOSE f : solves(f)
<1>1. chosen(n, W) = F[N]
  BY DEF chosen, Select
<1>2. N \in Nat /\ N = n
  OBVIOUS
<1>10. \A i \in 1 .. N : s[i] = i
  BY <1>2
<1> HIDE DEF N, s
<1>3. \A i \in 0 .. N : i # 0 => (i \in T <=> s[i] \in W)
  BY <1>2
<1> HIDE DEF T
<1>4. \A f : Solves(f, s, N, T) <=> solves(f)
  BY <1>3 DEF Solves
<1>5. \E f : solves(f)
  BY <1>2, <1>4, SelectsExists, Zenon
<1>6. solves(F)
  BY <1>5, Zenon
<1> HIDE DEF F
<1>7. Solves(F, s, N, T)
  BY <1>4, <1>6, Zenon
<1>8. Selects(F, s, T)
  BY <1>2, <1>7, SolutionSelects DEF N
<1>9. Selection(chosen(n, W), s, T)
  BY <1>1, <1>8, Zenon DEF Selection, N
<1>11. T = {i \in 1 .. n : i \in W}
  BY <1>2, <1>10 DEF T
<1>12. QED
  BY <1>9, <1>11, Zenon DEF s

-----------------------------------------------------------------------------
(* A source program grows line by line.                                    *)
LEMMA InstructionsAppend ==
  ASSUME NEW S, NEW s \in Seq(S), NEW x \in S
  PROVE  /\ InstructionsOf(Append(s, x)) =
              IF isInstruction(x) THEN Append(InstructionsOf(s), x) ELSE InstructionsOf(s)
         /\ InstructionsOf(s) \in Seq({s[i] : i \in {j \in 1 .. Len(s) : isInstruction(s[j])}})
<1> DEFINE q == Append(s, x)
           T == {i \in 1 .. Len(s) : isInstruction(s[i])}
           U == {i \in 1 .. Len(q) : isInstruction(q[i])}
<1>1. /\ q \in Seq(S) /\ Len(q) = Len(s) + 1 /\ q[Len(s) + 1] = x /\ Len(s) \in Nat
      /\ \A i \in 1 .. Len(s) : q[i] = s[i]
  BY AppendProperties
<1>2. Selection(InstructionsOf(s), s, T)
  BY InstructionsSelected
<1> HIDE DEF q
<1>3. Selection(InstructionsOf(q), q, U)
  BY <1>1, InstructionsSelected
<1>4. \A i \in 1 .. Len(s) : i \in T <=> i \in U
  BY <1>1
<1>5. Len(s) + 1 \in U <=> isInstruction(x)
  BY <1>1
<1>6. T \cap (1 .. Len(s)) = {j \in 1 .. Len(s) : isInstruction(s[j])}
  OBVIOUS
<1> HIDE DEF T, U
<1>7. InstructionsOf(q) = IF Len(s) + 1 \in U THEN Append(InstructionsOf(s), x)
                                              ELSE InstructionsOf(s)
  BY <1>2, <1>3, <1>4, SelectionAppend DEF q
<1>8. InstructionsOf(s) \in Seq({s[i] : i \in T \cap (1 .. Len(s))})
  BY <1>2, SelectionType
<1>9. QED
  BY <1>5, <1>6, <1>7, <1>8, Zenon DEF q

(* The lines that hold something, of a file that is longer by one line.    *)
LEMMA KeptAppend ==
  ASSUME NEW S, NEW s \in Seq(S), NEW x \in S
  PROVE  /\ kept(Append(s, x)) = IF x # Empty /\ x # Blank THEN Append(kept(s), x) ELSE kept(s)
         /\ kept(s) \in Seq(S)
<1> DEFINE q == Append(s, x)
           T == {i \in 1 .. Len(s) : s[i] # Empty /\ s[i] # Blank}
           U == {i \in 1 .. Len(q) : q[i] # Empty /\ q[i] # Blank}
<1>1. /\ q \in Seq(S) /\ Len(q) = Len(s) + 1 /\ q[Len(s) + 1] = x /\ Len(s) \in Nat
      /\ \A i \in 1 .. Len(s) : q[i] = s[i]
  BY AppendProperties
<1>2. Selection(kept(s), s, T)
  BY LinesKept
<1> HIDE DEF q
<1>3. Selection(kept(q), q, U)
  BY <1>1, LinesKept
<1>4. \A i \in 1 .. Len(s) : i \in T <=> i \in U
  BY <1>1
<1>5. Len(s) + 1 \in U <=> x # Empty /\ x # Blank
  BY <1>1
<1>6. {s[i] : i \in T \cap (1 .. Len(s))} \subseteq S
  OBVIOUS
<1> HIDE DEF T, U
<1>7. kept(q) = IF Len(s) + 1 \in U THEN Append(kept(s), x) ELSE kept(s)
  BY <1>2, <1>3, <1>4, SelectionAppend DEF q
<1>8. kept(s) \in Seq({s[i] : i \in T \cap (1 .. Len(s))})
  BY <1>2, SelectionType
<1>9. kept(s) \in Seq(S)
  BY <1>6, <1>8
<1>10. QED
  BY <1>5, <1>7, <1>9, Zenon DEF q

(* The numbers of the lines, of one line more.                             *)
LEMMA ChosenAppend ==
  ASSUME NEW n \in Nat, NEW W, NEW V, \A i \in 1 .. n : i \in W <=> i \in V
  PROVE  /\ chosen(n + 1, V) = IF n + 1 \in V THEN Append(chosen(n, W), n + 1) ELSE chosen(n, W)
         /\ chosen(n, W) \in Seq(1 .. n)
<1> DEFINE s == [i \in 1 .. n |-> i]
           q == [i \in 1 .. n + 1 |-> i]
           T == {i \in 1 .. n : i \in W}
           U == {i \in 1 .. n + 1 : i \in V}
<1>1. s \in Seq(1 .. n + 1) /\ Len(s) = n /\ n + 1 \in 1 .. n + 1
  OBVIOUS
<1>2. q = Append(s, n + 1)
  OBVIOUS
<1>3. Selection(chosen(n, W), s, T)
  BY LinesChosen
<1>4. Selection(chosen(n + 1, V), q, U)
  BY LinesChosen
<1>5. {s[i] : i \in T \cap (1 .. Len(s))} \subseteq 1 .. n
  OBVIOUS
<1>6. \A i \in 1 .. Len(s) : i \in T <=> i \in U
  BY <1>1
<1>7. Len(s) + 1 \in U <=> n + 1 \in V
  BY <1>1
<1> HIDE DEF s, q, T, U
<1>8. chosen(n + 1, V) = IF Len(s) + 1 \in U THEN Append(chosen(n, W), n + 1) ELSE chosen(n, W)
  BY <1>1, <1>2, <1>3, <1>4, <1>6, SelectionAppend, Zenon
<1>9. chosen(n, W) \in Seq({s[i] : i \in T \cap (1 .. Len(s))})
  <2>1. s \in Seq(1 .. n + 1)
    BY <1>1
  <2>2. QED
    BY <1>3, <2>1, SelectionType
<1>10. chosen(n, W) \in Seq(1 .. n)
  BY <1>5, <1>9
<1>11. QED
  BY <1>7, <1>8, <1>10, Zenon

(* The last definition of a label is unmoved by what is added behind it.   *)
LEMMA LastDefinition ==
  ASSUME NEW S, NEW s \in Seq(S), NEW x \in S, NEW name \in LabelsOf(s)
  PROVE  /\ Max(Defining(s, name)) \in 1 .. Len(s)
         /\ SubSeq(Append(s, x), 1, Max(Defining(s, name))) = SubSeq(s, 1, Max(Defining(s, name)))
<1> DEFINE D == Defining(s, name)
           m == Max(D)
<1>1. Len(s) \in Nat /\ DOMAIN s = 1 .. Len(s)
  BY LenProperties
<1>2. D \subseteq 1 .. Len(s) /\ D \subseteq 0 .. Len(s) /\ D # {}
  BY <1>1 DEF Defining, LabelsOf
<1>3. m \in D
  BY <1>1, <1>2, GreatestElement
<1> HIDE DEF D
<1>4. m \in 1 .. Len(s)
  BY <1>2, <1>3
<1> HIDE DEF m
<1>5. Append(s, x) \in Seq(S) /\ Len(Append(s, x)) = Len(s) + 1
      /\ \A i \in 1 .. Len(s) : Append(s, x)[i] = s[i]
  BY AppendProperties
<1> DEFINE a == SubSeq(Append(s, x), 1, m)
           b == SubSeq(s, 1, m)
<1>6. a \in Seq(S) /\ Len(a) = m /\ \A i \in 1 .. m : a[i] = Append(s, x)[i]
  BY <1>1, <1>4, <1>5
<1>7. b \in Seq(S) /\ Len(b) = m /\ \A i \in 1 .. m : b[i] = s[i]
  BY <1>1, <1>4
<1> HIDE DEF a, b
<1>8. \A i \in 1 .. m : a[i] = b[i]
  BY <1>1, <1>4, <1>5, <1>6, <1>7
<1>9. a = b
  BY <1>6, <1>7, <1>8, SeqEqual
<1>10. QED
  BY <1>4, <1>9 DEF D, m, a, b

(* What is added behind a program defines no label but its own.            *)
LEMMA DefiningAppend ==
  ASSUME NEW S, NEW s \in Seq(S), NEW x \in S
  PROVE  /\ \A name : ~(isLabel(x) /\ labelName(x) = name)
                        => Defining(Append(s, x), name) = Defining(s, name)
         /\ LabelsOf(Append(s, x)) =
              IF isLabel(x) THEN LabelsOf(s) \cup {labelName(x)} ELSE LabelsOf(s)
<1> DEFINE q == Append(s, x)
<1>1. /\ DOMAIN q = 1 .. Len(s) + 1 /\ q[Len(s) + 1] = x /\ Len(s) \in Nat
      /\ DOMAIN s = 1 .. Len(s)
      /\ \A i \in 1 .. Len(s) : q[i] = s[i]
  BY AppendProperties
<1> HIDE DEF q
<1>2. /\ \A i \in DOMAIN q : (i \in DOMAIN s /\ q[i] = s[i]) \/ (i = Len(s) + 1 /\ q[i] = x)
      /\ \A i \in DOMAIN s : i \in DOMAIN q /\ q[i] = s[i]
      /\ Len(s) + 1 \in DOMAIN q
  <2>1. \A i \in 1 .. Len(s) + 1 : i \in 1 .. Len(s) \/ i = Len(s) + 1
    BY <1>1
  <2>2. \A i \in 1 .. Len(s) : i \in 1 .. Len(s) + 1
    BY <1>1
  <2>3. Len(s) + 1 \in 1 .. Len(s) + 1
    BY <1>1
  <2>4. \A i : i \in DOMAIN q <=> i \in 1 .. Len(s) + 1
    BY <1>1, Zenon
  <2>5. \A i : i \in DOMAIN s <=> i \in 1 .. Len(s)
    BY <1>1, Zenon
  <2>6. /\ \A i \in 1 .. Len(s) : q[i] = s[i]
        /\ q[Len(s) + 1] = x
    BY <1>1, Zenon
  <2>7. \A i \in DOMAIN q : (i \in DOMAIN s /\ q[i] = s[i]) \/ (i = Len(s) + 1 /\ q[i] = x)
    <3> TAKE i \in DOMAIN q
    <3>1. i \in 1 .. Len(s) + 1
      BY <2>4, Zenon
    <3>2. CASE i \in 1 .. Len(s)
      BY <2>5, <2>6, <3>2, Zenon
    <3>3. CASE i = Len(s) + 1
      BY <2>6, <3>3, Zenon
    <3>4. QED
      BY <2>1, <3>1, <3>2, <3>3, Zenon
  <2>8. \A i \in DOMAIN s : i \in DOMAIN q /\ q[i] = s[i]
    BY <2>2, <2>4, <2>5, <2>6, Zenon
  <2>9. Len(s) + 1 \in DOMAIN q
    BY <2>3, <2>4, Zenon
  <2>10. QED
    BY <2>7, <2>8, <2>9, Zenon
<1>3. \A name : ~(isLabel(x) /\ labelName(x) = name) => Defining(q, name) = Defining(s, name)
  BY <1>2, Zenon DEF Defining
<1>4. \A name : name \in LabelsOf(q) <=>
                  name \in LabelsOf(s) \/ (isLabel(x) /\ labelName(x) = name)
  <2>1. \A name : name \in LabelsOf(q) <=> \E i \in DOMAIN q : isLabel(q[i]) /\ labelName(q[i]) = name
    BY DEF LabelsOf
  <2>2. \A name : name \in LabelsOf(s) <=> \E i \in DOMAIN s : isLabel(s[i]) /\ labelName(s[i]) = name
    BY DEF LabelsOf
  <2>3. QED
    BY <1>1, <1>2, <2>1, <2>2, Zenon
<1>5. LabelsOf(q) = IF isLabel(x) THEN LabelsOf(s) \cup {labelName(x)} ELSE LabelsOf(s)
  <2>1. CASE isLabel(x)
    <3>1. \A name : name \in LabelsOf(q) <=> name \in LabelsOf(s) \/ name = labelName(x)
      <4> TAKE name
      <4>1. name \in LabelsOf(q) <=> name \in LabelsOf(s) \/ (isLabel(x) /\ labelName(x) = name)
        BY <1>4, Zenon
      <4>2. QED
        BY <2>1, <4>1, Zenon
    <3>2. LabelsOf(q) = LabelsOf(s) \cup {labelName(x)}
      BY <3>1
    <3>3. QED
      BY <2>1, <3>2, Zenon
  <2>2. CASE ~isLabel(x)
    <3>1. \A name : name \in LabelsOf(q) <=> name \in LabelsOf(s)
      <4> TAKE name
      <4>1. name \in LabelsOf(q) <=> name \in LabelsOf(s) \/ (isLabel(x) /\ labelName(x) = name)
        BY <1>4, Zenon
      <4>2. QED
        BY <2>2, <4>1, Zenon
    <3>2. LabelsOf(q) = LabelsOf(s)
      BY <3>1
    <3>3. QED
      BY <2>2, <3>2, Zenon
  <2>3. QED
    BY <2>1, <2>2
<1>6. QED
  BY <1>3, <1>5 DEF q

(* The symbols of a program that is longer by an instruction.              *)
LEMMA SymbolsAppendInstruction ==
  ASSUME NEW S, NEW s \in Seq(S), NEW x \in S, isInstruction(x)
  PROVE  SymbolsOf(Append(s, x)) = SymbolsOf(s)
<1>1. ~isLabel(x)
  BY DEF isInstruction
<1>2. LabelsOf(Append(s, x)) = LabelsOf(s)
      /\ \A name : Defining(Append(s, x), name) = Defining(s, name)
  BY <1>1, DefiningAppend
<1>3. \A name \in LabelsOf(s) :
        SubSeq(Append(s, x), 1, Max(Defining(s, name))) = SubSeq(s, 1, Max(Defining(s, name)))
  BY LastDefinition
<1>4. QED
  BY <1>2, <1>3 DEF SymbolsOf

(* The symbols of a program that is longer by a label.                     *)
LEMMA SymbolsAppendLabel ==
  ASSUME NEW S, NEW s \in Seq(S), NEW x \in S, isLabel(x)
  PROVE  Overrides(SymbolsOf(Append(s, x)), SymbolsOf(s), labelName(x),
                   4 * Len(InstructionsOf(s)))
<1> DEFINE q == Append(s, x)
           name == labelName(x)
           address(p, n) == 4 * Len(InstructionsOf(SubSeq(p, 1, Max(Defining(p, n)))))
<1>1. LabelsOf(q) = LabelsOf(s) \cup {name}
  BY DefiningAppend
<1>2. \A n \in LabelsOf(s) : n # name => address(q, n) = address(s, n)
  <2> TAKE n \in LabelsOf(s)
  <2>1. HAVE n # name
  <2>2. Defining(q, n) = Defining(s, n)
    BY <2>1, DefiningAppend
  <2>3. SubSeq(q, 1, Max(Defining(s, n))) = SubSeq(s, 1, Max(Defining(s, n)))
    BY LastDefinition
  <2>4. QED
    BY <2>2, <2>3
<1>3. address(q, name) = 4 * Len(InstructionsOf(s))
  <2>1. /\ q \in Seq(S) /\ DOMAIN q = 1 .. Len(s) + 1 /\ q[Len(s) + 1] = x
        /\ Len(s) \in Nat /\ Len(q) = Len(s) + 1
    BY AppendProperties
  <2> DEFINE D == Defining(q, name)
  <2>2. Len(s) + 1 \in D /\ D \subseteq Int /\ \A k \in D : k <= Len(s) + 1
    <3> HIDE DEF q
    <3>1. Len(s) + 1 \in DOMAIN q
      BY <2>1
    <3>2. D \subseteq DOMAIN q
      BY DEF Defining
    <3>3. Len(s) + 1 \in D
      BY <2>1, <3>1 DEF Defining
    <3> HIDE DEF D
    <3>4. QED
      BY <2>1, <3>2, <3>3
  <2> HIDE DEF D
  <2>3. Max(D) = Len(q)
    BY <2>1, <2>2, MaxOfInterval
  <2>4. SubSeq(q, 1, Len(q)) = q
    BY <2>1, SubSeqFull
  <2>5. InstructionsOf(q) = InstructionsOf(s)
    BY InstructionsAppend DEF isInstruction
  <2> HIDE DEF q
  <2>6. QED
    BY <2>3, <2>4, <2>5, Zenon DEF D
<1> HIDE DEF q, name, address
<1>4. SymbolsOf(q) = [n \in LabelsOf(s) \cup {name} |-> address(q, n)]
  BY <1>1, Zenon DEF SymbolsOf, address
<1>5. SymbolsOf(s) = [n \in LabelsOf(s) |-> address(s, n)]
  BY Zenon DEF SymbolsOf, address
<1>6. SymbolsOf(q) = [n \in DOMAIN SymbolsOf(s) \cup {name} |->
                        IF n = name THEN 4 * Len(InstructionsOf(s)) ELSE SymbolsOf(s)[n]]
  <2>1. DOMAIN SymbolsOf(s) = LabelsOf(s) /\ \A n \in LabelsOf(s) : SymbolsOf(s)[n] = address(s, n)
    BY <1>5
  <2>2. \A n \in LabelsOf(s) \cup {name} :
          address(q, n) = IF n = name THEN 4 * Len(InstructionsOf(s)) ELSE SymbolsOf(s)[n]
    BY <1>2, <1>3, <2>1, Zenon
  <2>3. QED
    BY <1>4, <2>1, <2>2
<1>7. QED
  BY <1>6, Zenon DEF Overrides, q, name

-----------------------------------------------------------------------------
(* The length of a sequence with one more element.                         *)
LEMMA LenOfAppend ==
  ASSUME NEW S, NEW s \in Seq(S), NEW x \in S
  PROVE  Append(s, x) \in Seq(S) /\ Len(Append(s, x)) = Len(s) + 1
BY AppendProperties

(* There are as many elements in a selection as positions.                 *)
LEMMA SelectionCardinality ==
  ASSUME NEW S, NEW s \in Seq(S), NEW T, T \subseteq 1 .. Len(s), NEW r, Selection(r, s, T)
  PROVE  Cardinality(T) = Len(r)
<1> DEFINE N == Len(s)
           upTo(k) == T \cap (1 .. k)
<1>1. N \in Nat
  BY LenProperties
<1>2. PICK f : Selects(f, s, T) /\ r = f[N]
  BY DEF Selection
<1> DEFINE U == {k \in Nat : /\ f[k] \in Seq(S) /\ IsFiniteSet(upTo(k))
                             /\ Cardinality(upTo(k)) = Len(f[k])}
<1>3. 0 \in U
  <2>1. upTo(0) = {}
    OBVIOUS
  <2>2. f[0] = <<>>
    BY <1>2 DEF Selects
  <2> HIDE DEF upTo
  <2>3. f[0] \in Seq(S) /\ Len(f[0]) = 0
    BY <2>2
  <2>4. IsFiniteSet(upTo(0)) /\ Cardinality(upTo(0)) = 0
    BY <2>1, FS_EmptySet
  <2>5. QED
    BY <2>3, <2>4
<1>4. ASSUME NEW k \in 0 .. N - 1, k \in U PROVE k + 1 \in U
  <2>1. f[k + 1] = IF k + 1 \in T THEN Append(f[k], s[k + 1]) ELSE f[k]
    BY <1>2 DEF Selects
  <2>2. s[k + 1] \in S /\ k + 1 \in Nat /\ k \in Nat
    BY <1>1
  <2>3. upTo(k + 1) = IF k + 1 \in T THEN upTo(k) \cup {k + 1} ELSE upTo(k)
    BY <1>1
  <2>4. k + 1 \notin upTo(k)
    BY <2>2
  <2> HIDE DEF upTo
  <2>5. /\ f[k] \in Seq(S) /\ IsFiniteSet(upTo(k))
        /\ Cardinality(upTo(k)) = Len(f[k])
    BY <1>4
  <2>6. CASE k + 1 \in T
    <3>1. /\ IsFiniteSet(upTo(k + 1))
          /\ Cardinality(upTo(k + 1)) = Cardinality(upTo(k)) + 1
      <4>1. upTo(k + 1) = upTo(k) \cup {k + 1}
        BY <2>3, <2>6
      <4>2. /\ IsFiniteSet(upTo(k) \cup {k + 1})
            /\ Cardinality(upTo(k) \cup {k + 1}) = Cardinality(upTo(k)) + 1
        BY <2>4, <2>5, FS_AddElement, Zenon
      <4>3. QED
        BY <4>1, <4>2, Zenon
    <3>2. f[k + 1] = Append(f[k], s[k + 1])
      BY <2>1, <2>6
    <3>3. f[k + 1] \in Seq(S) /\ Len(f[k + 1]) = Len(f[k]) + 1
      <4>1. f[k] \in Seq(S) /\ s[k + 1] \in S
        BY <2>2, <2>5
      <4>2. /\ Append(f[k], s[k + 1]) \in Seq(S)
            /\ Len(Append(f[k], s[k + 1])) = Len(f[k]) + 1
        BY <4>1, LenOfAppend, Zenon
      <4>3. QED
        BY <3>2, <4>2, Zenon
    <3>4. Cardinality(upTo(k + 1)) = Len(f[k + 1])
      BY <2>5, <3>1, <3>3, Zenon
    <3>5. QED
      BY <2>2, <3>1, <3>3, <3>4
  <2>7. CASE k + 1 \notin T
    <3>1. f[k + 1] = f[k] /\ upTo(k + 1) = upTo(k)
      BY <2>1, <2>3, <2>7
    <3>2. QED
      BY <2>2, <2>5, <3>1
  <2>8. QED
    BY <2>6, <2>7
<1>5. upTo(N) = T
  OBVIOUS
<1> HIDE DEF U, N
<1>6. \A k \in 0 .. N : k \in U
  BY <1>1, <1>3, <1>4, BoundedInduction
<1>7. N \in U
  BY <1>1, <1>6
<1>8. Cardinality(upTo(N)) = Len(f[N])
  BY <1>7, Zenon DEF U
<1>9. QED
  BY <1>2, <1>5, <1>8, Zenon

-----------------------------------------------------------------------------
(* What the assembler has seen of a line, and of a file.                   *)
seen(l) == IF isLabel(l) THEN l ELSE tokenize(l)

SeenLines == {seen(l) : l \in SourceLines}

sourceOf(s) == [i \in DOMAIN kept(s) |-> seen(kept(s)[i])]

(* Source is what it has seen of the lines that have been read.            *)
LEMMA SourceIs ==
  /\ Source = sourceOf(SubSeq(file, 1, position))
  /\ Source' = sourceOf(SubSeq(file', 1, position'))
<1>1. Source = sourceOf(SubSeq(file, 1, position))
  BY DEF Source, sourceOf, kept, seen, Select
<1>2. Source' = sourceOf(SubSeq(file', 1, position'))
  BY DEF Source, sourceOf, kept, seen, Select
<1>3. QED
  BY <1>1, <1>2

(* A label is seen as it is, everything else stays an instruction, and     *)
(* only a blank line is seen as one.                                       *)
LEMMA SeenLine ==
  ASSUME NEW l \in SourceLines
  PROVE  /\ seen(l) \in SeenLines
         /\ isLabel(seen(l)) <=> isLabel(l)
         /\ isLabel(l) => seen(l) = l /\ labelName(l) \in DOMAIN hash /\ l # Blank /\ l # Empty
         /\ ~isLabel(l) => seen(l) = tokenize(l)
         /\ tokenize(l) = Blank <=> l = Blank
         /\ tokenize(l) = Empty <=> l = Empty
<1>1. l = [mnemonic |-> l.mnemonic, args |-> l.args] /\ l.args \in Seq(Range(l.args))
      /\ (isLabel(l) => labelName(l) \in DOMAIN hash)
  BY FilesAssumption DEF Asm
<1> DEFINE n == Min({Len(l.args), MAX_TOKENS_PER_LINE - 1})
           words == [k \in 1 .. n |-> token(l.args[k])]
<1>2. tokenize(l) = [mnemonic |-> l.mnemonic, args |-> words]
  <2>1. \A m, a, b : [[mnemonic |-> m, args |-> a] EXCEPT !.args = b] = [mnemonic |-> m, args |-> b]
    OBVIOUS
  <2>2. tokenize(l) = [l EXCEPT !.args = words]
    BY Zenon DEF tokenize
  <2> HIDE DEF words
  <2>3. QED
    BY <1>1, <2>1, <2>2, Zenon
<1>3. n \in 0 .. Len(l.args) /\ (n = 0 <=> Len(l.args) = 0)
  <2>1. Len(l.args) \in Nat
    BY <1>1, LenProperties
  <2>2. n = IF Len(l.args) <= 7 THEN Len(l.args) ELSE 7
    <3> DEFINE k == Len(l.args)
    <3> HIDE DEF k
    <3>1. Min({k, 7}) = IF k <= 7 THEN k ELSE 7
      <4>1. k \in Nat
        BY <2>1 DEF k
      <4>2. \E x \in {k, 7} : \A y \in {k, 7} : x <= y
        BY <4>1
      <4>3. Min({k, 7}) \in {k, 7} /\ \A y \in {k, 7} : Min({k, 7}) <= y
        BY <4>2 DEF Min
      <4>4. QED
        BY <4>1, <4>3
    <3>2. QED
      BY <3>1 DEF k, MAX_TOKENS_PER_LINE
  <2>3. QED
    BY <2>1, <2>2
<1>4. ASSUME NEW mn
      PROVE  tokenize(l) = Asm(mn, <<>>) <=> l = Asm(mn, <<>>)
  <2>1. words = <<>> <=> n = 0
    <3>1. DOMAIN words = 1 .. n
      OBVIOUS
    <3>2. ASSUME n = 0 PROVE words = <<>>
      BY <3>2
    <3>3. ASSUME words = <<>> PROVE n = 0
      <4>1. 1 .. n = {}
        <5>1. DOMAIN <<>> = {}
          OBVIOUS
        <5>2. QED
          BY <3>1, <3>3, <5>1, Zenon
      <4> HIDE DEF n
      <4>2. QED
        BY <1>3, <4>1, LenProperties
    <3>4. QED
      BY <3>2, <3>3, Zenon
  <2>2. l.args = <<>> <=> Len(l.args) = 0
    BY <1>1
  <2> HIDE DEF words, n
  <2>3. \A m, a : [mnemonic |-> m, args |-> a] = Asm(mn, <<>>) <=> m = mn /\ a = <<>>
    BY DEF Asm
  <2>4. tokenize(l) = Asm(mn, <<>>) <=> l.mnemonic = mn /\ words = <<>>
    BY <1>2, <2>3, Zenon
  <2>5. l = Asm(mn, <<>>) <=> l.mnemonic = mn /\ l.args = <<>>
    <3> DEFINE m == l.mnemonic
               a == l.args
    <3>1. l = [mnemonic |-> m, args |-> a]
      BY <1>1
    <3> HIDE DEF m, a
    <3>2. l = Asm(mn, <<>>) <=> m = mn /\ a = <<>>
      BY <2>3, <3>1, Zenon
    <3>3. QED
      BY <3>2 DEF m, a
  <2>6. (n = 0) <=> (Len(l.args) = 0)
    BY <1>3, Zenon
  <2>7. QED
    BY <2>1, <2>2, <2>4, <2>5, <2>6, Zenon
<1>5. isLabel(seen(l)) <=> isLabel(l)
  BY <1>2 DEF seen, isLabel
<1>6. isLabel(l) => l # Blank /\ l # Empty
  <2>1. Blank.mnemonic = " " /\ Empty.mnemonic = ""
    BY DEF Blank, Empty, Asm
  <2>2. "label" # " " /\ "label" # ""
    OBVIOUS
  <2>3. QED
    BY <2>1, <2>2, Zenon DEF isLabel
<1>7. /\ isLabel(l) => seen(l) = l
      /\ ~isLabel(l) => seen(l) = tokenize(l)
  BY Zenon DEF seen
<1>8. seen(l) \in SeenLines
  BY DEF SeenLines
<1>9. (tokenize(l) = Blank <=> l = Blank) /\ (tokenize(l) = Empty <=> l = Empty)
  BY <1>4, Zenon DEF Blank, Empty
<1>10. QED
  BY <1>1, <1>5, <1>6, <1>7, <1>8, <1>9, Zenon

(* The source grows by a line, unless there is nothing on it.              *)
LEMMA SourceAppend ==
  ASSUME NEW s \in Seq(SourceLines), NEW x \in SourceLines
  PROVE  /\ sourceOf(s) \in Seq(SeenLines)
         /\ sourceOf(Append(s, x)) =
              IF x # Empty /\ x # Blank THEN Append(sourceOf(s), seen(x)) ELSE sourceOf(s)
<1>1. /\ kept(Append(s, x)) = IF x # Empty /\ x # Blank THEN Append(kept(s), x) ELSE kept(s)
      /\ kept(s) \in Seq(SourceLines)
  BY KeptAppend
<1> DEFINE k == kept(s)
<1>2. \A q \in Seq(SourceLines) : [i \in DOMAIN q |-> seen(q[i])] \in Seq(SeenLines)
  BY DEF SeenLines
<1>3. sourceOf(s) \in Seq(SeenLines)
  BY <1>1, <1>2 DEF sourceOf
<1>4. [i \in DOMAIN Append(k, x) |-> seen(Append(k, x)[i])]
        = Append([i \in DOMAIN k |-> seen(k[i])], seen(x))
  <2>1. k \in Seq(SourceLines) /\ seen(x) \in SeenLines
    BY <1>1 DEF SeenLines
  <2> HIDE DEF k
  <2>2. QED
    BY <2>1
<1>5. CASE x # Empty /\ x # Blank
  <2>1. kept(Append(s, x)) = Append(k, x)
    BY <1>1, <1>5, Zenon
  <2>2. sourceOf(Append(s, x)) = Append(sourceOf(s), seen(x))
    BY <1>4, <2>1, Zenon DEF sourceOf
  <2>3. QED
    BY <1>3, <1>5, <2>2, Zenon
<1>6. CASE ~(x # Empty /\ x # Blank)
  <2>1. kept(Append(s, x)) = kept(s)
    BY <1>1, <1>6, Zenon
  <2>2. QED
    BY <1>3, <1>6, <2>1, Zenon DEF sourceOf
<1>7. QED
  BY <1>5, <1>6

-----------------------------------------------------------------------------
(* The first invariant: the lines kept for the second pass are the         *)
(* instructions of the source that has been read, and blank lines.         *)
KeptAreInstructions ==
  /\ tokenisedLines \in Seq(SeenLines)
  /\ \A i \in 1 .. numLines : tokenisedLines[i] # Empty
  /\ InstructionsOf(Source) = kept(tokenisedLines)

FInv ==
  /\ file \in Files \cup Revisions
  /\ position \in 0 .. Len(file)
  /\ KeptAreInstructions
  /\ numLines <= MAX_LINES
  /\ next \in 0 .. numLines
  /\ phase \in {"second", "done"} => position = Len(file) \/ numLines = MAX_LINES
  /\ phase = "done" => next = numLines

(* The second invariant, of files in which blank lines trail.  The symbol  *)
(* table represents the labels that have been read; the global address is  *)
(* that of the next line while they are being entered; a line that is not  *)
(* blank is in its slot the instruction of that number, for there is no    *)
(* blank line before it; and the output holds the words of the lines the   *)
(* second pass has been through.                                           *)
SymbolsEntered ==
  /\ Healthy(symbolTable, Nat)
  /\ contents(symbolTable) = SymbolsOf(Source)
  /\ phase \in {"start", "cleared", "first"} => currentAddress = 4 * numLines /\ next = 0

SlotsAreNumbers ==
  /\ \A i \in 1 .. numLines : tokenisedLines[i] # Blank =>
       i \in DOMAIN InstructionsOf(Source) /\ InstructionsOf(Source)[i] = tokenisedLines[i]
  /\ (\A p \in 1 .. position : file[p] # Blank) => Len(InstructionsOf(Source)) = numLines

PInv ==
  /\ FInv
  /\ SymbolsEntered
  /\ SlotsAreNumbers
  /\ lost \subseteq 1 .. next
  /\ OutputIsPrefix

-----------------------------------------------------------------------------
(* Nothing has been read of a file at its start.                           *)
LEMMA EmptySource ==
  /\ sourceOf(<<>>) = <<>> /\ InstructionsOf(<<>>) = <<>> /\ kept(<<>>) = <<>>
  /\ SymbolsOf(<<>>) = [name \in {} |-> 0]
<1>1. <<>> \in Seq(Int) /\ Len(<<>>) = 0
  OBVIOUS
<1>2. InstructionsOf(<<>>) = <<>>
  BY <1>1, InstructionsSelected, SelectionEmpty, Zenon
<1>3. kept(<<>>) = <<>>
  BY <1>1, LinesKept, SelectionEmpty, Zenon
<1>4. sourceOf(<<>>) = <<>>
  BY <1>3 DEF sourceOf
<1>5. LabelsOf(<<>>) = {}
  BY DEF LabelsOf
<1>6. SymbolsOf(<<>>) = [name \in {} |-> 0]
  BY <1>5 DEF SymbolsOf
<1>7. QED
  BY <1>2, <1>3, <1>4, <1>6

(* Reading a line.                                                         *)
LEMMA LineRead ==
  ASSUME file \in Files \cup Revisions, position \in 0 .. Len(file)
  PROVE  /\ file \in Seq(SourceLines) /\ Source \in Seq(SeenLines)
         /\ position < Len(file) => line \in SourceLines
         /\ position < Len(file) /\ file' = file /\ position' = position + 1 =>
              Source' = IF line # Empty /\ line # Blank THEN Append(Source, seen(line))
                        ELSE Source
<1>1. file \in Seq(SourceLines)
  BY FilesAssumption
<1> DEFINE s == SubSeq(file, 1, position)
<1>2. s \in Seq(SourceLines)
  BY <1>1
<1>3. CASE position < Len(file)
  <2>1. file[position + 1] \in SourceLines
    BY <1>1, <1>3
  <2>2. SubSeq(file, 1, position + 1) = Append(s, file[position + 1])
    BY <1>1, <1>3
  <2> HIDE DEF s
  <2>3. sourceOf(s) \in Seq(SeenLines)
        /\ sourceOf(Append(s, line)) =
             IF line # Empty /\ line # Blank THEN Append(sourceOf(s), seen(line)) ELSE sourceOf(s)
    BY <1>2, <2>1, SourceAppend DEF line
  <2>4. Source = sourceOf(s)
    BY SourceIs DEF s
  <2>5. ASSUME file' = file, position' = position + 1 PROVE Source' = sourceOf(Append(s, line))
    BY <2>2, <2>5, SourceIs, Zenon DEF line
  <2>6. QED
    BY <1>1, <2>1, <2>3, <2>4, <2>5, Zenon DEF line
<1>4. CASE ~(position < Len(file))
  <2>1. CASE SourceLines = {}
    <3>1. file = <<>>
      BY <1>1, <2>1
    <3>2. s = <<>>
      BY <3>1
    <3>3. Source = <<>>
      BY <3>2, SourceIs, EmptySource, Zenon
    <3>4. QED
      BY <1>1, <1>4, <3>3
  <2>2. CASE SourceLines # {}
    <3>1. PICK x \in SourceLines : TRUE
      BY <2>2
    <3> HIDE DEF s
    <3>2. sourceOf(s) \in Seq(SeenLines)
      BY <1>2, SourceAppend
    <3>3. Source = sourceOf(s)
      BY SourceIs DEF s
    <3>4. QED
      BY <1>1, <1>4, <3>2, <3>3, Zenon
  <2>3. QED
    BY <2>1, <2>2
<1>5. QED
  BY <1>3, <1>4

(* A source that is not read on stays what it is.                          *)
LEMMA SourceStays ==
  ASSUME file' = file, position' = position
  PROVE  Source' = Source
BY SourceIs, Zenon

(* At the start of a run nothing has been read and kept.                   *)
LEMMA KeptAtStart ==
  ASSUME position = 0, tokenisedLines = <<>>
  PROVE  KeptAreInstructions /\ Source = <<>>
<1>1. SubSeq(file, 1, 0) = <<>>
  OBVIOUS
<1>2. Source = <<>>
  BY <1>1, SourceIs, EmptySource, Zenon
<1>3. InstructionsOf(Source) = kept(tokenisedLines)
  BY <1>2, EmptySource, Zenon
<1>4. tokenisedLines \in Seq(SeenLines) /\ \A i \in 1 .. numLines : tokenisedLines[i] # Empty
  BY DEF numLines
<1>5. QED
  BY <1>2, <1>3, <1>4 DEF KeptAreInstructions

(* The lines kept stay the instructions of the source, whatever line is    *)
(* read.                                                                   *)
LEMMA KeptNext ==
  ASSUME FInv, AssemblerStep
  PROVE  KeptAreInstructions'
<1>1. /\ file \in Files \cup Revisions /\ position \in 0 .. Len(file) /\ KeptAreInstructions
  BY DEF FInv
<1>2. /\ tokenisedLines \in Seq(SeenLines) /\ InstructionsOf(Source) = kept(tokenisedLines)
      /\ \A i \in 1 .. numLines : tokenisedLines[i] # Empty
  BY <1>1 DEF KeptAreInstructions
<1>3. CASE UNCHANGED <<file, position, tokenisedLines>>
  <2>1. Source' = Source
    BY <1>3, SourceStays
  <2>2. QED
    BY <1>1, <1>3, <2>1 DEF KeptAreInstructions, numLines
<1>4. CASE SkipEmptyLine
  <2>1. Source' = Source
    BY <1>1, <1>4, LineRead DEF SkipEmptyLine, Reading
  <2>2. tokenisedLines' = tokenisedLines
    BY <1>4 DEF SkipEmptyLine
  <2>3. QED
    BY <1>2, <2>1, <2>2, Zenon DEF KeptAreInstructions, numLines
<1>5. CASE EnterLabel
  <2>1. line \in SourceLines /\ isLabel(line) /\ tokenisedLines' = tokenisedLines
    BY <1>1, <1>5, LineRead DEF EnterLabel, Reading
  <2>2. /\ seen(line) \in SeenLines /\ seen(line) = line
        /\ line # Blank /\ line # Empty
    BY <2>1, SeenLine
  <2>3. Source \in Seq(SeenLines) /\ Source' = Append(Source, line)
    BY <1>1, <1>5, <2>2, LineRead DEF EnterLabel, Reading
  <2>4. InstructionsOf(Source') = InstructionsOf(Source)
    BY <2>1, <2>2, <2>3, InstructionsAppend, Zenon DEF isInstruction
  <2>5. QED
    BY <1>2, <2>1, <2>4, Zenon DEF KeptAreInstructions, numLines
<1>6. CASE Tokenize
  <2>1. /\ line \in SourceLines /\ ~isLabel(line) /\ line # Empty
        /\ tokenisedLines' = Append(tokenisedLines, tokenize(line))
    BY <1>1, <1>6, LineRead DEF Tokenize, Reading
  <2> DEFINE x == tokenize(line)
  <2>2. /\ x \in SeenLines /\ ~isLabel(x) /\ seen(line) = x
        /\ x = Blank <=> line = Blank
        /\ x # Empty
    BY <2>1, SeenLine, Zenon
  <2> HIDE DEF x
  <2>3. tokenisedLines' = Append(tokenisedLines, x)
    BY <2>1 DEF x
  <2>4. tokenisedLines' \in Seq(SeenLines) /\ \A i \in 1 .. numLines' : tokenisedLines'[i] # Empty
    <3>1. /\ Append(tokenisedLines, x) \in Seq(SeenLines)
          /\ \A i \in 1 .. Len(Append(tokenisedLines, x)) : Append(tokenisedLines, x)[i] # Empty
      BY <1>2, <2>2 DEF numLines
    <3>2. QED
      BY <2>3, <3>1, Zenon DEF numLines
  <2>5. Source \in Seq(SeenLines)
        /\ Source' = IF line # Blank THEN Append(Source, x) ELSE Source
    BY <1>1, <1>6, <2>1, <2>2, LineRead DEF Tokenize, Reading
  <2>6. kept(tokenisedLines') = IF line # Blank THEN Append(kept(tokenisedLines), x)
                                ELSE kept(tokenisedLines)
    BY <1>2, <2>2, <2>3, KeptAppend, Zenon
  <2>7. InstructionsOf(Source') = IF line # Blank THEN Append(InstructionsOf(Source), x)
                                  ELSE InstructionsOf(Source)
    BY <2>2, <2>5, InstructionsAppend, Zenon DEF isInstruction
  <2>8. InstructionsOf(Source') = kept(tokenisedLines')
    <3>1. CASE line = Blank
      BY <1>2, <2>6, <2>7, <3>1, Zenon
    <3>2. CASE line # Blank
      BY <1>2, <2>6, <2>7, <3>2, Zenon
    <3>3. QED
      BY <3>1, <3>2, Zenon
  <2>9. QED
    BY <2>4, <2>8, Zenon DEF KeptAreInstructions
<1>7. QED
  BY <1>3, <1>4, <1>5, <1>6
  DEF AssemblerStep, ClearOutput, CannotClear, OpenInput, EndFirstPass, SkipBlankLine,
      Encode, LoseWord, Reject, Finish, Advancing

(* The invariant holds before anything is read.                            *)
LEMMA FInvInit == FileInit => FInv
<1> SUFFICES ASSUME FileInit PROVE FInv
  OBVIOUS
<1>1. /\ file \in Files /\ phase = "start" /\ position = 0 /\ tokenisedLines = <<>> /\ next = 0
  BY DEF FileInit
<1>2. file \in Seq(SourceLines)
  BY <1>1, FilesAssumption
<1>3. KeptAreInstructions
  BY <1>1, KeptAtStart
<1>4. position \in 0 .. Len(file) /\ numLines <= MAX_LINES /\ next \in 0 .. numLines
  <2>1. Len(file) \in Nat
    BY <1>2, LenProperties
  <2>2. numLines = 0
    BY <1>1 DEF numLines
  <2>3. QED
    BY <1>1, <2>1, <2>2, LinesAssumption
<1>5. QED
  BY <1>1, <1>3, <1>4 DEF FInv

(* A new run starts as the first one.                                      *)
LEMMA FInvAgain ==
  ASSUME FInv, RunAgain
  PROVE  FInv'
<1>1. /\ file' \in Files \cup Revisions /\ phase' = "start" /\ position' = 0
      /\ tokenisedLines' = <<>> /\ next' = 0
  BY DEF RunAgain, FInv
<1>2. file' \in Seq(SourceLines)
  BY <1>1, FilesAssumption
<1>3. Source' = <<>>
  <2>1. SubSeq(file', 1, 0) = <<>>
    OBVIOUS
  <2>2. QED
    BY <1>1, <2>1, SourceIs, EmptySource, Zenon
<1>4. KeptAreInstructions'
  <2>1. InstructionsOf(Source') = kept(tokenisedLines')
    BY <1>1, <1>3, EmptySource, Zenon
  <2>2. tokenisedLines' \in Seq(SeenLines) /\ \A i \in 1 .. numLines' : tokenisedLines'[i] # Empty
    BY <1>1 DEF numLines
  <2>3. QED
    BY <2>1, <2>2, Zenon DEF KeptAreInstructions
<1>5. (position \in 0 .. Len(file) /\ numLines <= MAX_LINES /\ next \in 0 .. numLines)'
  <2>1. Len(file') \in Nat
    BY <1>2, LenProperties
  <2>2. numLines' = 0
    BY <1>1 DEF numLines
  <2>3. QED
    BY <1>1, <2>1, <2>2, LinesAssumption
<1>6. QED
  BY <1>1, <1>4, <1>5 DEF FInv

(* Every step of the assembler keeps the invariant.                        *)
LEMMA FInvNext == FInv /\ [FileNext]_fileVars => FInv'
<1> SUFFICES ASSUME FInv, [FileNext]_fileVars PROVE FInv'
  OBVIOUS
<1>1. /\ file \in Files \cup Revisions /\ position \in 0 .. Len(file)
      /\ tokenisedLines \in Seq(SeenLines) /\ numLines <= MAX_LINES /\ next \in 0 .. numLines
      /\ phase \in {"second", "done"} => position = Len(file) \/ numLines = MAX_LINES
      /\ phase = "done" => next = numLines
  BY DEF FInv, KeptAreInstructions
<1>2. Len(file) \in Nat /\ numLines \in Nat /\ MAX_LINES \in Nat
  <2>1. file \in Seq(SourceLines)
    BY <1>1, FilesAssumption
  <2>2. QED
    BY <1>1, <2>1, LenProperties, LinesAssumption DEF numLines
<1>3. CASE UNCHANGED fileVars
  <2>1. UNCHANGED <<file, phase, position, tokenisedLines, next>>
    BY <1>3 DEF fileVars
  <2>2. Source' = Source
    BY <2>1, SourceStays
  <2>3. QED
    BY <2>1, <2>2 DEF FInv, KeptAreInstructions, numLines
<1>4. CASE RunAgain
  BY <1>4, FInvAgain
<1>5. CASE AssemblerStep
  <2>1. KeptAreInstructions'
    BY <1>5, KeptNext
  <2>2. file' = file
    BY <1>5 DEF AssemblerStep, ClearOutput, CannotClear, OpenInput, SkipEmptyLine, EnterLabel,
      Tokenize, EndFirstPass, SkipBlankLine, Encode, LoseWord, Reject, Finish, Advancing
  <2>3. CASE /\ UNCHANGED <<position, tokenisedLines, next>>
             /\ phase' \notin {"second", "done"}
    BY <1>1, <1>2, <2>1, <2>2, <2>3 DEF FInv, numLines
  <2>4. CASE SkipEmptyLine \/ EnterLabel
    <3>1. /\ phase = "first" /\ position < Len(file) /\ position' = position + 1
          /\ UNCHANGED <<phase, tokenisedLines, next>>
      BY <2>4 DEF SkipEmptyLine, EnterLabel, Reading
    <3>2. position' \in 0 .. Len(file)
      BY <1>1, <1>2, <3>1
    <3>3. QED
      BY <1>1, <2>1, <2>2, <3>1, <3>2 DEF FInv, numLines
  <2>5. CASE Tokenize
    <3>1. /\ phase = "first" /\ position < Len(file) /\ position' = position + 1
          /\ numLines < MAX_LINES /\ UNCHANGED <<phase, next>>
          /\ tokenisedLines' = Append(tokenisedLines, tokenize(line))
      BY <2>5 DEF Tokenize, Reading
    <3>2. position' \in 0 .. Len(file)
      BY <1>1, <1>2, <3>1
    <3>3. numLines' = numLines + 1
      BY <1>1, <3>1 DEF numLines
    <3>4. numLines' <= MAX_LINES /\ next' \in 0 .. numLines'
      BY <1>1, <1>2, <3>1, <3>3
    <3>5. QED
      BY <1>1, <2>1, <2>2, <3>1, <3>2, <3>4 DEF FInv
  <2>6. CASE EndFirstPass
    <3>1. /\ UNCHANGED <<position, tokenisedLines, next>> /\ phase' = "second"
          /\ position = Len(file) \/ numLines = MAX_LINES
      BY <1>1, <1>2, <2>6 DEF EndFirstPass, Reading
    <3>2. QED
      BY <1>1, <2>1, <2>2, <3>1 DEF FInv, numLines
  <2>7. CASE SkipBlankLine \/ Encode \/ LoseWord
    <3>1. /\ UNCHANGED <<position, tokenisedLines, phase>> /\ phase = "second"
          /\ next < numLines /\ next' = next + 1
      BY <2>7 DEF SkipBlankLine, Encode, LoseWord, Encodable, Encoding, Advancing
    <3>2. next' \in 0 .. numLines
      BY <1>1, <1>2, <3>1
    <3>3. QED
      BY <1>1, <2>1, <2>2, <3>1, <3>2 DEF FInv, numLines
  <2>8. CASE Finish
    <3>1. /\ UNCHANGED <<position, tokenisedLines, next>> /\ phase = "second" /\ phase' = "done"
          /\ ~(next < numLines)
      BY <2>8 DEF Finish, Encoding
    <3>2. next = numLines
      BY <1>1, <1>2, <3>1
    <3>3. QED
      BY <1>1, <2>1, <2>2, <3>1, <3>2 DEF FInv, numLines
  <2>9. QED
    BY <1>5, <2>3, <2>4, <2>5, <2>6, <2>7, <2>8
    DEF AssemblerStep, ClearOutput, CannotClear, OpenInput, Reject
<1>6. CASE Kill
  <2>1. UNCHANGED <<file, position, tokenisedLines, next>> /\ phase' \in {"untouched", "killed"}
    BY <1>6 DEF Kill
  <2>2. Source' = Source
    BY <2>1, SourceStays
  <2>3. QED
    BY <2>1, <2>2 DEF FInv, KeptAreInstructions, numLines
<1>7. QED
  BY <1>3, <1>4, <1>5, <1>6 DEF FileNext

(* An assembler that has got to its end has been through as many lines     *)
(* that are not blank as the source has instructions.                      *)
LEMMA FInvComplete == FInv => DoneIsComplete
<1> SUFFICES ASSUME FInv, phase = "done"
             PROVE  /\ Cardinality(encodedLines) = Len(InstructionsOf(Source))
                    /\ position = Len(file) \/ numLines = MAX_LINES
  BY DEF DoneIsComplete
<1>1. /\ tokenisedLines \in Seq(SeenLines) /\ next = numLines
      /\ \A i \in 1 .. numLines : tokenisedLines[i] # Empty
      /\ InstructionsOf(Source) = kept(tokenisedLines)
      /\ position = Len(file) \/ numLines = MAX_LINES
  BY DEF FInv, KeptAreInstructions
<1> DEFINE T == {i \in 1 .. Len(tokenisedLines) :
                   tokenisedLines[i] # Empty /\ tokenisedLines[i] # Blank}
<1>2. Selection(kept(tokenisedLines), tokenisedLines, T)
  BY <1>1, LinesKept
<1>3. T \subseteq 1 .. Len(tokenisedLines)
  OBVIOUS
<1>4. encodedLines = T
  BY <1>1 DEF encodedLines, numLines
<1> HIDE DEF T
<1>5. Cardinality(T) = Len(kept(tokenisedLines))
  BY <1>1, <1>2, <1>3, SelectionCardinality
<1>6. QED
  BY <1>1, <1>4, <1>5, Zenon

(* Whatever the source file, an assembler that gets to its end has been    *)
(* through the whole program, and has read the whole file unless it ran    *)
(* out of room for lines.                                                  *)
THEOREM NothingLeftOut == FileSpec => []DoneIsComplete
<1>1. FInv /\ [FileNext]_fileVars => FInv'
  BY FInvNext
<1>2. QED
  BY <1>1, FInvInit, FInvComplete, PTL DEF FileSpec

-----------------------------------------------------------------------------
(* The lines written so far, as a selection.                               *)
LEMMA WrittenIs ==
  /\ written = chosen(next, encodedLines \ lost)
  /\ written' = chosen(next', encodedLines' \ lost')
BY DEF written, chosen, Select

(* The words of the lines written.                                         *)
words == [k \in DOMAIN written |-> AssembledWord(Source, written[k])]

(* Nothing is written before the second pass.                              *)
LEMMA NothingWritten == next = 0 => words = <<>>
<1> SUFFICES ASSUME next = 0 PROVE words = <<>>
  OBVIOUS
<1>1. written = <<>>
  <2>1. written = chosen(0, encodedLines \ lost)
    BY WrittenIs
  <2> DEFINE none == [i \in 1 .. 0 |-> i]
  <2>2. Selection(chosen(0, encodedLines \ lost), none, {i \in 1 .. 0 : i \in encodedLines \ lost})
    BY LinesChosen
  <2>3. Len(none) = 0
    OBVIOUS
  <2> HIDE DEF none
  <2>4. chosen(0, encodedLines \ lost) = <<>>
    BY <2>2, <2>3, SelectionEmpty, Zenon
  <2>5. QED
    BY <2>1, <2>4
<1>2. QED
  BY <1>1 DEF words

(* The state of the two passes at the start of a run.                      *)
Started ==
  /\ phase = "start" /\ position = 0 /\ tokenisedLines = <<>> /\ next = 0
  /\ currentAddress = 0 /\ symbolTable = create_hash_table(1) /\ lost = {}

(* At the start of a run the invariant holds, whatever the output holds.   *)
LEMMA InvariantAtStart ==
  Started => SymbolsEntered /\ SlotsAreNumbers /\ lost \subseteq 1 .. next /\ OutputIsPrefix
<1> SUFFICES ASSUME Started
             PROVE  SymbolsEntered /\ SlotsAreNumbers /\ lost \subseteq 1 .. next /\ OutputIsPrefix
  OBVIOUS
<1>1. Source = <<>> /\ InstructionsOf(Source) = <<>> /\ SymbolsOf(Source) = [name \in {} |-> 0]
  <2>1. Source = <<>>
    BY KeptAtStart DEF Started
  <2>2. QED
    BY <2>1, EmptySource, Zenon
<1>2. numLines = 0
  BY DEF Started, numLines
<1>3. /\ Sound(symbolTable, Nat) /\ symbolTable.size = 1 /\ symbolTable.count = 0
      /\ Len(allNodes(symbolTable)) = 0
      /\ \A key \in DOMAIN hash : ~isPresent(symbolTable, key)
  BY CreateSound DEF Started
<1>4. Healthy(symbolTable, Nat)
  BY <1>3 DEF Healthy, Counted, isCrowded
<1>5. contents(symbolTable) = [name \in {} |-> 0]
  <2>1. keysOf(symbolTable) = {}
    BY <1>3 DEF keysOf
  <2>2. QED
    BY <2>1 DEF contents
<1>6. SymbolsEntered
  <2>1. currentAddress = 4 * numLines /\ next = 0
    BY <1>2 DEF Started
  <2>2. QED
    BY <1>1, <1>4, <1>5, <2>1, Zenon DEF SymbolsEntered
<1>7. SlotsAreNumbers
  <2>1. Len(InstructionsOf(Source)) = numLines
    BY <1>1, <1>2
  <2>2. \A i \in 1 .. numLines : FALSE
    BY <1>2
  <2>3. QED
    BY <2>1, <2>2, Zenon DEF SlotsAreNumbers
<1>8. lost \subseteq 1 .. next /\ OutputIsPrefix
  BY DEF Started, OutputIsPrefix
<1>9. QED
  BY <1>6, <1>7, <1>8

(* Before a line with something on it there is no blank line.              *)
LEMMA NoBlankBefore ==
  ASSUME BlanksTrail(Files \cup Revisions), file \in Files \cup Revisions,
         position \in 0 .. Len(file), position < Len(file), line # Blank, line # Empty
  PROVE  \A p \in 1 .. position : file[p] # Blank
<1>1. file \in Seq(SourceLines)
  BY FilesAssumption
<1>2. /\ DOMAIN file = 1 .. Len(file) /\ Len(file) \in Nat
  BY <1>1
<1>3. \A p \in 1 .. position : p \in DOMAIN file /\ position + 1 \in DOMAIN file /\ p < position + 1
  BY <1>2
<1>4. \A i, j \in DOMAIN file : i < j /\ file[i] = Blank => file[j] \in {Blank, Empty}
  BY Zenon DEF BlanksTrail
<1>5. file[position + 1] \notin {Blank, Empty}
  BY Zenon DEF line
<1>6. QED
  BY <1>3, <1>4, <1>5, Zenon

(* What a line of the first pass adds to the source, and to what is made   *)
(* of it.                                                                  *)
LEMMA InstructionRead ==
  ASSUME FInv, Tokenize
  PROVE  /\ line = Blank => Source' = Source /\ tokenize(line) = Blank
         /\ line # Blank =>
              /\ Source' = Append(Source, tokenize(line))
              /\ SymbolsOf(Source') = SymbolsOf(Source)
              /\ InstructionsOf(Source') = Append(InstructionsOf(Source), tokenize(line))
         /\ tokenize(line) \in SeenLines
         /\ InstructionsOf(Source) \in Seq(SeenLines)
<1>1. /\ file \in Files \cup Revisions /\ position \in 0 .. Len(file)
      /\ tokenisedLines \in Seq(SeenLines) /\ InstructionsOf(Source) = kept(tokenisedLines)
  BY DEF FInv, KeptAreInstructions
<1>2. line \in SourceLines /\ ~isLabel(line) /\ line # Empty
  BY <1>1, LineRead DEF Tokenize, Reading
<1> DEFINE x == tokenize(line)
<1>3. /\ x \in SeenLines /\ ~isLabel(x) /\ seen(line) = x
      /\ x = Blank <=> line = Blank
  BY <1>2, SeenLine, Zenon
<1> HIDE DEF x
<1>4. Source \in Seq(SeenLines)
      /\ Source' = IF line # Blank THEN Append(Source, x) ELSE Source
  BY <1>1, <1>2, <1>3, LineRead DEF Tokenize, Reading
<1>5. InstructionsOf(Source) \in Seq(SeenLines)
  <2>1. kept(tokenisedLines) \in Seq(SeenLines)
    BY <1>1, <1>3, KeptAppend, Zenon
  <2>2. QED
    BY <1>1, <2>1, Zenon
<1>6. ASSUME line # Blank
      PROVE  /\ Source' = Append(Source, x)
             /\ SymbolsOf(Source') = SymbolsOf(Source)
             /\ InstructionsOf(Source') = Append(InstructionsOf(Source), x)
  <2>1. Source' = Append(Source, x)
    BY <1>4, <1>6, Zenon
  <2>2. isInstruction(x)
    BY <1>3, Zenon DEF isInstruction
  <2>3. SymbolsOf(Append(Source, x)) = SymbolsOf(Source)
    BY <1>3, <1>4, <2>2, SymbolsAppendInstruction, Zenon
  <2>4. InstructionsOf(Append(Source, x)) = Append(InstructionsOf(Source), x)
    BY <1>3, <1>4, <2>2, InstructionsAppend, Zenon
  <2>5. QED
    BY <2>1, <2>3, <2>4, Zenon
<1>7. QED
  BY <1>3, <1>4, <1>5, <1>6, Zenon DEF x

(* A label adds itself to the symbols, with the address of the next line.  *)
LEMMA LabelRead ==
  ASSUME FInv, EnterLabel
  PROVE  /\ line # Blank /\ line # Empty /\ labelName(line) \in DOMAIN hash
         /\ InstructionsOf(Source') = InstructionsOf(Source)
         /\ Overrides(SymbolsOf(Source'), SymbolsOf(Source), labelName(line),
                      4 * Len(InstructionsOf(Source)))
<1>1. file \in Files \cup Revisions /\ position \in 0 .. Len(file)
  BY DEF FInv
<1>2. line \in SourceLines /\ isLabel(line)
  BY <1>1, LineRead DEF EnterLabel, Reading
<1>3. /\ seen(line) \in SeenLines /\ seen(line) = line
      /\ line # Blank /\ line # Empty /\ labelName(line) \in DOMAIN hash
  BY <1>2, SeenLine
<1>4. Source \in Seq(SeenLines) /\ Source' = Append(Source, line)
  BY <1>1, <1>3, LineRead DEF EnterLabel, Reading
<1>5. InstructionsOf(Append(Source, line)) = InstructionsOf(Source)
  BY <1>2, <1>3, <1>4, InstructionsAppend, Zenon DEF isInstruction
<1>6. Overrides(SymbolsOf(Append(Source, line)), SymbolsOf(Source), labelName(line),
                4 * Len(InstructionsOf(Source)))
  BY <1>2, <1>3, <1>4, SymbolsAppendLabel, Zenon
<1>7. QED
  BY <1>3, <1>4, <1>5, <1>6, Zenon

-----------------------------------------------------------------------------
(* The first pass reads; every other step leaves the source alone.         *)
FirstPass == SkipEmptyLine \/ EnterLabel \/ Tokenize

(* What a step that reads nothing leaves unchanged.                        *)
LEMMA NotReading ==
  ASSUME AssemblerStep \/ Kill \/ UNCHANGED fileVars, ~FirstPass
  PROVE  /\ UNCHANGED <<file, position, tokenisedLines, symbolTable>>
         /\ Source' = Source
         /\ phase' \in {"start", "cleared", "first"} =>
              /\ phase \in {"start", "cleared", "first"}
              /\ UNCHANGED <<currentAddress, next>>
<1>1. UNCHANGED <<file, position, tokenisedLines, symbolTable>>
  BY DEF FirstPass, AssemblerStep, ClearOutput, CannotClear, OpenInput, EndFirstPass,
    SkipBlankLine, Encode, LoseWord, Reject, Finish, Advancing, Kill, fileVars
<1>2. Source' = Source
  BY <1>1, SourceStays
<1>3. ASSUME phase' \in {"start", "cleared", "first"}
      PROVE  /\ phase \in {"start", "cleared", "first"}
             /\ UNCHANGED <<currentAddress, next>>
  BY <1>3 DEF FirstPass, AssemblerStep, ClearOutput, CannotClear, OpenInput, EndFirstPass,
    SkipBlankLine, Encode, LoseWord, Reject, Finish, Encodable, Encoding, Advancing, Kill, fileVars
<1>4. QED
  BY <1>1, <1>2, <1>3

(* The symbol table represents the labels after each step: an insertion    *)
(* does to the map it represents what the label does to the symbols.       *)
LEMMA SymbolsNext ==
  ASSUME BlanksTrail(Files \cup Revisions), FInv, SymbolsEntered, SlotsAreNumbers,
         AssemblerStep \/ Kill \/ UNCHANGED fileVars
  PROVE  SymbolsEntered'
<1>1. /\ file \in Files \cup Revisions /\ position \in 0 .. Len(file)
      /\ tokenisedLines \in Seq(SeenLines)
  BY DEF FInv, KeptAreInstructions
<1>2. Healthy(symbolTable, Nat) /\ contents(symbolTable) = SymbolsOf(Source)
  BY DEF SymbolsEntered
<1>3. phase \in {"start", "cleared", "first"} => currentAddress = 4 * numLines /\ next = 0
  BY DEF SymbolsEntered
<1>4. numLines \in Nat
  BY <1>1 DEF numLines
<1>5. CASE ~FirstPass
  <2>1. /\ UNCHANGED <<tokenisedLines, symbolTable>> /\ Source' = Source
        /\ phase' \in {"start", "cleared", "first"} =>
             /\ phase \in {"start", "cleared", "first"}
             /\ UNCHANGED <<currentAddress, next>>
    BY <1>5, NotReading
  <2>2. symbolTable' = symbolTable /\ numLines' = numLines
    BY <2>1, Zenon DEF numLines
  <2>3. Healthy(symbolTable', Nat) /\ contents(symbolTable') = SymbolsOf(Source')
    BY <1>2, <2>1, <2>2, Zenon
  <2>4. phase' \in {"start", "cleared", "first"} => currentAddress' = 4 * numLines' /\ next' = 0
    BY <1>3, <2>1, <2>2
  <2>5. QED
    BY <2>3, <2>4, Zenon DEF SymbolsEntered
<1>6. CASE SkipEmptyLine
  <2>1. /\ UNCHANGED <<phase, currentAddress, next, tokenisedLines, symbolTable>>
        /\ Source' = Source
    BY <1>1, <1>6, LineRead DEF SkipEmptyLine, Reading
  <2>2. symbolTable' = symbolTable /\ numLines' = numLines
    BY <2>1, Zenon DEF numLines
  <2>3. Healthy(symbolTable', Nat) /\ contents(symbolTable') = SymbolsOf(Source')
    BY <1>2, <2>1, <2>2, Zenon
  <2>4. phase' \in {"start", "cleared", "first"} => currentAddress' = 4 * numLines' /\ next' = 0
    BY <1>3, <2>1, <2>2
  <2>5. QED
    BY <2>3, <2>4, Zenon DEF SymbolsEntered
<1>7. CASE EnterLabel
  <2>1. /\ phase = "first" /\ position < Len(file)
        /\ UNCHANGED <<phase, currentAddress, next, tokenisedLines>>
        /\ symbolTable' = insert_into_hash_table(symbolTable, labelName(line), currentAddress)
    BY <1>7 DEF EnterLabel, Reading
  <2>2. /\ line # Blank /\ line # Empty /\ labelName(line) \in DOMAIN hash
        /\ Overrides(SymbolsOf(Source'), SymbolsOf(Source), labelName(line),
                     4 * Len(InstructionsOf(Source)))
    BY <1>7, LabelRead
  <2>3. currentAddress = 4 * numLines /\ next = 0
    BY <1>3, <2>1
  <2>4. Len(InstructionsOf(Source)) = numLines
    <3>1. \A p \in 1 .. position : file[p] # Blank
      BY <1>1, <2>1, <2>2, NoBlankBefore
    <3>2. QED
      BY <3>1, Zenon DEF SlotsAreNumbers
  <2>5. currentAddress \in Nat
    BY <1>4, <2>3
  <2>6. /\ Healthy(symbolTable', Nat)
        /\ Updates(symbolTable', symbolTable, labelName(line), currentAddress)
    BY <1>2, <2>1, <2>2, <2>5, InsertSound
  <2>7. Overrides(contents(symbolTable'), contents(symbolTable), labelName(line), currentAddress)
    BY <2>2, <2>6, ContentsUpdated
  <2>8. contents(symbolTable') = SymbolsOf(Source')
    <3>1. Overrides(SymbolsOf(Source'), contents(symbolTable), labelName(line), currentAddress)
      BY <1>2, <2>2, <2>3, <2>4, Zenon
    <3>2. QED
      BY <2>7, <3>1, Zenon DEF Overrides
  <2>9. currentAddress' = 4 * numLines' /\ next' = 0
    BY <2>1, <2>3, Zenon DEF numLines
  <2>10. QED
    BY <2>6, <2>8, <2>9, Zenon DEF SymbolsEntered
<1>8. CASE Tokenize
  <2>1. /\ phase = "first" /\ UNCHANGED <<phase, next, symbolTable>>
        /\ currentAddress' = 4 * (numLines + 1)
        /\ tokenisedLines' = Append(tokenisedLines, tokenize(line))
    BY <1>8 DEF Tokenize, Reading
  <2>2. SymbolsOf(Source') = SymbolsOf(Source) /\ tokenize(line) \in SeenLines
    BY <1>8, InstructionRead, Zenon
  <2>3. numLines' = numLines + 1
    BY <1>1, <2>1, <2>2 DEF numLines
  <2>4. Healthy(symbolTable', Nat) /\ contents(symbolTable') = SymbolsOf(Source')
    BY <1>2, <2>1, <2>2, Zenon
  <2>5. currentAddress' = 4 * numLines' /\ next' = 0
    BY <1>3, <2>1, <2>3
  <2>6. QED
    BY <2>4, <2>5, Zenon DEF SymbolsEntered
<1>9. QED
  BY <1>5, <1>6, <1>7, <1>8 DEF FirstPass

(* A line that is not blank keeps its number, in the source and among the  *)
(* lines.                                                                  *)
LEMMA SlotsNext ==
  ASSUME BlanksTrail(Files \cup Revisions), FInv, SlotsAreNumbers,
         AssemblerStep \/ Kill \/ UNCHANGED fileVars
  PROVE  SlotsAreNumbers'
<1> DEFINE ins == InstructionsOf(Source)
<1>1. /\ file \in Files \cup Revisions /\ position \in 0 .. Len(file)
      /\ tokenisedLines \in Seq(SeenLines) /\ numLines \in Nat
  BY DEF FInv, KeptAreInstructions, numLines
<1>2. /\ \A i \in 1 .. numLines : tokenisedLines[i] # Blank =>
           i \in DOMAIN ins /\ ins[i] = tokenisedLines[i]
      /\ (\A p \in 1 .. position : file[p] # Blank) => Len(ins) = numLines
  BY DEF SlotsAreNumbers
<1>3. CASE ~FirstPass
  <2>1. UNCHANGED <<file, position, tokenisedLines>> /\ Source' = Source
    BY <1>3, NotReading
  <2>2. QED
    BY <1>2, <2>1 DEF SlotsAreNumbers, numLines
<1>4. CASE SkipEmptyLine \/ EnterLabel
  <2>1. UNCHANGED <<file, tokenisedLines>> /\ position' = position + 1
    BY <1>4 DEF SkipEmptyLine, EnterLabel
  <2>2. ins' = ins
    BY <1>1, <1>4, LineRead, LabelRead DEF SkipEmptyLine, Reading
  <2>3. (\A p \in 1 .. position' : file'[p] # Blank) => \A p \in 1 .. position : file[p] # Blank
    BY <1>1, <2>1
  <2> HIDE DEF ins
  <2>4. numLines' = numLines
    BY <2>1, Zenon DEF numLines
  <2>5. QED
    BY <1>2, <2>1, <2>2, <2>3, <2>4, Zenon DEF SlotsAreNumbers, ins
<1>5. CASE Tokenize
  <2> DEFINE x == tokenize(line)
  <2>1. /\ position < Len(file) /\ line # Empty
        /\ UNCHANGED file /\ position' = position + 1 /\ tokenisedLines' = Append(tokenisedLines, x)
    BY <1>5 DEF Tokenize, Reading
  <2>2. /\ line = Blank => ins' = ins /\ x = Blank
        /\ line # Blank => ins' = Append(ins, x)
        /\ x \in SeenLines /\ ins \in Seq(SeenLines)
    BY <1>5, InstructionRead, Zenon
  <2> HIDE DEF x, ins
  <2>3. /\ numLines' = numLines + 1 /\ tokenisedLines'[numLines + 1] = x
        /\ \A i \in 1 .. numLines : tokenisedLines'[i] = tokenisedLines[i]
    BY <1>1, <2>1, <2>2 DEF numLines
  <2>4. CASE line = Blank
    <3>1. \A i \in 1 .. numLines' : tokenisedLines'[i] # Blank =>
            i \in 1 .. numLines /\ tokenisedLines'[i] = tokenisedLines[i]
      BY <1>1, <2>2, <2>3, <2>4
    <3>2. \A i \in 1 .. numLines' : tokenisedLines'[i] # Blank =>
            i \in DOMAIN ins' /\ ins'[i] = tokenisedLines'[i]
      BY <1>2, <2>2, <2>4, <3>1, Zenon
    <3>3. ~ \A p \in 1 .. position' : file'[p] # Blank
      <4>1. position + 1 \in 1 .. position + 1 /\ file[position + 1] = Blank
        BY <1>1, <2>4 DEF line
      <4>2. QED
        BY <2>1, <4>1, Zenon
    <3>4. QED
      BY <3>2, <3>3, Zenon DEF SlotsAreNumbers, ins
  <2>5. CASE line # Blank
    <3>1. Len(ins) = numLines
      <4>1. \A p \in 1 .. position : file[p] # Blank
        BY <1>1, <2>1, <2>5, NoBlankBefore
      <4>2. QED
        BY <1>2, <4>1, Zenon
    <3>2. /\ Len(Append(ins, x)) = numLines + 1 /\ Append(ins, x)[numLines + 1] = x
          /\ DOMAIN Append(ins, x) = 1 .. numLines + 1 /\ DOMAIN ins = 1 .. numLines
          /\ \A i \in 1 .. numLines : Append(ins, x)[i] = ins[i]
      BY <2>2, <3>1
    <3>3. \A i \in 1 .. numLines' : tokenisedLines'[i] # Blank =>
            i \in DOMAIN ins' /\ ins'[i] = tokenisedLines'[i]
      <4>1. ins' = Append(ins, x)
        BY <2>2, <2>5, Zenon
      <4>2. ASSUME NEW i \in 1 .. numLines + 1, tokenisedLines'[i] # Blank
            PROVE  i \in DOMAIN ins' /\ ins'[i] = tokenisedLines'[i]
        <5>1. CASE i = numLines + 1
          BY <2>3, <3>2, <4>1, <5>1, Zenon
        <5>2. CASE i # numLines + 1
          <6>1. i \in 1 .. numLines
            BY <1>1, <5>2
          <6>2. i \in DOMAIN ins /\ ins[i] = tokenisedLines[i]
            BY <1>2, <2>3, <4>2, <6>1, Zenon
          <6>3. QED
            BY <2>3, <3>2, <4>1, <6>1, <6>2, Zenon
        <5>3. QED
          BY <5>1, <5>2
      <4>3. QED
        BY <2>3, <4>2, Zenon
    <3>4. Len(ins') = numLines'
      BY <2>2, <2>3, <2>5, <3>2, Zenon
    <3>5. QED
      BY <3>3, <3>4, Zenon DEF SlotsAreNumbers, ins
  <2>6. QED
    BY <2>4, <2>5
<1>6. QED
  BY <1>3, <1>4, <1>5 DEF FirstPass

-----------------------------------------------------------------------------
(* What a step of the second pass past a line does to the lines written: a *)
(* blank line and one that is lost add nothing, any other one its number.  *)
LEMMA WrittenNext ==
  ASSUME next \in Nat, next' = next + 1, tokenisedLines' = tokenisedLines,
         \A i \in 1 .. next : i \in lost' <=> i \in lost
  PROVE  /\ written \in Seq(1 .. next)
         /\ written' = IF current # Blank /\ next + 1 \notin lost' THEN Append(written, next + 1)
                       ELSE written
<1> DEFINE W == encodedLines \ lost
           V == encodedLines' \ lost'
<1>1. \A i \in 1 .. next : i \in W <=> i \in V
  BY DEF encodedLines
<1>2. next + 1 \in V <=> current # Blank /\ next + 1 \notin lost'
  BY DEF encodedLines, current
<1>3. written = chosen(next, W) /\ written' = chosen(next + 1, V)
  BY WrittenIs
<1> HIDE DEF W, V
<1>4. /\ chosen(next + 1, V) = IF next + 1 \in V THEN Append(chosen(next, W), next + 1)
                               ELSE chosen(next, W)
      /\ chosen(next, W) \in Seq(1 .. next)
  BY <1>1, ChosenAppend
<1>5. QED
  BY <1>2, <1>3, <1>4, Zenon

(* One more line is written.                                               *)
LEMMA WordAppended ==
  ASSUME next \in Nat, written \in Seq(1 .. next), written' = Append(written, next + 1),
         Source' = Source
  PROVE  words' = Append(words, AssembledWord(Source, next + 1))
<1> DEFINE w == written
           n == next + 1
<1>1. words' = [k \in DOMAIN Append(w, n) |-> AssembledWord(Source, Append(w, n)[k])]
  BY Zenon DEF words
<1>2. w \in Seq(Nat) /\ n \in Nat
  OBVIOUS
<1> HIDE DEF w, n
<1> DEFINE word(i) == AssembledWord(Source, i)
<1> HIDE DEF word
<1>4. [k \in DOMAIN Append(w, n) |-> word(Append(w, n)[k])]
        = Append([k \in DOMAIN w |-> word(w[k])], word(n))
  BY <1>2
<1>5. QED
  BY <1>1, <1>4, Zenon DEF words, w, n, word

(* The output stays the beginning of the program in each step.             *)
LEMMA OutputNext ==
  ASSUME FInv, SymbolsEntered, SlotsAreNumbers, lost \subseteq 1 .. next, OutputIsPrefix,
         AssemblerStep \/ Kill \/ UNCHANGED fileVars
  PROVE  OutputIsPrefix' /\ lost' \subseteq 1 .. next'
<1>1. /\ next \in 0 .. numLines /\ numLines \in Nat
  BY DEF FInv, KeptAreInstructions, numLines
<1>2. next \in Nat
  BY <1>1
<1>3. phase \notin {"start", "untouched"} => output = words
  BY Zenon DEF OutputIsPrefix, words
<1>4. OutputIsPrefix' <=> (phase' \notin {"start", "untouched"} => output' = words')
  BY Zenon DEF OutputIsPrefix, words
<1>5. next = 0 => words = <<>>
  BY NothingWritten
<1>6. next' = 0 => words' = <<>>
  <2>1. (next = 0 => words = <<>>)'
    BY NothingWritten, PTL
  <2>2. QED
    BY <2>1
<1>7. CASE ClearOutput
  <2>1. phase = "start" /\ output' = <<>> /\ UNCHANGED <<next, lost>>
    BY <1>7 DEF ClearOutput
  <2>2. next = 0
    BY <2>1 DEF SymbolsEntered
  <2>3. QED
    BY <1>4, <1>6, <2>1, <2>2
<1>8. CASE CannotClear
  BY <1>4, <1>8 DEF CannotClear
<1>9. CASE OpenInput \/ FirstPass \/ EndFirstPass
  <2>1. phase \in {"cleared", "first"} /\ UNCHANGED <<next, lost, output>>
    BY <1>9 DEF OpenInput, EndFirstPass, FirstPass, SkipEmptyLine, EnterLabel, Tokenize, Reading
  <2>2. next = 0
    BY <2>1 DEF SymbolsEntered
  <2>3. QED
    BY <1>3, <1>4, <1>5, <1>6, <2>1, <2>2
<1>10. CASE Reject \/ Finish \/ Kill \/ UNCHANGED fileVars
  <2>1. /\ UNCHANGED <<position, next, lost, output, tokenisedLines>>
        /\ phase' \notin {"start", "untouched"} => phase \notin {"start", "untouched"}
    <3>1. CASE Reject \/ Finish \/ UNCHANGED fileVars
      BY <3>1 DEF Reject, Encoding, Finish, fileVars
    <3>2. CASE Kill
      BY <3>2 DEF Kill, Ended, Successful
    <3>3. QED
      BY <1>10, <3>1, <3>2
  <2>5. ~FirstPass
    <3>1. position \in Int
      BY DEF FInv
    <3>2. FirstPass => position' = position + 1
      BY DEF FirstPass, SkipEmptyLine, EnterLabel, Tokenize
    <3>3. QED
      BY <2>1, <3>1, <3>2
  <2>2. Source' = Source
    BY <1>10, <2>5, NotReading DEF AssemblerStep
  <2>3. words' = words
    <3>1. encodedLines' = encodedLines
      BY <2>1, Zenon DEF encodedLines
    <3>2. written' = written
      BY <2>1, <3>1, WrittenIs, Zenon
    <3>3. QED
      BY <2>2, <3>2, Zenon DEF words
  <2>4. QED
    BY <1>3, <1>4, <2>1, <2>3
<1>11. CASE SkipBlankLine \/ LoseWord \/ Encode
  <2>1. /\ phase = "second" /\ next < numLines /\ next' = next + 1
        /\ UNCHANGED <<phase, tokenisedLines, file, position>>
    BY <1>11 DEF SkipBlankLine, LoseWord, Encode, Encodable, Encoding, Advancing
  <2>2. /\ SkipBlankLine => current = Blank /\ UNCHANGED <<output, lost>>
        /\ LoseWord => lost' = lost \cup {next + 1} /\ UNCHANGED output
        /\ Encode => /\ current # Blank /\ UNCHANGED lost
                     /\ output' = Append(output,
                          instruction_processor(current, contents(symbolTable), 4 * next))
    BY DEF SkipBlankLine, LoseWord, Encode, Encodable, Advancing
  <2>3. Source' = Source
    BY <2>1, SourceStays
  <2>4. lost' \subseteq 1 .. next'
    <3>1. lost' \subseteq lost \cup {next + 1}
      BY <1>11, <2>2, Zenon
    <3>2. 1 .. next \cup {next + 1} \subseteq 1 .. next + 1
      BY <1>2
    <3>3. QED
      BY <2>1, <3>1, <3>2, Zenon
  <2>5. \A i \in 1 .. next : i \in lost' <=> i \in lost
    BY <1>2, <1>11, <2>2
  <2>6. next + 1 \notin lost
    BY <1>2
  <2>7. /\ written \in Seq(1 .. next)
        /\ written' = IF current # Blank /\ next + 1 \notin lost' THEN Append(written, next + 1)
                      ELSE written
    BY <1>2, <2>1, <2>5, WrittenNext
  <2>8. CASE SkipBlankLine \/ LoseWord
    <3>1. written' = written
      BY <2>2, <2>7, <2>8
    <3>2. words' = words
      BY <2>3, <3>1, Zenon DEF words
    <3>3. output' = output
      BY <2>2, <2>8
    <3>4. QED
      BY <1>3, <1>4, <2>1, <2>4, <3>2, <3>3
  <2>9. CASE Encode
    <3>1. written' = Append(written, next + 1)
      BY <2>2, <2>6, <2>7, <2>9
    <3>2. words' = Append(words, AssembledWord(Source, next + 1))
      BY <1>2, <2>3, <2>7, <3>1, WordAppended
    <3>3. AssembledWord(Source, next + 1) =
            instruction_processor(current, contents(symbolTable), 4 * next)
      <4>1. InstructionsOf(Source)[next + 1] = current
        <5>1. next + 1 \in 1 .. numLines
          BY <1>1, <2>1
        <5>2. current # Blank
          BY <2>2, <2>9
        <5>3. QED
          BY <5>1, <5>2, Zenon DEF SlotsAreNumbers, current
      <4>2. contents(symbolTable) = SymbolsOf(Source)
        BY DEF SymbolsEntered
      <4>3. (next + 1) - 1 = next
        BY <1>2
      <4>4. QED
        BY <4>1, <4>2, <4>3, Zenon DEF AssembledWord
    <3>4. output' = words'
      BY <1>3, <2>1, <2>2, <2>9, <3>2, <3>3, Zenon
    <3>5. QED
      BY <1>4, <2>4, <3>4
  <2>10. QED
    BY <1>11, <2>8, <2>9
<1>12. lost' \subseteq 1 .. next'
  <2>1. CASE SkipBlankLine \/ LoseWord \/ Encode
    BY <1>11, <2>1
  <2>2. CASE ~(SkipBlankLine \/ LoseWord \/ Encode)
    <3>1. UNCHANGED <<next, lost>>
      BY <2>2 DEF AssemblerStep, ClearOutput, CannotClear, OpenInput, SkipEmptyLine, EnterLabel,
        Tokenize, EndFirstPass, Reject, Finish, Kill, fileVars
    <3>2. QED
      BY <3>1
  <2>3. QED
    BY <2>1, <2>2
<1>13. QED
  BY <1>7, <1>8, <1>9, <1>10, <1>11, <1>12 DEF AssemblerStep, FirstPass

(* Every step keeps the invariant.                                         *)
LEMMA PInvNext ==
  BlanksTrail(Files \cup Revisions) => (PInv /\ [FileNext]_fileVars => PInv')
<1> SUFFICES ASSUME BlanksTrail(Files \cup Revisions), PInv, [FileNext]_fileVars PROVE PInv'
  OBVIOUS
<1>1. FInv /\ SymbolsEntered /\ SlotsAreNumbers /\ lost \subseteq 1 .. next /\ OutputIsPrefix
  BY DEF PInv
<1>2. FInv'
  BY <1>1, FInvNext
<1>3. CASE RunAgain
  <2>1. Started'
    BY <1>3 DEF RunAgain, Started
  <2>2. (SymbolsEntered /\ SlotsAreNumbers /\ lost \subseteq 1 .. next /\ OutputIsPrefix)'
    BY <2>1, InvariantAtStart, PTL
  <2>3. QED
    BY <1>2, <2>2 DEF PInv
<1>4. CASE AssemblerStep \/ Kill \/ UNCHANGED fileVars
  <2>1. SymbolsEntered'
    BY <1>1, <1>4, SymbolsNext
  <2>2. SlotsAreNumbers'
    BY <1>1, <1>4, SlotsNext
  <2>3. OutputIsPrefix' /\ lost' \subseteq 1 .. next'
    BY <1>1, <1>4, OutputNext
  <2>4. QED
    BY <1>2, <2>1, <2>2, <2>3 DEF PInv
<1>5. QED
  BY <1>3, <1>4 DEF FileNext

(* Whatever the source files, as long as nothing follows a blank line, and *)
(* whatever goes wrong: what is in the output is the beginning of the      *)
(* program that was read, with every label resolved.                       *)
THEOREM OutputIsProgram ==
  BlanksTrail(Files \cup Revisions) /\ FileSpec => []OutputIsPrefix
<1> SUFFICES ASSUME BlanksTrail(Files \cup Revisions)
             PROVE  FileSpec => []OutputIsPrefix
  OBVIOUS
<1>1. PInv /\ [FileNext]_fileVars => PInv'
  BY PInvNext
<1>2. FileInit => PInv
  <2>1. FileInit => Started
    BY DEF FileInit, Started
  <2>2. QED
    BY <2>1, FInvInit, InvariantAtStart DEF PInv
<1>3. PInv => OutputIsPrefix
  BY DEF PInv
<1>4. QED
  BY <1>1, <1>2, <1>3, PTL DEF FileSpec

=============================================================================
