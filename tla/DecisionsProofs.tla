-------------------------- MODULE DecisionsProofs --------------------------
(***************************************************************************)
(* Theorems about the crates that decide.  A state is a question, so that  *)
(* most proofs are about the operators: what an answer is read as, for     *)
(* every answer there is.  Where a crate keeps a state, the alert          *)
(* evaluator and the control plane, an invariant says what it is.  Sums    *)
(* over finite sets and bags come first; the statistics rest on them.      *)
(***************************************************************************)
EXTENDS Decisions, FiniteSetTheorems, SequenceTheorems, WellFoundedInduction, TLAPS

\* A set of natural numbers has a least element, unless it is empty.
LEMMA LeastExists ==
  ASSUME NEW S, S \subseteq Nat, S # {}
  PROVE  \E m \in S : \A n \in S : m <= n
<1>1. PICK m \in S : \A n \in S : ~(<<n, m>> \in OpToRel(<, Nat))
  BY NatLessThanWellFounded, WFMin
<1>2. \A n \in Nat : n < m => <<n, m>> \in OpToRel(<, Nat)
  BY DEF OpToRel
<1>3. \A n \in S : ~(n < m)
  BY <1>1, <1>2
<1> QED  BY <1>3

\* The powers of two up to the bound of the backoffs, one by one: their general
\* laws are beyond the provers.
LEMMA PowersOfTwo ==
  ASSUME NEW n \in 0..16
  PROVE  2^n \in Nat \ {0} /\ 2^(n + 1) = 2 * 2^n
<1> DEFINE Doubles(k, m) == 2^k \in Nat \ {0} /\ 2^m = 2 * 2^k
<1>1. /\ Doubles(0, 1) /\ Doubles(1, 2) /\ Doubles(2, 3) /\ Doubles(3, 4) /\ Doubles(4, 5) /\ Doubles(5, 6)
      /\ Doubles(6, 7) /\ Doubles(7, 8) /\ Doubles(8, 9) /\ Doubles(9, 10) /\ Doubles(10, 11) /\ Doubles(11, 12)
      /\ Doubles(12, 13) /\ Doubles(13, 14) /\ Doubles(14, 15) /\ Doubles(15, 16) /\ Doubles(16, 17)
  OBVIOUS
<1> DEFINE m == n + 1
<1>2. \/ (n = 0 /\ m = 1) \/ (n = 1 /\ m = 2) \/ (n = 2 /\ m = 3) \/ (n = 3 /\ m = 4) \/ (n = 4 /\ m = 5)
      \/ (n = 5 /\ m = 6) \/ (n = 6 /\ m = 7) \/ (n = 7 /\ m = 8) \/ (n = 8 /\ m = 9) \/ (n = 9 /\ m = 10)
      \/ (n = 10 /\ m = 11) \/ (n = 11 /\ m = 12) \/ (n = 12 /\ m = 13) \/ (n = 13 /\ m = 14)
      \/ (n = 14 /\ m = 15) \/ (n = 15 /\ m = 16) \/ (n = 16 /\ m = 17)
  OBVIOUS
<1> HIDE DEF Doubles, m
<1>3. Doubles(n, m)
  BY <1>1, <1>2, Zenon
<1> QED  BY <1>3 DEF Doubles, m

-----------------------------------------------------------------------------
(* Sums over finite sets.                                                   *)

\* What holds of the empty set and stays so with every element more holds of a
\* finite set.
LEMMA GrowsToTheWhole ==
  ASSUME NEW D, IsFiniteSet(D), NEW P \in SUBSET SUBSET D,
         {} \in P, \A T \in P : \A x \in D \ T : T \union {x} \in P
  PROVE  D \in P
<1> DEFINE Odd == {n \in Nat : \E T \in SUBSET D : Cardinality(T) = n /\ T \notin P}
<1> SUFFICES ASSUME D \notin P PROVE FALSE
  OBVIOUS
<1>1. Cardinality(D) \in Odd
  BY FS_CardinalityType
<1>2. PICK m \in Odd : \A n \in Odd : m <= n
  <2> HIDE DEF Odd
  <2>1. Odd \subseteq Nat
    BY DEF Odd
  <2> QED  BY <1>1, <2>1, LeastExists
<1>3. PICK T \in SUBSET D : Cardinality(T) = m /\ T \notin P
  BY <1>2
<1>4. PICK x \in T : TRUE
  BY <1>3
<1>5. IsFiniteSet(T)
  BY FS_Subset
<1>6. Cardinality(T \ {x}) = m - 1 /\ Cardinality(T \ {x}) \in Nat
  BY <1>3, <1>4, <1>5, FS_RemoveElement, FS_CardinalityType
<1>7. T \ {x} \in P
  <2>1. m - 1 \notin Odd
    BY <1>2, <1>6
  <2> QED  BY <1>6, <2>1
<1>8. (T \ {x}) \union {x} = T
  BY <1>4
<1> QED  BY <1>3, <1>4, <1>7, <1>8

\* An element of a set.
AnyOf(s) == CHOOSE x \in s : TRUE

LEMMA AnyIsOne == ASSUME NEW s, s # {} PROVE AnyOf(s) \in s
BY DEF AnyOf

\* The table of the sums of f over the parts of D.
IsSums(g, f, D) ==
  g = [s \in SUBSET D |-> IF s = {} THEN 0 ELSE f[AnyOf(s)] + g[s \ {AnyOf(s)}]]

LEMMA SumsExist ==
  ASSUME NEW f, NEW D, IsFiniteSet(D)
  PROVE  \E g : IsSums(g, f, D)
<1> DEFINE Entry(g, s) == IF s = {} THEN 0 ELSE f[AnyOf(s)] + g[s \ {AnyOf(s)}]
           Upto(g, n)  == /\ DOMAIN g = SUBSET D
                          /\ g = [s \in SUBSET D |-> g[s]]
                          /\ \A s \in SUBSET D : Cardinality(s) <= n => g[s] = Entry(g, s)
           Odd         == {n \in Nat : \A g : ~Upto(g, n)}
<1>1. \A s \in SUBSET D : IsFiniteSet(s) /\ Cardinality(s) \in Nat /\ Cardinality(s) <= Cardinality(D)
  BY FS_Subset, FS_CardinalityType
<1>2. \A s \in SUBSET D : s # {} =>
         /\ s \ {AnyOf(s)} \in SUBSET D
         /\ Cardinality(s \ {AnyOf(s)}) = Cardinality(s) - 1
  BY <1>1, AnyIsOne, FS_RemoveElement
<1>3. Upto([s \in SUBSET D |-> 0], 0)
  <2> DEFINE g == [s \in SUBSET D |-> 0]
  <2>1. ASSUME NEW s \in SUBSET D, Cardinality(s) <= 0 PROVE g[s] = Entry(g, s)
    <3>1. s = {}
      BY <1>1, <2>1, FS_EmptySet
    <3> QED  BY <3>1
  <2> QED  BY <2>1
<1>4. ASSUME NEW n \in Nat, NEW g, Upto(g, n) PROVE \E h : Upto(h, n + 1)
  <2> DEFINE h == [s \in SUBSET D |-> Entry(g, s)]
  <2>1. ASSUME NEW s \in SUBSET D, Cardinality(s) <= n + 1 PROVE h[s] = Entry(h, s)
    <3>1. CASE s = {}
      BY <3>1
    <3>2. CASE s # {}
      <4> DEFINE t == s \ {AnyOf(s)}
      <4>1. t \in SUBSET D /\ Cardinality(t) <= n
        BY <1>1, <1>2, <2>1, <3>2
      <4>2. g[t] = Entry(g, t)
        BY <1>4, <4>1
      <4>3. h[t] = Entry(g, t)
        BY <4>1
      <4>4. h[s] = f[AnyOf(s)] + g[t]
        BY <3>2
      <4> QED  BY <3>2, <4>2, <4>3, <4>4
    <3> QED  BY <3>1, <3>2
  <2>2. Upto(h, n + 1)
    <3>1. DOMAIN h = SUBSET D /\ h = [s \in SUBSET D |-> h[s]]
      OBVIOUS
    <3> HIDE DEF h, Entry
    <3> QED  BY <2>1, <3>1
  <2> HIDE DEF h
  <2> QED  BY <2>2
<1> HIDE DEF Upto
<1>5. Odd = {}
  <2> SUFFICES ASSUME Odd # {} PROVE FALSE
    OBVIOUS
  <2>1. PICK m \in Odd : \A n \in Odd : m <= n
    <3>1. Odd \subseteq Nat
      OBVIOUS
    <3> HIDE DEF Odd
    <3> QED  BY <3>1, LeastExists
  <2>2. m # 0
    BY <1>3, <2>1
  <2>3. m - 1 \in Nat /\ m - 1 \notin Odd
    BY <2>1, <2>2
  <2>4. PICK g : Upto(g, m - 1)
    BY <2>3
  <2>5. \E h : Upto(h, m - 1 + 1)
    BY <1>4, <2>3, <2>4
  <2>6. m - 1 + 1 = m
    BY <2>3
  <2> QED  BY <2>1, <2>5, <2>6
<1>6. PICK g : Upto(g, Cardinality(D))
  <2>1. Cardinality(D) \in Nat
    BY FS_CardinalityType
  <2> QED  BY <1>5, <2>1
<1>7. /\ g = [s \in SUBSET D |-> g[s]]
      /\ \A s \in SUBSET D : g[s] = Entry(g, s)
  BY <1>1, <1>6 DEF Upto
<1> HIDE DEF Entry
<1>8. g = [s \in SUBSET D |-> Entry(g, s)]
  BY <1>7
<1> QED  BY <1>8 DEF Entry, IsSums

\* Two tables agree where both have a sum.
LEMMA SumsAgree ==
  ASSUME NEW f, NEW D, NEW E, IsFiniteSet(D), NEW g, NEW h, IsSums(g, f, D), IsSums(h, f, E),
         NEW S \in (SUBSET D) \cap (SUBSET E)
  PROVE  g[S] = h[S]
<1> DEFINE Odd == {n \in Nat : \E s \in (SUBSET D) \cap (SUBSET E) : Cardinality(s) = n /\ g[s] # h[s]}
<1>1. \A s \in SUBSET D : IsFiniteSet(s) /\ Cardinality(s) \in Nat
  BY FS_Subset, FS_CardinalityType
<1> SUFFICES ASSUME Odd # {} PROVE FALSE
  BY <1>1
<1>2. PICK m \in Odd : \A n \in Odd : m <= n
  <2>1. Odd \subseteq Nat
    OBVIOUS
  <2> HIDE DEF Odd
  <2> QED  BY <2>1, LeastExists
<1>3. PICK s \in (SUBSET D) \cap (SUBSET E) : Cardinality(s) = m /\ g[s] # h[s]
  BY <1>2
<1>4. g[s] = (IF s = {} THEN 0 ELSE f[AnyOf(s)] + g[s \ {AnyOf(s)}])
  BY Zenon DEF IsSums
<1>5. h[s] = (IF s = {} THEN 0 ELSE f[AnyOf(s)] + h[s \ {AnyOf(s)}])
  BY Zenon DEF IsSums
<1>6. s # {}
  BY <1>3, <1>4, <1>5
<1> DEFINE t == s \ {AnyOf(s)}
<1>7. /\ t \in (SUBSET D) \cap (SUBSET E)
      /\ Cardinality(t) = m - 1 /\ Cardinality(t) \in Nat
  <2>1. AnyOf(s) \in s
    BY <1>6, AnyIsOne
  <2>2. IsFiniteSet(s)
    BY <1>1
  <2> QED  BY <1>1, <1>3, <2>1, <2>2, FS_RemoveElement
<1>8. m - 1 \notin Odd
  BY <1>2, <1>7
<1>9. g[t] = h[t]
  BY <1>7, <1>8
<1> QED  BY <1>3, <1>4, <1>5, <1>9

LEMMA SumIsInTheTable ==
  ASSUME NEW f, NEW D, IsFiniteSet(D), NEW g, IsSums(g, f, D), NEW S \in SUBSET D
  PROVE  SumFunctionOnSet(f, S) = g[S]
<1> DEFINE h == CHOOSE it : IsSums(it, f, S)
<1>1. SumFunctionOnSet(f, S) = h[S]
  BY DEF SumFunctionOnSet, FoldFunctionOnSet, MapThenFoldSet, IsSums, AnyOf
<1>2. IsSums(h, f, S)
  <2>1. IsFiniteSet(S)
    BY FS_Subset
  <2>2. \E it : IsSums(it, f, S)
    BY <2>1, SumsExist
  <2> HIDE DEF IsSums
  <2> QED  BY <2>2, Zenon
<1> HIDE DEF h
<1>3. h[S] = g[S]
  BY <1>2, SumsAgree
<1> QED  BY <1>1, <1>3

\* A sum over nothing is zero; a sum over something is one of its terms and
\* the sum of the others.
LEMMA SumUnfolds ==
  ASSUME NEW f, NEW D, IsFiniteSet(D)
  PROVE  /\ SumFunctionOnSet(f, {}) = 0
         /\ D # {} => \E x \in D : SumFunctionOnSet(f, D) = f[x] + SumFunctionOnSet(f, D \ {x})
<1>1. PICK g : IsSums(g, f, D)
  BY SumsExist
<1>2. \A S \in SUBSET D : SumFunctionOnSet(f, S) = g[S]
  BY <1>1, SumIsInTheTable
<1>3. \A S \in SUBSET D : g[S] = (IF S = {} THEN 0 ELSE f[AnyOf(S)] + g[S \ {AnyOf(S)}])
  BY <1>1, Zenon DEF IsSums
<1>4. SumFunctionOnSet(f, {}) = 0
  BY <1>2, <1>3
<1>5. ASSUME D # {} PROVE \E x \in D : SumFunctionOnSet(f, D) = f[x] + SumFunctionOnSet(f, D \ {x})
  <2>1. AnyOf(D) \in D
    BY <1>5, AnyIsOne
  <2>2. SumFunctionOnSet(f, D) = f[AnyOf(D)] + SumFunctionOnSet(f, D \ {AnyOf(D)})
    BY <1>2, <1>3, <1>5
  <2> QED  BY <2>1, <2>2
<1> QED  BY <1>4, <1>5

\* The terms may be added in any order.
LEMMA SumOfOneMore ==
  ASSUME NEW D, IsFiniteSet(D), NEW f, \A x \in D : f[x] \in Int
  PROVE  /\ SumFunctionOnSet(f, D) \in Int
         /\ \A y \in D : SumFunctionOnSet(f, D) = f[y] + SumFunctionOnSet(f, D \ {y})
<1> DEFINE Sum(S)  == SumFunctionOnSet(f, S)
           Good(S) == Sum(S) \in Int /\ \A y \in S : Sum(S) = f[y] + Sum(S \ {y})
           Odd     == {n \in Nat : \E S \in SUBSET D : Cardinality(S) = n /\ ~Good(S)}
<1>1. \A S \in SUBSET D : IsFiniteSet(S) /\ Cardinality(S) \in Nat
  BY FS_Subset, FS_CardinalityType
<1>2. \A S \in SUBSET D : S # {} => \E x \in S : Sum(S) = f[x] + Sum(S \ {x})
  BY <1>1, SumUnfolds
<1>3. Sum({}) = 0
  BY SumUnfolds
<1> SUFFICES ASSUME Odd # {} PROVE FALSE
  <2>1. Good(D)
    BY <1>1
  <2> QED  BY <2>1
<1> HIDE DEF Sum
<1>4. PICK m \in Odd : \A n \in Odd : m <= n
  <2>1. Odd \subseteq Nat
    OBVIOUS
  <2> HIDE DEF Odd
  <2> QED  BY <2>1, LeastExists
<1>5. PICK S \in SUBSET D : Cardinality(S) = m /\ ~Good(S)
  BY <1>4
<1>6. S # {}
  <2>1. Good({})
    BY <1>3
  <2> HIDE DEF Good
  <2> QED  BY <1>5, <2>1
<1>7. ASSUME NEW T \in SUBSET D, Cardinality(T) < m PROVE Good(T)
  <2> SUFFICES ASSUME ~Good(T) PROVE FALSE
    OBVIOUS
  <2> HIDE DEF Good
  <2>1. Cardinality(T) \in Nat
    BY <1>1
  <2>2. Cardinality(T) \in Odd
    BY <2>1
  <2>3. m <= Cardinality(T) /\ m \in Nat
    BY <1>4, <2>2
  <2> QED  BY <1>7, <2>1, <2>3
<1>8. \A T \in SUBSET D, x \in D : x \in T => Cardinality(T \ {x}) = Cardinality(T) - 1
  BY <1>1, FS_RemoveElement
<1>9. PICK x \in S : Sum(S) = f[x] + Sum(S \ {x})
  BY <1>2, <1>6
<1>10. m \in Nat
  BY <1>4
<1>11. Good(S \ {x})
  <2>1. S \ {x} \in SUBSET D /\ Cardinality(S \ {x}) < m
    BY <1>5, <1>8, <1>9, <1>10
  <2> QED  BY <1>7, <2>1
<1>12. Sum(S) \in Int
  BY <1>9, <1>11
<1>13. ASSUME NEW y \in S, y # x PROVE Sum(S) = f[y] + Sum(S \ {y})
  <2> DEFINE T == S \ {x}
             U == S \ {y}
             V == T \ {y}
  <2>1. T \in SUBSET D /\ U \in SUBSET D /\ V \in SUBSET D /\ y \in T /\ x \in U /\ U \ {x} = V
    BY <1>9, <1>13
  <2>2. Cardinality(U) < m /\ Cardinality(V) < m
    <3>1. Cardinality(U) = m - 1 /\ Cardinality(T) = m - 1
      BY <1>5, <1>8, <1>9
    <3>2. Cardinality(V) = Cardinality(T) - 1
      BY <1>8, <2>1
    <3> HIDE DEF T, U, V
    <3> QED  BY <1>10, <3>1, <3>2
  <2>3. Good(U) /\ Good(V)
    BY <1>7, <2>1, <2>2
  <2>4. Sum(T) = f[y] + Sum(V)
    BY <1>11, <2>1
  <2>5. Sum(U) = f[x] + Sum(V)
    BY <2>1, <2>3
  <2>6. Sum(V) \in Int /\ f[x] \in Int /\ f[y] \in Int
    BY <1>9, <1>13, <2>3
  <2> HIDE DEF T, U, V
  <2>7. Sum(S) = f[x] + Sum(T)
    BY <1>9 DEF T
  <2>8. Sum(S) = f[y] + Sum(U)
    BY <2>4, <2>5, <2>6, <2>7
  <2> QED  BY <2>8 DEF U
<1> QED  BY <1>5, <1>9, <1>12, <1>13

LEMMA SumGrows ==
  ASSUME NEW D, IsFiniteSet(D), NEW f, \A x \in D : f[x] \in Int, NEW S \in SUBSET D
  PROVE  /\ SumFunctionOnSet(f, S) \in Int
         /\ \A x \in D \ S : SumFunctionOnSet(f, S \union {x}) = f[x] + SumFunctionOnSet(f, S)
<1>1. IsFiniteSet(S)
  BY FS_Subset
<1>2. SumFunctionOnSet(f, S) \in Int
  BY <1>1, SumOfOneMore
<1>3. ASSUME NEW x \in D \ S PROVE SumFunctionOnSet(f, S \union {x}) = f[x] + SumFunctionOnSet(f, S)
  <2> DEFINE T == S \union {x}
  <2>1. T \in SUBSET D /\ x \in T /\ T \ {x} = S
    OBVIOUS
  <2>2. IsFiniteSet(T)
    BY <2>1, FS_Subset
  <2>3. \A y \in T : f[y] \in Int
    BY <2>1
  <2> HIDE DEF T
  <2>4. SumFunctionOnSet(f, T) = f[x] + SumFunctionOnSet(f, T \ {x})
    BY <2>1, <2>2, <2>3, SumOfOneMore
  <2> QED  BY <2>1, <2>4 DEF T
<1> QED  BY <1>2, <1>3

\* A sum grows with its terms.
LEMMA SumIsMonotone ==
  ASSUME NEW D, IsFiniteSet(D), NEW f, NEW g,
         \A x \in D : f[x] \in Int /\ g[x] \in Int /\ f[x] <= g[x]
  PROVE  SumFunctionOnSet(f, D) <= SumFunctionOnSet(g, D)
<1> DEFINE F(S) == SumFunctionOnSet(f, S)
           G(S) == SumFunctionOnSet(g, S)
           P    == {S \in SUBSET D : F(S) <= G(S)}
<1>1. F({}) = 0 /\ G({}) = 0
  BY FS_EmptySet, SumUnfolds
<1>2. ASSUME NEW S \in P, NEW x \in D \ S PROVE S \union {x} \in P
  <2>1. F(S) \in Int /\ G(S) \in Int /\ F(S \union {x}) = f[x] + F(S) /\ G(S \union {x}) = g[x] + G(S)
    BY SumGrows
  <2>2. F(S) <= G(S) /\ f[x] \in Int /\ g[x] \in Int /\ f[x] <= g[x]
    OBVIOUS
  <2> HIDE DEF F, G
  <2>3. F(S \union {x}) <= G(S \union {x})
    BY <2>1, <2>2
  <2> QED  BY <2>3
<1>3. {} \in P
  <2> HIDE DEF F, G
  <2> QED  BY <1>1
<1>4. P \in SUBSET SUBSET D
  OBVIOUS
<1> HIDE DEF P
<1>5. D \in P
  BY <1>2, <1>3, <1>4, GrowsToTheWhole
<1> QED  BY <1>5 DEF P

LEMMA SumOfTheSame ==
  ASSUME NEW D, IsFiniteSet(D), NEW f, NEW g, \A x \in D : f[x] \in Int /\ g[x] = f[x]
  PROVE  SumFunctionOnSet(f, D) = SumFunctionOnSet(g, D)
<1> DEFINE F == SumFunctionOnSet(f, D)
           G == SumFunctionOnSet(g, D)
<1>1. F <= G /\ G <= F
  BY SumIsMonotone
<1>2. F \in Int /\ G \in Int
  BY SumGrows
<1> HIDE DEF F, G
<1>3. F = G
  BY <1>1, <1>2
<1> QED  BY <1>3 DEF F, G

\* The sum over a set is that over the two parts of it.
LEMMA SumOfParts ==
  ASSUME NEW D, IsFiniteSet(D), NEW f, \A x \in D : f[x] \in Int, NEW T \in SUBSET D
  PROVE  SumFunctionOnSet(f, D) = SumFunctionOnSet(f, T) + SumFunctionOnSet(f, D \ T)
<1> DEFINE F(S) == SumFunctionOnSet(f, S)
           R    == D \ T
           P    == {S \in SUBSET R : F(T \union S) = F(T) + F(S)}
<1>1. \A S \in SUBSET D : F(S) \in Int /\ \A x \in D \ S : F(S \union {x}) = f[x] + F(S)
  BY SumGrows
<1>2. F({}) = 0
  BY FS_EmptySet, SumUnfolds
<1> HIDE DEF F
<1>3. ASSUME NEW S \in P, NEW x \in R \ S PROVE S \union {x} \in P
  <2> DEFINE U == T \union S
  <2>1. U \in SUBSET D /\ x \in D \ U /\ S \in SUBSET D /\ x \in D \ S /\ T \union (S \union {x}) = U \union {x}
    OBVIOUS
  <2>2. F(U \union {x}) = f[x] + F(U) /\ F(S \union {x}) = f[x] + F(S)
    BY <1>1, <2>1
  <2>3. F(S) \in Int /\ F(T) \in Int /\ f[x] \in Int /\ F(U) = F(T) + F(S)
    BY <1>1, <2>1
  <2> HIDE DEF U
  <2>4. F(U \union {x}) = F(T) + F(S \union {x})
    BY <2>2, <2>3
  <2> QED  BY <2>1, <2>4
<1>4. {} \in P
  <2>1. T \union {} = T /\ F(T) \in Int
    BY <1>1
  <2> QED  BY <1>2, <2>1
<1>5. P \in SUBSET SUBSET R /\ IsFiniteSet(R)
  BY FS_Subset
<1> HIDE DEF P
<1>6. R \in P
  BY <1>3, <1>4, <1>5, GrowsToTheWhole
<1>7. T \union R = D
  OBVIOUS
<1> QED  BY <1>6, <1>7 DEF P, F

LEMMA SumOfZeros ==
  ASSUME NEW D, IsFiniteSet(D), NEW f, \A x \in D : f[x] = 0
  PROVE  SumFunctionOnSet(f, D) = 0
<1> DEFINE F(S) == SumFunctionOnSet(f, S)
           P    == {S \in SUBSET D : F(S) = 0}
<1>1. F({}) = 0
  BY FS_EmptySet, SumUnfolds
<1>2. \A S \in SUBSET D : \A x \in D \ S : F(S \union {x}) = f[x] + F(S)
  <2> SUFFICES ASSUME NEW S \in SUBSET D PROVE \A x \in D \ S : F(S \union {x}) = f[x] + F(S)
    OBVIOUS
  <2>1. \A x \in D : f[x] \in Int
    OBVIOUS
  <2> QED  BY <2>1, SumGrows
<1> HIDE DEF F
<1>3. {} \in P /\ P \in SUBSET SUBSET D
  BY <1>1
<1>4. ASSUME NEW S \in P, NEW x \in D \ S PROVE S \union {x} \in P
  BY <1>2
<1> HIDE DEF P
<1>5. D \in P
  BY <1>3, <1>4, GrowsToTheWhole
<1> QED  BY <1>5 DEF P, F

\* What is summed over a part is the sum over the whole of what counts only there.
LEMMA SumOverThePart ==
  ASSUME NEW D, IsFiniteSet(D), NEW T \in SUBSET D, NEW f, NEW g,
         \A x \in T : f[x] \in Int /\ g[x] = f[x], \A x \in D \ T : g[x] = 0
  PROVE  SumFunctionOnSet(f, T) = SumFunctionOnSet(g, D)
<1> DEFINE F == SumFunctionOnSet(f, T)
           G == SumFunctionOnSet(g, T)
           R == SumFunctionOnSet(g, D \ T)
<1>1. IsFiniteSet(T) /\ IsFiniteSet(D \ T)
  BY FS_Subset
<1>2. F = G
  BY <1>1, SumOfTheSame
<1>3. R = 0
  BY <1>1, SumOfZeros
<1>4. \A x \in D : g[x] \in Int
  OBVIOUS
<1>5. SumFunctionOnSet(g, D) = G + R
  BY <1>4, SumOfParts
<1>6. F \in Int
  BY <1>1, SumGrows
<1> HIDE DEF F, G, R
<1>7. SumFunctionOnSet(g, D) = F
  BY <1>2, <1>3, <1>5, <1>6
<1> QED  BY <1>7 DEF F

\* One term changes the sum by what it changed itself.
LEMMA SumIsShifted ==
  ASSUME NEW D, IsFiniteSet(D), NEW f, NEW g, NEW y \in D, NEW d \in Int, g[y] = f[y] + d,
         \A x \in D : f[x] \in Int, \A x \in D \ {y} : g[x] = f[x]
  PROVE  SumFunctionOnSet(g, D) = SumFunctionOnSet(f, D) + d
<1> DEFINE F == SumFunctionOnSet(f, D \ {y})
           G == SumFunctionOnSet(g, D \ {y})
<1>1. IsFiniteSet(D \ {y})
  BY FS_Subset
<1>2. F = G
  BY <1>1, SumOfTheSame
<1>3. F \in Int
  BY <1>1, SumGrows
<1>4. \A x \in D : g[x] \in Int
  OBVIOUS
<1>5. SumFunctionOnSet(f, D) = f[y] + F /\ SumFunctionOnSet(g, D) = g[y] + G
  BY <1>4, SumOfOneMore
<1>6. f[y] \in Int /\ g[y] = f[y] + d
  OBVIOUS
<1> HIDE DEF F, G
<1> QED  BY <1>2, <1>3, <1>5, <1>6

-----------------------------------------------------------------------------
(* Analytics                                                                *)

LEMMA Quotient ==
  ASSUME NEW n \in Nat, NEW d \in Nat \ {0}
  PROVE  n \div d \in Nat /\ d * (n \div d) <= n /\ n < d * (n \div d) + d
OBVIOUS

LEMMA ProductsCompare ==
  ASSUME NEW x \in Int, NEW y \in Int, NEW d \in Nat \ {0}, d * x < d * y
  PROVE  x < y
OBVIOUS

\* A larger part is a larger quotient.
LEMMA QuotientsCompare ==
  ASSUME NEW m \in Nat, NEW n \in Nat, NEW d \in Nat \ {0}, m <= n
  PROVE  m \div d <= n \div d
<1> DEFINE p == m \div d
           q == n \div d
<1>1. p \in Nat /\ q \in Nat /\ d * p <= m /\ n < d * q + d
  BY Quotient
<1> HIDE DEF p, q
<1>2. d * p < d * (q + 1)
  <2>1. d * (q + 1) = d * q + d /\ d * p \in Int /\ d * q \in Int
    BY <1>1
  <2> DEFINE a == d * p
             b == d * q
             c == d * (q + 1)
  <2>2. a <= m /\ n < b + d /\ c = b + d /\ a \in Int /\ b \in Int
    BY <1>1, <2>1
  <2> HIDE DEF a, b, c
  <2>3. a < c
    BY <2>2
  <2> QED  BY <2>3 DEF a, c
<1>3. p < q + 1
  <2>1. q + 1 \in Int
    BY <1>1
  <2> QED  BY <1>1, <1>2, <2>1, ProductsCompare
<1>4. p <= q
  BY <1>1, <1>3
<1> QED  BY <1>4 DEF p, q

\* A share of a whole is between nothing and all of it, and grows with what it
\* is the share of.
LEMMA Shares ==
  ASSUME NEW n \in Nat, NEW d \in Nat
  PROVE  /\ d = 0 => FromRatio(n, d) = None
         /\ d # 0 => FromRatio(n, d) \in Nat /\ Stated(FromRatio(n, d))
         /\ d # 0 /\ n <= d => FromRatio(n, d) \in 0..Whole
         /\ \A m \in Nat : d # 0 /\ m <= n => FromRatio(m, d) <= FromRatio(n, d)
<1>1. d = 0 => FromRatio(n, d) = None
  BY DEF FromRatio
<1>2. ASSUME d # 0 PROVE FromRatio(n, d) = (n * Whole) \div d
  BY <1>2 DEF FromRatio
<1>3. n * Whole \in Nat /\ d * Whole \in Nat
  BY DEF Whole
<1>4. ASSUME d # 0 PROVE FromRatio(n, d) \in Nat /\ Stated(FromRatio(n, d))
  <2>1. FromRatio(n, d) \in Nat
    BY <1>2, <1>3, <1>4, Quotient
  <2> QED  BY <2>1, NoneAssumption DEF Stated
<1>5. ASSUME NEW m \in Nat, d # 0, m <= n PROVE FromRatio(m, d) <= FromRatio(n, d)
  <2>1. m * Whole \in Nat /\ m * Whole <= n * Whole
    BY <1>5 DEF Whole
  <2>2. FromRatio(m, d) = (m * Whole) \div d
    BY <1>5 DEF FromRatio
  <2>3. (m * Whole) \div d <= (n * Whole) \div d
    BY <1>3, <1>5, <2>1, QuotientsCompare
  <2> QED  BY <1>2, <1>5, <2>2, <2>3
<1>6. ASSUME d # 0, n <= d PROVE FromRatio(n, d) \in 0..Whole
  <2>1. n * Whole <= d * Whole
    BY <1>6 DEF Whole
  <2>2. (n * Whole) \div d <= (d * Whole) \div d
    BY <1>3, <1>6, <2>1, QuotientsCompare
  <2>3. (d * Whole) \div d = Whole
    BY <1>6 DEF Whole
  <2>4. Whole \in Nat
    BY DEF Whole
  <2> QED  BY <1>2, <1>4, <1>6, <2>2, <2>3, <2>4
<1> QED  BY <1>1, <1>4, <1>5, <1>6

\* A bag of runs.
IsLog(log) == log \in [DOMAIN log -> Nat \ {0}] /\ DOMAIN log \subseteq Runs /\ IsFiniteSet(DOMAIN log)

LEMMA SumIsNat ==
  ASSUME NEW D, IsFiniteSet(D), NEW f, \A x \in D : f[x] \in Nat, NEW T \in SUBSET D
  PROVE  /\ SumFunctionOnSet(f, T) \in Nat
         /\ SumFunctionOnSet(f, T) <= SumFunctionOnSet(f, D)
<1>1. ASSUME NEW S \in SUBSET D PROVE SumFunctionOnSet(f, S) \in Nat
  <2> DEFINE none == [x \in S |-> 0]
             F    == SumFunctionOnSet(f, S)
  <2>1. IsFiniteSet(S)
    BY FS_Subset
  <2>2. SumFunctionOnSet(none, S) = 0
    BY <2>1, SumOfZeros
  <2>3. SumFunctionOnSet(none, S) <= F
    BY <2>1, SumIsMonotone
  <2>4. F \in Int
    BY SumGrows
  <2> HIDE DEF none, F
  <2>5. F \in Nat
    BY <2>2, <2>3, <2>4
  <2> QED  BY <2>5 DEF F
<1>2. SumFunctionOnSet(f, D) = SumFunctionOnSet(f, T) + SumFunctionOnSet(f, D \ T)
  BY SumOfParts
<1>3. SumFunctionOnSet(f, T) \in Nat /\ SumFunctionOnSet(f, D \ T) \in Nat
  BY <1>1
<1> QED  BY <1>2, <1>3

LEMMA RunsAreCounted ==
  ASSUME NEW log, IsLog(log)
  PROVE  /\ \A S \in SUBSET DOMAIN log : HowMany(log, S) \in Nat /\ HowMany(log, S) <= HowMany(log, DOMAIN log)
         /\ \A field \in {"candidates", "new", "updated", "errors"} : Total(log, field) \in Nat
<1>1. ASSUME NEW S \in SUBSET DOMAIN log
      PROVE  HowMany(log, S) \in Nat /\ HowMany(log, S) <= HowMany(log, DOMAIN log)
  BY SumIsNat DEF IsLog, HowMany
<1>2. ASSUME NEW field \in {"candidates", "new", "updated", "errors"}
      PROVE  Total(log, field) \in Nat
  <2> DEFINE f == [r \in DOMAIN log |-> log[r] * r[field]]
  <2>1. ASSUME NEW r \in DOMAIN log PROVE f[r] \in Nat
    <3>1. log[r] \in Nat /\ r \in Runs
      BY DEF IsLog
    <3>2. r[field] \in Nat
      BY <3>1 DEF Runs
    <3>3. \A a, b \in Nat : a * b \in Nat
      OBVIOUS
    <3> QED  BY <3>1, <3>2, <3>3
  <2>2. DOMAIN f = DOMAIN log /\ IsFiniteSet(DOMAIN log)
    BY DEF IsLog
  <2> HIDE DEF f
  <2>3. SumFunctionOnSet(f, DOMAIN f) \in Nat
    BY <2>1, <2>2, SumIsNat
  <2> QED  BY <2>3 DEF Total, SumFunction, f
<1> QED  BY <1>1, <1>2

IsRate(rate) == rate = None \/ (rate \in Nat /\ Stated(rate))

IsShare(rate) == rate = None \/ (rate \in 0..Whole /\ Stated(rate))

\* The numbers of a source, whatever its log is.
AreStats(s) ==
  /\ \A field \in {"runs", "successful", "failed", "candidates", "new", "updated", "errors"} :
       s.counters[field] \in Nat
  /\ s.unique \in Nat
  /\ IsShare(s.stale) /\ IsShare(s.parse) /\ IsShare(s.failure) /\ IsRate(s.limited) /\ IsRate(s.perFind)

LEMMA SharesOf ==
  ASSUME NEW n \in Nat, NEW d \in Nat
  PROVE  IsRate(FromRatio(n, d)) /\ (n <= d => IsShare(FromRatio(n, d)))
BY Shares DEF IsRate, IsShare

LEMMA EmptyBagAddsNothing ==
  ASSUME NEW log, IsLog(log)
  PROVE  log (+) EmptyBag = log
<1>1. DOMAIN EmptyBag = {}
  BY DEF EmptyBag, SetToBag
<1>2. log = [r \in DOMAIN log |-> log[r]] /\ \A r \in DOMAIN log : log[r] \in Nat
  BY DEF IsLog
<1> HIDE DEF EmptyBag
<1>3. log (+) EmptyBag = [r \in DOMAIN log |-> log[r] + 0]
  BY <1>1 DEF (+)
<1>4. \A r \in DOMAIN log : log[r] + 0 = log[r]
  BY <1>2
<1> QED  BY <1>2, <1>3, <1>4

LEMMA StatsAreSane ==
  ASSUME NEW log, NEW later, NEW unique \in Nat, IsLog(log), IsLog(log (+) later)
  PROVE  LET s == SourceStats(log, later, unique)
         IN AreStats(s) /\ (later = EmptyBag => IsShare(s.limited))
<1> DEFINE s == SourceStats(log, later, unique)
           c == RunCounters(log)
           useful == c.new + c.updated
           wasted == Max2(c.candidates - useful, 0)
           incidents == RateLimitIncidents(log (+) later)
<1>1. /\ c.runs = HowMany(log, DOMAIN log)
      /\ c.successful = HowMany(log, {r \in DOMAIN log : r.outcome = "SUCCESS"})
      /\ c.failed = HowMany(log, {r \in DOMAIN log : r.outcome = "FAILED"})
      /\ c.candidates = Total(log, "candidates") /\ c.new = Total(log, "new")
      /\ c.updated = Total(log, "updated") /\ c.errors = Total(log, "errors")
  BY DEF RunCounters
<1>2. /\ c.runs \in Nat /\ c.successful \in Nat /\ c.failed \in Nat /\ c.failed <= c.runs
  <2>1. {r \in DOMAIN log : r.outcome = "FAILED"} \in SUBSET DOMAIN log /\ DOMAIN log \in SUBSET DOMAIN log
        /\ {r \in DOMAIN log : r.outcome = "SUCCESS"} \in SUBSET DOMAIN log
    OBVIOUS
  <2> HIDE DEF c
  <2> QED  BY <1>1, <2>1, RunsAreCounted
<1>3. /\ c.candidates \in Nat /\ c.new \in Nat /\ c.updated \in Nat /\ c.errors \in Nat
  <2> HIDE DEF c
  <2> QED  BY <1>1, RunsAreCounted
<1>4. incidents \in Nat
  <2> DEFINE all == log (+) later
  <2>1. {r \in DOMAIN all : r.limited} \in SUBSET DOMAIN all
    OBVIOUS
  <2> HIDE DEF all
  <2>2. HowMany(all, {r \in DOMAIN all : r.limited}) \in Nat
    BY <2>1, RunsAreCounted DEF all
  <2> QED  BY <2>2 DEF RateLimitIncidents, all
<1>5. ASSUME later = EmptyBag PROVE incidents <= c.runs
  <2>1. {r \in DOMAIN log : r.limited} \in SUBSET DOMAIN log
    OBVIOUS
  <2>2. HowMany(log, {r \in DOMAIN log : r.limited}) <= c.runs
    <3> HIDE DEF c
    <3> QED  BY <1>1, <2>1, RunsAreCounted
  <2>3. incidents = HowMany(log, {r \in DOMAIN log : r.limited})
    BY <1>5, EmptyBagAddsNothing DEF RateLimitIncidents
  <2> HIDE DEF incidents, c
  <2> QED  BY <2>2, <2>3
<1> HIDE DEF incidents
<1>6. /\ s.counters = c /\ s.unique = unique
      /\ s.stale = FromRatio(wasted, c.candidates)
      /\ s.parse = FromRatio(c.errors, c.candidates + c.errors)
      /\ s.perFind = FromRatio(c.runs, useful)
      /\ s.limited = FromRatio(incidents, c.runs)
      /\ s.failure = FromRatio(c.failed, c.runs)
  BY DEF SourceStats, ParseFailureRate, incidents
<1> HIDE DEF c, s
<1>7. useful \in Nat /\ wasted \in Nat /\ wasted <= c.candidates
      /\ c.candidates + c.errors \in Nat /\ c.errors <= c.candidates + c.errors
  BY <1>3 DEF Max2
<1> HIDE DEF useful, wasted
<1>8. IsShare(s.stale) /\ IsShare(s.parse) /\ IsShare(s.failure) /\ IsRate(s.limited) /\ IsRate(s.perFind)
  BY <1>2, <1>3, <1>4, <1>6, <1>7, SharesOf
<1>9. later = EmptyBag => IsShare(s.limited)
  BY <1>2, <1>4, <1>5, <1>6, SharesOf
<1>10. AreStats(s)
  BY <1>2, <1>3, <1>6, <1>8 DEF AreStats
<1> QED  BY <1>9, <1>10 DEF s

\* Advice for whatever the numbers of a source are shows in its score.
LEMMA AdviceShows ==
  ASSUME NEW s, AreStats(s)
  PROVE  /\ ShouldDegrade(s) # "None" => QualityScore(s) < 100
         /\ ShouldDegrade(s) = "Disable" => QualityScore(s) <= 80
<1> DEFINE parse   == Penalty(s.parse, 40)
           failure == Penalty(s.failure, 25)
           limited == Penalty(s.limited, 20)
           stale   == Penalty(s.stale, 10)
           never   == IF EverSucceeded(s) THEN 0 ELSE -30
           barren  == IF ProducedAnything(s) THEN 0 ELSE -20
           waste   == WastefulPenalty(s)
<1>1. ASSUME NEW rate, IsRate(rate), NEW budget \in {10, 20, 25, 40}
      PROVE  /\ Penalty(rate, budget) \in Int /\ Penalty(rate, budget) <= 0
             /\ \A level \in {2000, 5000, 8000} :
                  AtLeast(rate, level) => Penalty(rate, budget) <= -((level * budget) \div 10000)
  <2>1. CASE rate = None
    BY <2>1 DEF Penalty, AtLeast, Stated
  <2>2. CASE rate \in Nat /\ Stated(rate)
    <3>1. Penalty(rate, budget) = -((rate * budget) \div 10000)
      BY <2>2 DEF Penalty, Scale, Whole
    <3>2. (rate * budget) \div 10000 \in Nat
      BY <2>2
    <3>3. \A level \in {2000, 5000, 8000} :
            AtLeast(rate, level) => (level * budget) \div 10000 <= (rate * budget) \div 10000
      BY <2>2 DEF AtLeast
    <3>4. \A level \in {2000, 5000, 8000} : (level * budget) \div 10000 \in Int
      OBVIOUS
    <3> DEFINE lost == (rate * budget) \div 10000
               Least(level) == (level * budget) \div 10000
    <3>5. /\ lost \in Nat
          /\ \A level \in {2000, 5000, 8000} : Least(level) \in Int /\ (AtLeast(rate, level) => Least(level) <= lost)
      BY <3>2, <3>3, <3>4
    <3> HIDE DEF lost, Least
    <3>6. /\ -lost \in Int /\ -lost <= 0
          /\ \A level \in {2000, 5000, 8000} : AtLeast(rate, level) => -lost <= -Least(level)
      BY <3>5
    <3> QED  BY <3>1, <3>6 DEF lost, Least
  <2> QED  BY <1>1, <2>1, <2>2 DEF IsRate
<1>2. IsRate(s.stale) /\ IsRate(s.parse) /\ IsRate(s.failure) /\ IsRate(s.limited) /\ IsRate(s.perFind)
  <2>1. \A x : IsShare(x) => IsRate(x)
    <3>1. \A x \in 0..Whole : x \in Nat
      OBVIOUS
    <3> QED  BY <3>1, Zenon DEF IsShare, IsRate
  <2> QED  BY <2>1, Zenon DEF AreStats
<1>3. /\ parse \in Int /\ failure \in Int /\ limited \in Int /\ stale \in Int
      /\ parse <= 0 /\ failure <= 0 /\ limited <= 0 /\ stale <= 0
  BY <1>1, <1>2
<1>4. /\ AtLeast(s.parse, 5000) => parse <= -20
      /\ AtLeast(s.parse, 2000) => parse <= -8
      /\ AtLeast(s.failure, 8000) => failure <= -20
      /\ AtLeast(s.limited, 2000) => limited <= -4
  <2>1. /\ AtLeast(s.parse, 5000) => parse <= -((5000 * 40) \div 10000)
        /\ AtLeast(s.parse, 2000) => parse <= -((2000 * 40) \div 10000)
        /\ AtLeast(s.failure, 8000) => failure <= -((8000 * 25) \div 10000)
        /\ AtLeast(s.limited, 2000) => limited <= -((2000 * 20) \div 10000)
    BY <1>1, <1>2
  <2> QED  BY <2>1
<1>5. /\ never \in Int /\ never <= 0 /\ (~EverSucceeded(s) => never <= -30)
      /\ barren \in Int /\ barren <= 0 /\ (~ProducedAnything(s) => barren <= -20)
  OBVIOUS
<1>6. waste \in Int /\ waste <= 0 /\ (AtLeast(s.perFind, 100 * Whole) => waste <= -10)
  <2>1. AtLeast(s.perFind, 100 * Whole) => AtLeast(s.perFind, 50 * Whole)
    <3> DEFINE p == s.perFind
    <3>1. Stated(p) => p \in Nat
      BY <1>2 DEF IsRate, Stated
    <3> HIDE DEF p
    <3>2. Stated(p) /\ p >= 1000000 => p >= 500000
      BY <3>1
    <3>3. 100 * Whole = 1000000 /\ 50 * Whole = 500000
      BY DEF Whole
    <3> QED  BY <3>2, <3>3 DEF AtLeast, p
  <2>2. waste = IF AtLeast(s.perFind, 50 * Whole) THEN -10 ELSE 0
    BY DEF WastefulPenalty
  <2> HIDE DEF waste
  <2> QED  BY <2>1, <2>2
<1>7. QualityScore(s) = IF s.counters.runs < MinRunsForJudgement THEN 100
                        ELSE 100 + parse + failure + limited + stale + never + barren + waste
  BY DEF QualityScore
<1> HIDE DEF parse, failure, limited, stale, never, barren, waste
<1> DEFINE loss == parse + failure + limited + stale + never + barren + waste
<1>8. loss \in Int /\ loss <= parse /\ loss <= failure /\ loss <= limited /\ loss <= never /\ loss <= barren
      /\ loss <= waste
  BY <1>3, <1>5, <1>6
<1>9. 100 + parse + failure + limited + stale + never + barren + waste = 100 + loss
  BY <1>3, <1>5, <1>6
<1> HIDE DEF loss
<1>10. CASE s.counters.runs < MinRunsForJudgement
  BY <1>10 DEF ShouldDegrade
<1>11. CASE ~(s.counters.runs < MinRunsForJudgement)
  <2>1. QualityScore(s) = 100 + loss
    BY <1>7, <1>9, <1>11
  <2>2. ASSUME ShouldDegrade(s) = "Disable" PROVE loss <= -20
    <3>1. AtLeast(s.parse, 5000) \/ ~EverSucceeded(s) \/ AtLeast(s.failure, 8000)
      BY <2>2 DEF ShouldDegrade
    <3> QED  BY <1>3, <1>4, <1>5, <1>8, <3>1
  <2>3. ASSUME ShouldDegrade(s) # "None" PROVE loss < 0
    <3>1. \/ AtLeast(s.parse, 5000) \/ ~EverSucceeded(s) \/ AtLeast(s.failure, 8000)
          \/ AtLeast(s.limited, 2000) \/ AtLeast(s.parse, 2000)
          \/ ~ProducedAnything(s) \/ AtLeast(s.perFind, 100 * Whole)
      BY <2>3 DEF ShouldDegrade
    <3> QED  BY <1>3, <1>4, <1>5, <1>6, <1>8, <3>1
  <2> QED  BY <1>8, <2>1, <2>2, <2>3
<1> QED  BY <1>10, <1>11


\* How often a run is in a bag.
TimesIn(log, r) == IF r \in DOMAIN log THEN log[r] ELSE 0

LEMMA TimesAreCounted ==
  ASSUME NEW log, IsLog(log), NEW r
  PROVE  /\ TimesIn(log, r) \in Nat
         /\ r \in DOMAIN log => log[r] \in Nat \ {0} /\ TimesIn(log, r) = log[r]
         /\ r \notin DOMAIN log => TimesIn(log, r) = 0
BY DEF IsLog, TimesIn

LEMMA CountedOverMore ==
  ASSUME NEW log, IsLog(log), NEW D, IsFiniteSet(D), DOMAIN log \subseteq D, NEW S
  PROVE  HowMany(log, {x \in DOMAIN log : x \in S})
           = SumFunctionOnSet([x \in D |-> IF x \in S THEN TimesIn(log, x) ELSE 0], D)
<1> DEFINE g == [x \in D |-> IF x \in S THEN TimesIn(log, x) ELSE 0]
           T == {x \in DOMAIN log : x \in S}
<1>1. \A x \in T : log[x] \in Int /\ g[x] = log[x]
  BY TimesAreCounted
<1>2. \A x \in D \ T : g[x] = 0
  BY TimesAreCounted
<1>3. T \in SUBSET D
  OBVIOUS
<1> HIDE DEF g, T
<1>4. SumFunctionOnSet(log, T) = SumFunctionOnSet(g, D)
  BY <1>1, <1>2, <1>3, SumOverThePart
<1> QED  BY <1>4 DEF HowMany, g, T

LEMMA TotalOverMore ==
  ASSUME NEW log, IsLog(log), NEW D \in SUBSET Runs, IsFiniteSet(D), DOMAIN log \subseteq D,
         NEW field \in {"candidates", "new", "updated", "errors"}
  PROVE  Total(log, field) = SumFunctionOnSet([x \in D |-> TimesIn(log, x) * x[field]], D)
<1> DEFINE f == [x \in DOMAIN log |-> log[x] * x[field]]
           g == [x \in D |-> TimesIn(log, x) * x[field]]
           T == DOMAIN log
<1>1. \A x \in D : x[field] \in Nat
  BY DEF Runs
<1>2. \A m, n \in Nat : m * n \in Int /\ 0 * n = 0
  OBVIOUS
<1>3. ASSUME NEW x \in T PROVE f[x] \in Int /\ g[x] = f[x]
  <2>1. log[x] \in Nat /\ TimesIn(log, x) = log[x]
    BY TimesAreCounted
  <2> QED  BY <1>1, <1>2, <2>1
<1>4. ASSUME NEW x \in D \ T PROVE g[x] = 0
  <2>1. TimesIn(log, x) = 0
    BY TimesAreCounted
  <2> QED  BY <1>1, <1>2, <2>1
<1>5. T \in SUBSET D /\ DOMAIN f = T
  OBVIOUS
<1> HIDE DEF f, g
<1>6. SumFunctionOnSet(f, T) = SumFunctionOnSet(g, D)
  BY <1>3, <1>4, <1>5, SumOverThePart
<1> QED  BY <1>5, <1>6 DEF Total, SumFunction, f, g

LEMMA LogsAdd ==
  ASSUME NEW log, IsLog(log), NEW S \in SUBSET Runs, IsFiniteSet(S)
  PROVE  /\ IsLog(log (+) SetToBag(S))
         /\ DOMAIN (log (+) SetToBag(S)) = DOMAIN log \union S
         /\ \A x : TimesIn(log (+) SetToBag(S), x) = TimesIn(log, x) + (IF x \in S THEN 1 ELSE 0)
<1> DEFINE more == log (+) SetToBag(S)
<1>1. \A x \in DOMAIN log : log[x] \in Nat \ {0}
  BY TimesAreCounted
<1>2. more = [x \in DOMAIN log \union S |->
                (IF x \in DOMAIN log THEN log[x] ELSE 0) + (IF x \in S THEN 1 ELSE 0)]
  BY DEF (+), SetToBag
<1> HIDE DEF more
<1>3. DOMAIN more = DOMAIN log \union S /\ more = [x \in DOMAIN more |-> more[x]]
  BY <1>2
<1>4. ASSUME NEW x PROVE TimesIn(more, x) = TimesIn(log, x) + (IF x \in S THEN 1 ELSE 0)
  BY <1>1, <1>2 DEF TimesIn
<1>5. \A x \in DOMAIN more : more[x] \in Nat \ {0}
  BY <1>1, <1>2
<1>6. DOMAIN more \subseteq Runs /\ IsFiniteSet(DOMAIN more)
  <2>1. IsFiniteSet(DOMAIN log) /\ DOMAIN log \subseteq Runs
    BY DEF IsLog
  <2>2. IsFiniteSet(DOMAIN log \union S)
    BY <2>1, FS_Union
  <2>3. DOMAIN log \union S \subseteq Runs
    BY <2>1
  <2> QED  BY <1>3, <2>2, <2>3
<1>7. more \in [DOMAIN more -> Nat \ {0}]
  BY <1>3, <1>5, Zenon
<1> QED  BY <1>3, <1>4, <1>6, <1>7 DEF IsLog, more

LEMMA LogsLose ==
  ASSUME NEW log, IsLog(log), NEW r \in DOMAIN log
  PROVE  /\ IsLog(log (-) SetToBag({r}))
         /\ DOMAIN (log (-) SetToBag({r})) \subseteq DOMAIN log
         /\ \A x : TimesIn(log (-) SetToBag({r}), x) = TimesIn(log, x) - (IF x = r THEN 1 ELSE 0)
<1> DEFINE less == log (-) SetToBag({r})
           left == [x \in DOMAIN log |-> IF x = r THEN log[x] - 1 ELSE log[x]]
<1>1. \A x \in DOMAIN log : log[x] \in Nat \ {0}
  BY TimesAreCounted
<1>2. less = [x \in {d \in DOMAIN left : left[d] > 0} |-> left[x]]
  BY DEF (-), SetToBag
<1>3. DOMAIN left = DOMAIN log /\ \A x \in DOMAIN log : left[x] \in Nat
  BY <1>1
<1>4. left[r] = log[r] - 1 /\ \A x \in DOMAIN log : x # r => left[x] = log[x]
  OBVIOUS
<1> HIDE DEF less, left
<1>5. /\ DOMAIN less = {d \in DOMAIN log : left[d] > 0} /\ less = [x \in DOMAIN less |-> less[x]]
      /\ \A x \in DOMAIN less : less[x] = left[x] /\ left[x] > 0
  BY <1>2, <1>3
<1>6. \A x \in DOMAIN less : less[x] \in Nat \ {0}
  BY <1>3, <1>5
<1>7. less \in [DOMAIN less -> Nat \ {0}]
  BY <1>5, <1>6
<1>8. DOMAIN less \subseteq DOMAIN log /\ IsFiniteSet(DOMAIN less)
  BY <1>5, FS_Subset DEF IsLog
<1>9. ASSUME NEW x PROVE TimesIn(less, x) = TimesIn(log, x) - (IF x = r THEN 1 ELSE 0)
  <2>1. CASE x \in DOMAIN less
    <3>1. TimesIn(less, x) = left[x] /\ TimesIn(log, x) = log[x] /\ x \in DOMAIN log
      BY <1>5, <2>1 DEF TimesIn
    <3> QED  BY <1>1, <1>4, <3>1
  <2>2. CASE x \in DOMAIN log /\ x \notin DOMAIN less
    <3>1. left[x] = 0 /\ TimesIn(less, x) = 0 /\ TimesIn(log, x) = log[x]
      BY <1>3, <1>5, <2>2 DEF TimesIn
    <3>2. x = r
      BY <1>1, <1>4, <2>2, <3>1
    <3> QED  BY <1>1, <1>4, <3>1, <3>2
  <2>3. CASE x \notin DOMAIN log
    <3>1. x # r /\ TimesIn(less, x) = 0 /\ TimesIn(log, x) = 0
      BY <1>8, <2>3 DEF TimesIn
    <3>2. (IF x = r THEN 1 ELSE 0) = 0
      BY <3>1, Zenon
    <3>3. 0 = 0 - 0
      OBVIOUS
    <3> QED  BY <3>1, <3>2, <3>3, Zenon
  <2> QED  BY <2>1, <2>2, <2>3
<1> QED  BY <1>7, <1>8, <1>9 DEF IsLog, less

\* One run more or less changes the counts it is part of and no total it adds
\* nothing to.
LEMMA CountsShift ==
  ASSUME NEW a, NEW b, IsLog(a), IsLog(b), NEW y \in Runs, NEW d \in Int,
         DOMAIN b \subseteq DOMAIN a \union {y},
         \A x : TimesIn(b, x) = TimesIn(a, x) + (IF x = y THEN d ELSE 0)
  PROVE  /\ \A S : HowMany(b, {x \in DOMAIN b : x \in S})
                     = HowMany(a, {x \in DOMAIN a : x \in S}) + (IF y \in S THEN d ELSE 0)
         /\ \A field \in {"candidates", "new", "updated", "errors"} : y[field] = 0 => Total(b, field) = Total(a, field)
<1> DEFINE D == DOMAIN a \union {y}
<1>1. D \in SUBSET Runs /\ IsFiniteSet(D) /\ DOMAIN a \subseteq D /\ DOMAIN b \subseteq D /\ y \in D
  BY FS_Singleton, FS_Union DEF IsLog
<1> HIDE DEF D
<1>2. \A x : TimesIn(a, x) \in Nat /\ TimesIn(b, x) \in Nat
  BY TimesAreCounted
<1>3. TimesIn(b, y) = TimesIn(a, y) + d /\ \A x : x # y => TimesIn(b, x) = TimesIn(a, x)
  <2>1. \A x : x # y => TimesIn(b, x) = TimesIn(a, x) + 0
    OBVIOUS
  <2> QED  BY <1>2, <2>1
<1>4. ASSUME NEW S
      PROVE  HowMany(b, {x \in DOMAIN b : x \in S})
               = HowMany(a, {x \in DOMAIN a : x \in S}) + (IF y \in S THEN d ELSE 0)
  <2> DEFINE f == [x \in D |-> IF x \in S THEN TimesIn(a, x) ELSE 0]
             g == [x \in D |-> IF x \in S THEN TimesIn(b, x) ELSE 0]
             e == IF y \in S THEN d ELSE 0
  <2>1. e \in Int /\ \A x \in D : f[x] \in Int
    BY <1>2
  <2>2. g[y] = f[y] + e /\ \A x \in D \ {y} : g[x] = f[x]
    BY <1>1, <1>2, <1>3
  <2>3. /\ HowMany(a, {x \in DOMAIN a : x \in S}) = SumFunctionOnSet(f, D)
        /\ HowMany(b, {x \in DOMAIN b : x \in S}) = SumFunctionOnSet(g, D)
    BY <1>1, CountedOverMore
  <2> HIDE DEF f, g, e
  <2>4. SumFunctionOnSet(g, D) = SumFunctionOnSet(f, D) + e
    BY <1>1, <2>1, <2>2, SumIsShifted
  <2> QED  BY <2>3, <2>4 DEF e
<1>5. ASSUME NEW field \in {"candidates", "new", "updated", "errors"}, y[field] = 0
      PROVE  Total(b, field) = Total(a, field)
  <2> DEFINE f == [x \in D |-> TimesIn(a, x) * x[field]]
             g == [x \in D |-> TimesIn(b, x) * x[field]]
  <2>1. \A x \in D : x[field] \in Nat
    BY <1>1 DEF Runs
  <2>2. \A m, n \in Nat : m * n \in Int /\ m * 0 = 0
    OBVIOUS
  <2>3. ASSUME NEW x \in D PROVE f[x] \in Int /\ g[x] = f[x]
    <3>1. f[x] = TimesIn(a, x) * x[field] /\ g[x] = TimesIn(b, x) * x[field]
      OBVIOUS
    <3>2. CASE x = y
      BY <1>2, <1>5, <2>2, <3>1, <3>2
    <3>3. CASE x # y
      BY <1>2, <1>3, <2>1, <2>2, <3>1, <3>3
    <3> QED  BY <3>2, <3>3
  <2>4. Total(a, field) = SumFunctionOnSet(f, D) /\ Total(b, field) = SumFunctionOnSet(g, D)
    BY <1>1, TotalOverMore
  <2> HIDE DEF f, g
  <2> QED  BY <1>1, <2>3, <2>4, SumOfTheSame
<1> QED  BY <1>4, <1>5

\* What becomes of the counters when a run that found nothing fails instead.
LEMMA FailureCounts ==
  ASSUME NEW log, IsLog(log), NEW r \in DOMAIN log, NEW limited \in BOOLEAN,
         r.candidates = 0, r.errors = 0, r.limited => limited
  PROVE  LET other == Replaced(log, r, FailedRun(limited))
             c     == RunCounters(log)
             w     == RunCounters(other)
         IN /\ IsLog(other)
            /\ w.runs = c.runs /\ w.successful <= c.successful /\ c.failed <= w.failed
            /\ w.candidates = c.candidates /\ w.new = c.new /\ w.updated = c.updated /\ w.errors = c.errors
            /\ RateLimitIncidents(log) <= RateLimitIncidents(other)
<1> DEFINE f     == FailedRun(limited)
           less  == log (-) SetToBag({r})
           other == less (+) SetToBag({f})
           Have(l, S) == HowMany(l, {x \in DOMAIN l : x \in S})
<1>1. r \in Runs /\ f \in Runs
  BY DEF IsLog, Runs, FailedRun
<1>2. /\ IsLog(less) /\ DOMAIN less \subseteq DOMAIN log \union {r}
      /\ \A x : TimesIn(less, x) = TimesIn(log, x) + (IF x = r THEN -1 ELSE 0)
  <2>1. /\ IsLog(less) /\ DOMAIN less \subseteq DOMAIN log
        /\ \A x : TimesIn(less, x) = TimesIn(log, x) - (IF x = r THEN 1 ELSE 0)
    BY LogsLose
  <2>2. ASSUME NEW x PROVE TimesIn(less, x) = TimesIn(log, x) + (IF x = r THEN -1 ELSE 0)
    <3>1. TimesIn(log, x) \in Nat
      BY TimesAreCounted
    <3>2. TimesIn(less, x) = TimesIn(log, x) - (IF x = r THEN 1 ELSE 0)
      BY <2>1
    <3> HIDE DEF less
    <3> QED  BY <3>1, <3>2
  <2> QED  BY <2>1, <2>2
<1> HIDE DEF less
<1>3. /\ IsLog(other) /\ DOMAIN other \subseteq DOMAIN less \union {f}
      /\ \A x : TimesIn(other, x) = TimesIn(less, x) + (IF x = f THEN 1 ELSE 0)
  <2>1. {f} \in SUBSET Runs /\ IsFiniteSet({f}) /\ \A x : x \in {f} <=> x = f
    BY <1>1, FS_Singleton
  <2> DEFINE S == {f}
  <2>2. \A x : x \in S <=> x = f
    BY <2>1
  <2>3. S \in SUBSET Runs /\ IsFiniteSet(S)
    BY <2>1
  <2> HIDE DEF f, S
  <2>4. /\ IsLog(less (+) SetToBag(S))
        /\ DOMAIN (less (+) SetToBag(S)) = DOMAIN less \union S
        /\ \A x : TimesIn(less (+) SetToBag(S), x) = TimesIn(less, x) + (IF x \in S THEN 1 ELSE 0)
    BY <1>2, <2>3, LogsAdd
  <2>5. other = less (+) SetToBag(S)
    BY DEF S
  <2> HIDE DEF other
  <2>6. IsLog(other) /\ DOMAIN other \subseteq DOMAIN less \union S
        /\ \A x : TimesIn(other, x) = TimesIn(less, x) + (IF x \in S THEN 1 ELSE 0)
    BY <2>4, <2>5
  <2>7. ASSUME NEW x PROVE TimesIn(other, x) = TimesIn(less, x) + (IF x = f THEN 1 ELSE 0)
    BY <2>2, <2>6
  <2>8. DOMAIN other \subseteq DOMAIN less \union {f}
    BY <2>6 DEF S
  <2> QED  BY <2>6, <2>7, <2>8
<1> HIDE DEF other
<1>4. \A field \in {"candidates", "new", "updated", "errors"} : Total(other, field) = Total(log, field)
  <2>1. \A field \in {"candidates", "new", "updated", "errors"} : r[field] = 0
    BY <1>1 DEF Runs
  <2>2. \A field \in {"candidates", "new", "updated", "errors"} : f[field] = 0
    BY DEF FailedRun
  <2> HIDE DEF f
  <2>3. \A field \in {"candidates", "new", "updated", "errors"} : Total(less, field) = Total(log, field)
    BY <1>1, <1>2, <2>1, CountsShift
  <2>4. \A field \in {"candidates", "new", "updated", "errors"} : Total(other, field) = Total(less, field)
    BY <1>1, <1>2, <1>3, <2>2, CountsShift
  <2> QED  BY <2>3, <2>4
<1>5. \A S : Have(other, S) = Have(log, S) + (IF r \in S THEN -1 ELSE 0) + (IF f \in S THEN 1 ELSE 0)
  <2> HIDE DEF f
  <2>1. \A S : Have(less, S) = Have(log, S) + (IF r \in S THEN -1 ELSE 0)
    BY <1>1, <1>2, CountsShift
  <2>2. \A S : Have(other, S) = Have(less, S) + (IF f \in S THEN 1 ELSE 0)
    BY <1>1, <1>2, <1>3, CountsShift
  <2> HIDE DEF Have
  <2> QED  BY <2>1, <2>2
<1>6. \A S : Have(log, S) \in Nat
  <2> SUFFICES ASSUME NEW S PROVE Have(log, S) \in Nat
    OBVIOUS
  <2>1. {x \in DOMAIN log : x \in S} \in SUBSET DOMAIN log
    OBVIOUS
  <2> QED  BY <2>1, RunsAreCounted
<1> DEFINE Good    == {x \in Runs : x.outcome = "SUCCESS"}
           Fail    == {x \in Runs : x.outcome = "FAILED"}
           Limited == {x \in Runs : x.limited}
<1>7. f \notin Good /\ f \in Fail /\ (r \in Limited => f \in Limited) /\ f \in Runs
  BY <1>1 DEF FailedRun
<1>8. ASSUME NEW l, IsLog(l)
      PROVE  /\ DOMAIN l = {x \in DOMAIN l : x \in Runs}
             /\ {x \in DOMAIN l : x.outcome = "SUCCESS"} = {x \in DOMAIN l : x \in Good}
             /\ {x \in DOMAIN l : x.outcome = "FAILED"} = {x \in DOMAIN l : x \in Fail}
             /\ {x \in DOMAIN l : x.limited} = {x \in DOMAIN l : x \in Limited}
  BY <1>8, Zenon DEF IsLog
<1>9. ASSUME NEW l, IsLog(l)
      PROVE  /\ RunCounters(l).runs = Have(l, Runs) /\ RunCounters(l).successful = Have(l, Good)
             /\ RunCounters(l).failed = Have(l, Fail) /\ RateLimitIncidents(l) = Have(l, Limited)
  <2> HIDE DEF Good, Fail, Limited
  <2>1. /\ RunCounters(l).runs = HowMany(l, DOMAIN l)
        /\ RunCounters(l).successful = HowMany(l, {x \in DOMAIN l : x.outcome = "SUCCESS"})
        /\ RunCounters(l).failed = HowMany(l, {x \in DOMAIN l : x.outcome = "FAILED"})
        /\ RateLimitIncidents(l) = HowMany(l, {x \in DOMAIN l : x.limited})
    BY DEF RunCounters, RateLimitIncidents
  <2>2. /\ HowMany(l, DOMAIN l) = HowMany(l, {x \in DOMAIN l : x \in Runs})
        /\ HowMany(l, {x \in DOMAIN l : x.outcome = "SUCCESS"}) = HowMany(l, {x \in DOMAIN l : x \in Good})
        /\ HowMany(l, {x \in DOMAIN l : x.outcome = "FAILED"}) = HowMany(l, {x \in DOMAIN l : x \in Fail})
        /\ HowMany(l, {x \in DOMAIN l : x.limited}) = HowMany(l, {x \in DOMAIN l : x \in Limited})
    BY <1>8, <1>9, Zenon
  <2> QED  BY <2>1, <2>2, Zenon
<1>10. ASSUME NEW l
       PROVE  /\ RunCounters(l).candidates = Total(l, "candidates") /\ RunCounters(l).new = Total(l, "new")
              /\ RunCounters(l).updated = Total(l, "updated") /\ RunCounters(l).errors = Total(l, "errors")
  BY DEF RunCounters
<1> HIDE DEF Have, Good, Fail, Limited, f
<1>11. Have(other, Runs) = Have(log, Runs)
  BY <1>1, <1>5, <1>6, <1>7
<1>12. Have(other, Good) <= Have(log, Good)
  BY <1>5, <1>6, <1>7
<1>13. Have(log, Fail) <= Have(other, Fail)
  BY <1>5, <1>6, <1>7
<1>14. Have(log, Limited) <= Have(other, Limited)
  BY <1>5, <1>6, <1>7
<1>15. other = Replaced(log, r, FailedRun(limited))
  BY DEF other, less, f, Replaced
<1> HIDE DEF RunCounters, RateLimitIncidents
<1> QED  BY <1>3, <1>4, <1>9, <1>10, <1>11, <1>12, <1>13, <1>14, <1>15

\* A rate that is no lower than another, of the same source.
Above(high, low) == high = low \/ (Stated(high) /\ Stated(low) /\ high \in Nat /\ low \in Nat /\ low <= high)

LEMMA AboveCosts ==
  ASSUME NEW high, NEW low, IsRate(high), IsRate(low), Above(high, low)
  PROVE  /\ \A budget \in {10, 20, 25, 40} :
              /\ Penalty(high, budget) \in Int /\ Penalty(low, budget) \in Int
              /\ Penalty(high, budget) <= Penalty(low, budget)
         /\ \A level \in Nat : AtLeast(low, level) => AtLeast(high, level)
<1>1. ASSUME NEW rate, IsRate(rate), NEW budget \in {10, 20, 25, 40}
      PROVE  Penalty(rate, budget) \in Int
  <2>1. rate \in Nat => (rate * budget) \div 10000 \in Int
    OBVIOUS
  <2>2. Penalty(rate, budget) = IF Stated(rate) THEN -((rate * budget) \div 10000) ELSE 0
    BY DEF Penalty, Scale, Whole
  <2>3. rate = None => ~Stated(rate)
    BY DEF Stated
  <2> QED  BY <1>1, <2>1, <2>2, <2>3 DEF IsRate
<1>2. CASE high = low
  <2>1. \A budget \in {10, 20, 25, 40} : Penalty(low, budget) <= Penalty(low, budget)
    BY <1>1
  <2> QED  BY <1>1, <1>2, <2>1
<1>3. CASE Stated(high) /\ Stated(low) /\ high \in Nat /\ low \in Nat /\ low <= high
  <2>1. ASSUME NEW budget \in {10, 20, 25, 40} PROVE Penalty(high, budget) <= Penalty(low, budget)
    <3> DEFINE h == (high * budget) \div 10000
               l == (low * budget) \div 10000
    <3>1. high * budget \in Nat /\ low * budget \in Nat /\ low * budget <= high * budget
      BY <1>3
    <3>2. l <= h
      <4> DEFINE m == low * budget
                 n == high * budget
      <4>1. m \in Nat /\ n \in Nat /\ m <= n
        BY <3>1
      <4> HIDE DEF m, n
      <4>2. m \div 10000 <= n \div 10000
        BY <4>1
      <4> QED  BY <4>2 DEF m, n
    <3>3. h \in Int /\ l \in Int
      BY <3>1
    <3>4. Penalty(high, budget) = -h /\ Penalty(low, budget) = -l
      BY <1>3 DEF Penalty, Scale, Whole
    <3> HIDE DEF h, l
    <3> QED  BY <3>2, <3>3, <3>4
  <2>2. ASSUME NEW level \in Nat, AtLeast(low, level) PROVE AtLeast(high, level)
    BY <1>3, <2>2 DEF AtLeast
  <2> QED  BY <1>1, <2>1, <2>2
<1> QED  BY <1>2, <1>3 DEF Above

\* A source that fails more, or is limited more, or succeeds less is told no better.
LEMMA WorseIsToldWorse ==
  ASSUME NEW s, NEW w, AreStats(s), AreStats(w),
         w.counters.runs = s.counters.runs, w.counters.new = s.counters.new,
         w.counters.updated = s.counters.updated, w.unique = s.unique,
         w.counters.successful <= s.counters.successful,
         w.stale = s.stale, w.parse = s.parse, w.perFind = s.perFind,
         Above(w.failure, s.failure), Above(w.limited, s.limited)
  PROVE  LET Severity == [None |-> 0, ReducePolling |-> 1, ManualReview |-> 1, Disable |-> 2]
         IN /\ QualityScore(w) <= QualityScore(s)
            /\ Severity[ShouldDegrade(w)] >= Severity[ShouldDegrade(s)]
<1> DEFINE Severity == [None |-> 0, ReducePolling |-> 1, ManualReview |-> 1, Disable |-> 2]
<1>1. IsRate(s.stale) /\ IsRate(s.parse) /\ IsRate(s.failure) /\ IsRate(s.limited) /\ IsRate(s.perFind)
      /\ IsRate(w.failure) /\ IsRate(w.limited)
  <2>1. \A x : IsShare(x) => IsRate(x)
    <3>1. \A x \in 0..Whole : x \in Nat
      OBVIOUS
    <3> QED  BY <3>1, Zenon DEF IsShare, IsRate
  <2> QED  BY <2>1, Zenon DEF AreStats
<1>2. EverSucceeded(w) => EverSucceeded(s)
  BY DEF EverSucceeded, AreStats
<1>3. ProducedAnything(w) <=> ProducedAnything(s)
  BY DEF ProducedAnything
<1>4. s.counters.runs \in Nat
  BY DEF AreStats
<1>5. /\ AtLeast(s.failure, 8000) => AtLeast(w.failure, 8000)
      /\ AtLeast(s.limited, 2000) => AtLeast(w.limited, 2000)
  BY <1>1, AboveCosts
<1>6. QualityScore(w) <= QualityScore(s)
  <2> DEFINE Never(x) == IF EverSucceeded(x) THEN 0 ELSE -30
             Barren(x) == IF ProducedAnything(x) THEN 0 ELSE -20
             Wasted(x) == WastefulPenalty(x)
  <2>1. \A x : /\ Never(x) \in Int /\ Barren(x) \in Int /\ Wasted(x) \in Int
    BY DEF WastefulPenalty
  <2>2. Never(w) <= Never(s) /\ Barren(w) = Barren(s)
    BY <1>2, <1>3
  <2>3. Wasted(w) = Wasted(s)
    BY <1>3 DEF WastefulPenalty
  <2>4. \A x : QualityScore(x) = IF x.counters.runs < MinRunsForJudgement THEN 100
                 ELSE 100 + Penalty(x.parse, 40) + Penalty(x.failure, 25) + Penalty(x.limited, 20) + Penalty(x.stale, 10)
                          + Never(x) + Barren(x) + Wasted(x)
    BY DEF QualityScore
  <2>5. /\ Penalty(s.parse, 40) \in Int /\ Penalty(s.stale, 10) \in Int
        /\ Penalty(s.failure, 25) \in Int /\ Penalty(w.failure, 25) \in Int /\ Penalty(w.failure, 25) <= Penalty(s.failure, 25)
        /\ Penalty(s.limited, 20) \in Int /\ Penalty(w.limited, 20) \in Int /\ Penalty(w.limited, 20) <= Penalty(s.limited, 20)
    <3>1. Above(s.parse, s.parse) /\ Above(s.stale, s.stale)
      BY DEF Above
    <3> QED  BY <1>1, <3>1, AboveCosts
  <2> HIDE DEF Never, Barren, Wasted
  <2>6. CASE s.counters.runs < MinRunsForJudgement
    <3>1. QualityScore(w) = 100 /\ QualityScore(s) = 100
      BY <2>4, <2>6
    <3> QED  BY <3>1
  <2>7. CASE ~(s.counters.runs < MinRunsForJudgement)
    <3>1. QualityScore(s) = 100 + Penalty(s.parse, 40) + Penalty(s.failure, 25) + Penalty(s.limited, 20)
                            + Penalty(s.stale, 10) + Never(s) + Barren(s) + Wasted(s)
      BY <2>4, <2>7
    <3>2. QualityScore(w) = 100 + Penalty(s.parse, 40) + Penalty(w.failure, 25) + Penalty(w.limited, 20)
                            + Penalty(s.stale, 10) + Never(w) + Barren(s) + Wasted(s)
      BY <2>2, <2>3, <2>4, <2>7
    <3> QED  BY <2>1, <2>2, <2>5, <3>1, <3>2
  <2> QED  BY <2>6, <2>7
<1>7. Severity[ShouldDegrade(w)] >= Severity[ShouldDegrade(s)]
  <2> DEFINE early == s.counters.runs < MinRunsForJudgement
             Gone(x) == AtLeast(x.parse, 5000) \/ ~EverSucceeded(x) \/ AtLeast(x.failure, 8000)
             Slow(x) == AtLeast(x.limited, 2000)
             Odder(x) == AtLeast(x.parse, 2000)
             Vain(x) == ~ProducedAnything(x) \/ AtLeast(x.perFind, 100 * Whole)
             Of(x) == IF early THEN "None" ELSE IF Gone(x) THEN "Disable" ELSE IF Slow(x) THEN "ReducePolling"
                      ELSE IF Odder(x) THEN "ManualReview" ELSE IF Vain(x) THEN "ReducePolling" ELSE "None"
  <2>1. ShouldDegrade(s) = Of(s) /\ ShouldDegrade(w) = Of(w)
    BY DEF ShouldDegrade
  <2>2. (Gone(s) => Gone(w)) /\ (Slow(s) => Slow(w)) /\ (Odder(s) => Odder(w)) /\ (Vain(s) => Vain(w))
    BY <1>2, <1>3, <1>5
  <2> HIDE DEF early, Gone, Slow, Odder, Vain
  <2>3. Of(w) \in {"None", "Disable", "ReducePolling", "ManualReview"}
    OBVIOUS
  <2>4. CASE Of(s) = "None"
    BY <2>1, <2>3, <2>4
  <2>5. CASE Of(s) = "Disable"
    <3>1. ~early /\ Gone(s)
      BY <2>5
    <3>2. Of(w) = "Disable"
      BY <2>2, <3>1
    <3> QED  BY <2>1, <2>5, <3>2
  <2>6. CASE Of(s) \in {"ReducePolling", "ManualReview"}
    <3>1. ~early /\ (Slow(s) \/ Odder(s) \/ Vain(s))
      BY <2>6
    <3>2. Of(w) # "None"
      BY <2>2, <3>1
    <3> QED  BY <2>1, <2>3, <2>6, <3>2
  <2>7. Of(s) \in {"None", "Disable", "ReducePolling", "ManualReview"}
    OBVIOUS
  <2> QED  BY <2>4, <2>5, <2>6, <2>7
<1> QED  BY <1>6, <1>7

\* A run of the log that had failed, or been limited on top, makes nothing better.
LEMMA FailureIsToldWorse ==
  ASSUME NEW log, IsLog(log), NEW unique \in Nat, NEW r \in DOMAIN log, NEW limited \in BOOLEAN,
         r.candidates = 0, r.errors = 0, r.limited => limited
  PROVE  LET Severity == [None |-> 0, ReducePolling |-> 1, ManualReview |-> 1, Disable |-> 2]
             s        == SourceStats(log, EmptyBag, unique)
             worse    == SourceStats(Replaced(log, r, FailedRun(limited)), EmptyBag, unique)
         IN /\ QualityScore(worse) <= QualityScore(s)
            /\ Severity[ShouldDegrade(worse)] >= Severity[ShouldDegrade(s)]
<1> DEFINE other == Replaced(log, r, FailedRun(limited))
           s     == SourceStats(log, EmptyBag, unique)
           w     == SourceStats(other, EmptyBag, unique)
           c     == RunCounters(log)
           d     == RunCounters(other)
           i     == RateLimitIncidents(log)
           j     == RateLimitIncidents(other)
<1>1. /\ IsLog(other)
      /\ d.runs = c.runs /\ d.successful <= c.successful /\ c.failed <= d.failed
      /\ d.candidates = c.candidates /\ d.new = c.new /\ d.updated = c.updated /\ d.errors = c.errors
      /\ i <= j
  BY FailureCounts
<1> HIDE DEF other
<1>2. log (+) EmptyBag = log /\ other (+) EmptyBag = other
  BY <1>1, EmptyBagAddsNothing
<1>3. AreStats(s) /\ AreStats(w)
  BY <1>1, <1>2, StatsAreSane
<1>4. /\ s.counters = c /\ s.unique = unique
      /\ s.stale = FromRatio(Max2(c.candidates - (c.new + c.updated), 0), c.candidates)
      /\ s.parse = FromRatio(c.errors, c.candidates + c.errors)
      /\ s.perFind = FromRatio(c.runs, c.new + c.updated)
      /\ s.limited = FromRatio(i, c.runs) /\ s.failure = FromRatio(c.failed, c.runs)
  BY <1>2 DEF SourceStats, ParseFailureRate
<1>5. /\ w.counters = d /\ w.unique = unique
      /\ w.stale = FromRatio(Max2(d.candidates - (d.new + d.updated), 0), d.candidates)
      /\ w.parse = FromRatio(d.errors, d.candidates + d.errors)
      /\ w.perFind = FromRatio(d.runs, d.new + d.updated)
      /\ w.limited = FromRatio(j, d.runs) /\ w.failure = FromRatio(d.failed, d.runs)
  BY <1>2 DEF SourceStats, ParseFailureRate
<1>6. i \in Nat /\ j \in Nat
  <2>1. ASSUME NEW l, IsLog(l) PROVE RateLimitIncidents(l) \in Nat
    <3>1. {x \in DOMAIN l : x.limited} \in SUBSET DOMAIN l
      OBVIOUS
    <3> QED  BY <2>1, <3>1, RunsAreCounted DEF RateLimitIncidents
  <2> QED  BY <1>1, <2>1
<1> HIDE DEF s, w, c, d, i, j
<1>7. c.runs \in Nat /\ c.failed \in Nat /\ d.failed \in Nat
  BY <1>3, <1>4, <1>5 DEF AreStats
<1>8. ASSUME NEW m \in Nat, NEW n \in Nat, m <= n PROVE Above(FromRatio(n, c.runs), FromRatio(m, c.runs))
  <2>1. CASE c.runs = 0
    BY <2>1, <1>7, <1>8, Shares DEF Above
  <2>2. CASE c.runs # 0
    BY <2>2, <1>7, <1>8, Shares DEF Above
  <2> QED  BY <2>1, <2>2
<1>9. Above(w.failure, s.failure) /\ Above(w.limited, s.limited)
  BY <1>1, <1>4, <1>5, <1>6, <1>7, <1>8
<1>10. w.stale = s.stale /\ w.parse = s.parse /\ w.perFind = s.perFind
  BY <1>1, <1>4, <1>5
<1>11. /\ w.counters.runs = s.counters.runs /\ w.counters.new = s.counters.new
       /\ w.counters.updated = s.counters.updated /\ w.unique = s.unique
       /\ w.counters.successful <= s.counters.successful
  BY <1>1, <1>4, <1>5
<1> QED  BY <1>3, <1>9, <1>10, <1>11, WorseIsToldWorse DEF s, w, other

\* Of finitely many numbers one is the least.
LEMMA LeastOf ==
  ASSUME NEW D, IsFiniteSet(D), D # {}, NEW f, \A x \in D : f[x] \in Int
  PROVE  \E m \in D : \A n \in D : f[m] <= f[n]
<1> DEFINE P == {T \in SUBSET D : T = {} \/ \E m \in T : \A n \in T : f[m] <= f[n]}
<1>1. ASSUME NEW T \in P, NEW x \in D \ T PROVE T \union {x} \in P
  <2>1. CASE T = {}
    <3>1. \A n \in T \union {x} : f[x] <= f[n]
      BY <2>1
    <3> QED  BY <3>1
  <2>2. CASE T # {}
    <3>1. PICK m \in T : \A n \in T : f[m] <= f[n]
      BY <2>2
    <3>2. f[m] \in Int /\ f[x] \in Int /\ \A n \in T : f[n] \in Int
      OBVIOUS
    <3>3. CASE f[m] <= f[x]
      <4>1. \A n \in T \union {x} : f[m] <= f[n]
        BY <3>1, <3>3
      <4> QED  BY <4>1
    <3>4. CASE ~(f[m] <= f[x])
      <4>1. \A n \in T \union {x} : f[x] <= f[n]
        BY <3>1, <3>2, <3>4
      <4> QED  BY <4>1
    <3> QED  BY <3>3, <3>4
  <2> QED  BY <2>1, <2>2
<1>2. {} \in P /\ P \in SUBSET SUBSET D
  OBVIOUS
<1> HIDE DEF P
<1>3. D \in P
  BY <1>1, <1>2, GrowsToTheWhole
<1> QED  BY <1>3 DEF P

LEMMA ImagesAreFinite ==
  ASSUME NEW D, IsFiniteSet(D), NEW f
  PROVE  IsFiniteSet({f[x] : x \in D})
<1> DEFINE g == [x \in D |-> f[x]]
           T == {f[x] : x \in D}
<1>1. g \in Surjection(D, T)
  BY DEF Surjection
<1> HIDE DEF g, T
<1>2. IsFiniteSet(T)
  BY <1>1, FS_Surjection
<1> QED  BY <1>2 DEF T

\* What is said of the rows of a sequence, said of the set of them.
FirstOf(R, voucher, source) ==
  CHOOSE t \in {r.at : r \in R} :
    /\ [voucher |-> voucher, source |-> source, at |-> t] \in R
    /\ \A r \in R : r.voucher = voucher /\ r.source = source => t <= r.at

SourcesIn(R, voucher) == {r.source : r \in {x \in R : x.voucher = voucher}}

WinnerOf(R, voucher) ==
  CHOOSE s \in SourcesIn(R, voucher) :
    \A o \in SourcesIn(R, voucher) \ {s} :
      \/ FirstOf(R, voucher, s) < FirstOf(R, voucher, o)
      \/ FirstOf(R, voucher, s) = FirstOf(R, voucher, o) /\ s < o

OthersOf(R, voucher) == {FirstOf(R, voucher, o) : o \in SourcesIn(R, voucher) \ {WinnerOf(R, voucher)}}

LeadOf(R, voucher) ==
  IF OthersOf(R, voucher) = {} THEN None
  ELSE Min(OthersOf(R, voucher)) - FirstOf(R, voucher, WinnerOf(R, voucher))

WonBy(R, s) == {v \in {r.voucher : r \in R} : WinnerOf(R, v) = s}

LedBy(R, s) == {v \in WonBy(R, s) : Stated(LeadOf(R, v))}

SummaryOf(R) ==
  [s \in {r.source : r \in R} |->
     [wins  |-> Cardinality(WonBy(R, s)),
      lead  |-> SumFunction([v \in LedBy(R, s) |-> LeadOf(R, v)]),
      sized |-> Cardinality(LedBy(R, s))]]

LEMMA SummaryIsOfTheSet ==
  ASSUME NEW rows
  PROVE  Summary(rows) = SummaryOf(Rows(rows))
BY DEF Summary, Lead, Winner, SourcesOf, FirstAt, SummaryOf, LedBy, WonBy, LeadOf, OthersOf, WinnerOf, SourcesIn, FirstOf

\* The rows that are told apart by a voucher, a source and a moment.
AreRows(R) ==
  /\ R \subseteq [voucher : {r.voucher : r \in R}, source : Int, at : Int]
  /\ IsFiniteSet(R)

LEMMA FirstIsFound ==
  ASSUME NEW R, AreRows(R), NEW v, NEW s \in SourcesIn(R, v)
  PROVE  /\ s \in Int /\ FirstOf(R, v, s) \in Int
         /\ [voucher |-> v, source |-> s, at |-> FirstOf(R, v, s)] \in R
         /\ \A r \in R : r.voucher = v /\ r.source = s => FirstOf(R, v, s) <= r.at
<1> DEFINE D == {r \in R : r.voucher = v /\ r.source = s}
           f == [r \in R |-> r.at]
           row(t) == [voucher |-> v, source |-> s, at |-> t]
<1>1. \A r \in R : r.at \in Int /\ r.source \in Int /\ r = [voucher |-> r.voucher, source |-> r.source, at |-> r.at]
  BY DEF AreRows
<1>2. IsFiniteSet(D) /\ D # {}
  <2>1. IsFiniteSet(D)
    BY FS_Subset DEF AreRows
  <2> QED  BY <2>1 DEF SourcesIn
<1>3. PICK m \in D : \A n \in D : f[m] <= f[n]
  <2>1. \A x \in D : f[x] \in Int
    BY <1>1
  <2> HIDE DEF D, f
  <2> QED  BY <1>2, <2>1, LeastOf
<1>4. /\ m.at \in {r.at : r \in R} /\ row(m.at) \in R
      /\ \A r \in R : r.voucher = v /\ r.source = s => m.at <= r.at
  <2>1. row(m.at) = m
    BY <1>1
  <2> QED  BY <1>3, <2>1
<1> HIDE DEF D, f, row
<1> DEFINE Fit(t) == row(t) \in R /\ \A r \in R : r.voucher = v /\ r.source = s => t <= r.at
           t == FirstOf(R, v, s)
<1>5. t = CHOOSE x \in {r.at : r \in R} : Fit(x)
  BY DEF FirstOf, row
<1>6. \E x \in {r.at : r \in R} : Fit(x)
  BY <1>4
<1> HIDE DEF Fit, t
<1>7. t \in {r.at : r \in R} /\ Fit(t)
  BY <1>5, <1>6, Zenon
<1>8. s \in Int
  BY <1>1 DEF SourcesIn
<1> QED  BY <1>1, <1>7, <1>8 DEF Fit, row, t

LEMMA WinnerIsFound ==
  ASSUME NEW R, AreRows(R), NEW v \in {r.voucher : r \in R}
  PROVE  /\ WinnerOf(R, v) \in SourcesIn(R, v)
         /\ \A o \in SourcesIn(R, v) : FirstOf(R, v, WinnerOf(R, v)) <= FirstOf(R, v, o)
<1> DEFINE S == SourcesIn(R, v)
           f == [s \in S |-> FirstOf(R, v, s)]
<1>1. S # {} /\ IsFiniteSet(S)
  <2> DEFINE A == {x \in R : x.voucher = v}
             g == [r \in R |-> r.source]
  <2>1. IsFiniteSet(A) /\ A # {}
    BY FS_Subset DEF AreRows
  <2>2. S = {g[x] : x \in A}
    BY DEF SourcesIn
  <2> HIDE DEF A, g, S
  <2>3. IsFiniteSet(S)
    BY <2>1, <2>2, ImagesAreFinite
  <2> QED  BY <2>1, <2>2, <2>3
<1>2. \A s \in S : s \in Int /\ f[s] \in Int /\ f[s] = FirstOf(R, v, s)
  BY FirstIsFound
<1> HIDE DEF f, S
<1>3. PICK m \in S : \A n \in S : f[m] <= f[n]
  BY <1>1, <1>2, LeastOf
<1> DEFINE E == {s \in S : f[s] = f[m]}
           g == [s \in S |-> s]
<1>4. IsFiniteSet(E) /\ E # {} /\ \A x \in E : g[x] \in Int
  <2>1. IsFiniteSet(E)
    BY <1>1, FS_Subset
  <2> QED  BY <1>2, <2>1
<1>5. PICK w \in E : \A o \in E : g[w] <= g[o]
  <2> HIDE DEF E, g
  <2> QED  BY <1>4, LeastOf
<1>6. w \in S /\ \A o \in S : f[w] <= f[o]
  BY <1>3, <1>5
<1>7. ASSUME NEW o \in S \ {w} PROVE f[w] < f[o] \/ (f[w] = f[o] /\ w < o)
  <2>1. f[w] = f[m] /\ f[w] \in Int /\ f[o] \in Int /\ w \in Int /\ o \in Int
    BY <1>2, <1>5
  <2>2. CASE f[o] = f[m]
    <3>1. w <= o /\ w # o
      BY <1>5, <2>2
    <3> QED  BY <2>1, <2>2, <3>1
  <2>3. CASE f[o] # f[m]
    BY <1>6, <2>1, <2>3
  <2> QED  BY <2>2, <2>3
<1> DEFINE Wins(s) == \A o \in S \ {s} : FirstOf(R, v, s) < FirstOf(R, v, o)
                                          \/ (FirstOf(R, v, s) = FirstOf(R, v, o) /\ s < o)
           won == WinnerOf(R, v)
<1>8. Wins(w)
  BY <1>2, <1>6, <1>7
<1>9. won = CHOOSE s \in S : Wins(s)
  BY DEF WinnerOf, S
<1> HIDE DEF Wins, won
<1>10. won \in S /\ Wins(won)
  BY <1>6, <1>8, <1>9, Zenon
<1>11. ASSUME NEW o \in S PROVE FirstOf(R, v, won) <= FirstOf(R, v, o)
  <2>1. FirstOf(R, v, won) \in Int /\ FirstOf(R, v, o) \in Int
    BY <1>2, <1>10
  <2>2. CASE o = won
    BY <2>1, <2>2
  <2>3. CASE o # won
    <3>1. FirstOf(R, v, won) < FirstOf(R, v, o) \/ FirstOf(R, v, won) = FirstOf(R, v, o)
      BY <1>10, <2>3 DEF Wins
    <3> QED  BY <2>1, <3>1
  <2> QED  BY <2>2, <2>3
<1> QED  BY <1>10, <1>11 DEF won, S

LEMMA LeadIsNoLoss ==
  ASSUME NEW R, AreRows(R), NEW v \in {r.voucher : r \in R}, Stated(LeadOf(R, v))
  PROVE  LeadOf(R, v) \in Nat
<1> DEFINE w == WinnerOf(R, v)
           S == SourcesIn(R, v)
           T == OthersOf(R, v)
           f == [s \in S |-> FirstOf(R, v, s)]
<1>1. w \in S /\ \A o \in S : FirstOf(R, v, w) <= FirstOf(R, v, o)
  BY WinnerIsFound
<1>2. \A s \in S : FirstOf(R, v, s) \in Int
  BY FirstIsFound
<1>3. LeadOf(R, v) = IF T = {} THEN None ELSE Min(T) - FirstOf(R, v, w)
  BY DEF LeadOf
<1>4. T # {}
  BY <1>3 DEF Stated
<1>5. T = {FirstOf(R, v, o) : o \in S \ {w}}
  BY DEF OthersOf
<1> HIDE DEF w, S, T
<1>6. Min(T) \in T
  <2> DEFINE D == S \ {w}
  <2>1. D # {} /\ T = {f[o] : o \in D} /\ \A x \in D : f[x] \in Int
    BY <1>2, <1>4, <1>5
  <2>2. IsFiniteSet(D)
    <3> DEFINE A == {x \in R : x.voucher = v}
               g == [r \in R |-> r.source]
    <3>1. IsFiniteSet(A) /\ S = {g[x] : x \in A}
      BY FS_Subset DEF AreRows, S, SourcesIn
    <3> HIDE DEF A, g
    <3>2. IsFiniteSet(S)
      BY <3>1, ImagesAreFinite
    <3> QED  BY <3>2, FS_Subset
  <2> HIDE DEF D, f
  <2>3. PICK m \in D : \A n \in D : f[m] <= f[n]
    BY <2>1, <2>2, LeastOf
  <2>4. f[m] \in T /\ \A t \in T : f[m] <= t
    BY <2>1, <2>3
  <2>5. \E t \in T : \A u \in T : t <= u
    BY <2>4
  <2>6. Min(T) = CHOOSE t \in T : \A u \in T : t <= u
    BY DEF Min
  <2> QED  BY <2>5, <2>6, Zenon
<1>7. PICK o \in S : Min(T) = FirstOf(R, v, o)
  BY <1>5, <1>6
<1> HIDE DEF f
<1>8. FirstOf(R, v, w) \in Int /\ Min(T) \in Int /\ FirstOf(R, v, w) <= Min(T)
  BY <1>1, <1>2, <1>7
<1>9. Min(T) - FirstOf(R, v, w) \in Nat
  BY <1>8
<1> QED  BY <1>3, <1>4, <1>9

\* Every voucher is won by one source, and no source wins more than it leads.
LEMMA SummaryAddsUp ==
  ASSUME NEW R, AreRows(R)
  PROVE  LET sums == SummaryOf(R)
         IN /\ SumFunction([s \in DOMAIN sums |-> sums[s].wins]) = Cardinality({r.voucher : r \in R})
            /\ \A s \in DOMAIN sums : sums[s].lead >= 0 /\ sums[s].sized <= sums[s].wins
<1> DEFINE V == {r.voucher : r \in R}
           S == {r.source : r \in R}
           sums == SummaryOf(R)
           f == [s \in S |-> Cardinality(WonBy(R, s))]
<1>1. IsFiniteSet(V) /\ IsFiniteSet(S)
  <2> DEFINE g == [r \in R |-> r.voucher]
             h == [r \in R |-> r.source]
  <2>1. V = {g[r] : r \in R} /\ S = {h[r] : r \in R}
    OBVIOUS
  <2> HIDE DEF g, h, V, S
  <2> QED  BY <2>1, ImagesAreFinite DEF AreRows
<1>2. DOMAIN sums = S /\ \A s \in S :
        /\ sums[s].wins = Cardinality(WonBy(R, s))
        /\ sums[s].lead = SumFunction([v \in LedBy(R, s) |-> LeadOf(R, v)])
        /\ sums[s].sized = Cardinality(LedBy(R, s))
  BY DEF SummaryOf
<1> HIDE DEF sums
<1>3. \A s : WonBy(R, s) = {v \in V : WinnerOf(R, v) = s}
  BY DEF WonBy
<1>4. \A s : IsFiniteSet(WonBy(R, s)) /\ IsFiniteSet(LedBy(R, s)) /\ Cardinality(LedBy(R, s)) <= Cardinality(WonBy(R, s))
  <2> SUFFICES ASSUME NEW s
               PROVE  IsFiniteSet(WonBy(R, s)) /\ IsFiniteSet(LedBy(R, s)) /\ Cardinality(LedBy(R, s)) <= Cardinality(WonBy(R, s))
    OBVIOUS
  <2>1. WonBy(R, s) \in SUBSET V /\ LedBy(R, s) \in SUBSET WonBy(R, s)
    BY <1>3 DEF LedBy
  <2> HIDE DEF V
  <2>2. IsFiniteSet(WonBy(R, s))
    BY <1>1, <2>1, FS_Subset
  <2> QED  BY <2>1, <2>2, FS_Subset
<1>5. \A v \in V : WinnerOf(R, v) \in S
  <2>1. \A v : SourcesIn(R, v) \subseteq S
    BY DEF SourcesIn
  <2> QED  BY <2>1, WinnerIsFound
<1>6. SumFunctionOnSet(f, S) = Cardinality(V)
  <2> DEFINE Won(T) == {v \in V : WinnerOf(R, v) \in T}
             P == {T \in SUBSET S : SumFunctionOnSet(f, T) = Cardinality(Won(T))}
  <2> HIDE DEF V, S
  <2>1. \A s \in S : f[s] \in Int /\ f[s] = Cardinality(WonBy(R, s))
    BY <1>4, FS_CardinalityType
  <2> HIDE DEF f
  <2>2. \A T : IsFiniteSet(Won(T)) /\ Cardinality(Won(T)) \in Int
    <3> SUFFICES ASSUME NEW T PROVE IsFiniteSet(Won(T)) /\ Cardinality(Won(T)) \in Int
      OBVIOUS
    <3>1. Won(T) \in SUBSET V
      OBVIOUS
    <3> HIDE DEF Won
    <3>2. IsFiniteSet(Won(T))
      BY <1>1, <3>1, FS_Subset
    <3> QED  BY <3>2, FS_CardinalityType
  <2>3. ASSUME NEW T \in P, NEW s \in S \ T PROVE T \union {s} \in P
    <3> DEFINE U == T \union {s}
               W == WonBy(R, s)
    <3>1. Won(U) = Won(T) \union W /\ Won(T) \cap W = {}
      BY <1>3
    <3>2. IsFiniteSet(Won(T)) /\ IsFiniteSet(W) /\ Cardinality(Won(T)) \in Int /\ Cardinality(W) \in Int
      <4> HIDE DEF Won
      <4>1. IsFiniteSet(W)
        BY <1>4
      <4> QED  BY <2>2, <4>1, FS_CardinalityType
    <3>3. SumFunctionOnSet(f, U) = f[s] + SumFunctionOnSet(f, T)
      BY <1>1, <2>1, SumGrows
    <3>4. SumFunctionOnSet(f, T) = Cardinality(Won(T)) /\ f[s] = Cardinality(W) /\ U \in SUBSET S
      BY <2>1
    <3> HIDE DEF Won, U, W
    <3>5. Cardinality(Won(U)) = Cardinality(Won(T)) + Cardinality(W) - Cardinality({})
      BY <3>1, <3>2, FS_Union
    <3>6. Cardinality({}) = 0
      BY FS_EmptySet
    <3>7. SumFunctionOnSet(f, U) = Cardinality(Won(U))
      BY <3>2, <3>3, <3>4, <3>5, <3>6
    <3> QED  BY <3>4, <3>7 DEF U
  <2>4. {} \in P
    <3>1. Won({}) = {}
      OBVIOUS
    <3>2. SumFunctionOnSet(f, {}) = 0 /\ Cardinality({}) = 0
      BY FS_EmptySet, SumUnfolds
    <3> HIDE DEF Won
    <3> QED  BY <3>1, <3>2
  <2>5. P \in SUBSET SUBSET S
    OBVIOUS
  <2> HIDE DEF P
  <2>6. S \in P
    BY <1>1, <2>3, <2>4, <2>5, GrowsToTheWhole
  <2>7. Won(S) = V
    BY <1>5
  <2> HIDE DEF Won
  <2> QED  BY <2>6, <2>7 DEF P
<1>7. SumFunction([s \in DOMAIN sums |-> sums[s].wins]) = Cardinality(V)
  <2>1. [s \in DOMAIN sums |-> sums[s].wins] = f /\ DOMAIN f = S
    BY <1>2
  <2> HIDE DEF f, V, S
  <2> QED  BY <1>6, <2>1 DEF SumFunction
<1>8. ASSUME NEW s \in S PROVE sums[s].lead >= 0 /\ sums[s].sized <= sums[s].wins
  <2> DEFINE L == LedBy(R, s)
             g == [v \in L |-> LeadOf(R, v)]
  <2>1. \A v \in L : g[v] \in Nat
    <3>1. \A v \in L : v \in V /\ Stated(LeadOf(R, v))
      BY <1>3 DEF LedBy
    <3> QED  BY <3>1, LeadIsNoLoss
  <2>2. IsFiniteSet(L) /\ DOMAIN g = L
    BY <1>4
  <2> HIDE DEF g, L
  <2>3. SumFunctionOnSet(g, L) \in Nat
    BY <2>1, <2>2, SumIsNat
  <2>4. sums[s].lead = SumFunctionOnSet(g, L)
    BY <1>2, <2>2 DEF SumFunction, g, L
  <2>5. sums[s].sized <= sums[s].wins
    BY <1>2, <1>4
  <2> QED  BY <2>3, <2>4, <2>5
<1> QED  BY <1>2, <1>7, <1>8 DEF sums

\* The summary of the rows of any log, in whatever order they are read.
LEMMA SummaryIsSound ==
  ASSUME NEW rows, rows \in Seq([voucher : {r.voucher : r \in Range(rows)}, source : Int, at : Int])
  PROVE  LET sums == Summary(rows)
         IN /\ SumFunction([s \in DOMAIN sums |-> sums[s].wins]) = Cardinality({r.voucher : r \in Rows(rows)})
            /\ \A s \in DOMAIN sums : sums[s].lead >= 0 /\ sums[s].sized <= sums[s].wins
            /\ Summary(Reverse(rows)) = sums
<1> DEFINE R == Rows(rows)
           n == Len(rows)
           C == [voucher : {r.voucher : r \in Range(rows)}, source : Int, at : Int]
<1>1. n \in Nat /\ DOMAIN rows = 1..n /\ \A i \in 1..n : rows[i] \in C
  <2>1. rows \in Seq(C)
    OBVIOUS
  <2> HIDE DEF C
  <2> QED  BY <2>1
<1>2. R = {rows[i] : i \in 1..n}
  BY <1>1 DEF Rows, ToSet
<1>3. AreRows(R)
  <2>1. IsFiniteSet(1..n)
    BY <1>1, FS_Interval
  <2>2. IsFiniteSet(R)
    <3> HIDE DEF R, n
    <3> QED  BY <1>2, <2>1, ImagesAreFinite
  <2>3. Range(rows) = R
    BY <1>1, <1>2 DEF Range
  <2>4. R \subseteq C
    BY <1>1, <1>2
  <2> QED  BY <2>2, <2>3, <2>4 DEF AreRows
<1>4. Rows(Reverse(rows)) = R
  <2> DEFINE back == Reverse(rows)
  <2>1. DOMAIN back = 1..n /\ \A i \in 1..n : back[i] = rows[n - i + 1]
    BY DEF Reverse
  <2>2. Rows(back) = {back[i] : i \in 1..n}
    BY <2>1 DEF Rows, ToSet
  <2> HIDE DEF back, R, n
  <2>3. \A i \in 1..n : n - i + 1 \in 1..n /\ n - (n - i + 1) + 1 = i
    BY <1>1
  <2>4. \A i \in 1..n : back[i] \in R
    BY <1>2, <2>1, <2>3
  <2>5. \A i \in 1..n : rows[i] \in Rows(back)
    BY <2>1, <2>2, <2>3
  <2> QED  BY <1>2, <2>2, <2>4, <2>5 DEF back
<1>5. Summary(rows) = SummaryOf(R) /\ Summary(Reverse(rows)) = SummaryOf(R)
  BY <1>4, SummaryIsOfTheSet
<1> HIDE DEF R
<1>6. /\ SumFunction([s \in DOMAIN SummaryOf(R) |-> SummaryOf(R)[s].wins]) = Cardinality({r.voucher : r \in R})
      /\ \A s \in DOMAIN SummaryOf(R) : SummaryOf(R)[s].lead >= 0 /\ SummaryOf(R)[s].sized <= SummaryOf(R)[s].wins
  BY <1>3, SummaryAddsUp
<1> QED  BY <1>5, <1>6 DEF R

\* The lags of fired jobs are recorded one after the other.
NoneFired == [count |-> 0, sum |-> 0, max |-> 0, late |-> 0]

RecordsTo(f, deltas, n) == f = [k \in 0..n |-> IF k = 0 THEN NoneFired ELSE Record(f[k - 1], deltas[k])]

LEMMA RecordingExists ==
  ASSUME NEW deltas, NEW n \in Nat
  PROVE  \E f : RecordsTo(f, deltas, n)
<1> DEFINE Without == {k \in Nat : ~\E f : RecordsTo(f, deltas, k)}
<1> SUFFICES ASSUME Without # {} PROVE FALSE
  OBVIOUS
<1>1. PICK m \in Without : \A k \in Without : m <= k
  BY LeastExists
<1>2. CASE m = 0
  <2>1. RecordsTo([k \in 0..0 |-> NoneFired], deltas, 0)
    BY DEF RecordsTo
  <2> QED  BY <1>2, <2>1
<1>3. CASE m # 0
  <2>1. m - 1 \in Nat /\ m - 1 \notin Without
    BY <1>1, <1>3
  <2>2. PICK f : RecordsTo(f, deltas, m - 1)
    BY <2>1
  <2> DEFINE g == [k \in 0..m |-> IF k = m THEN Record(f[m - 1], deltas[m]) ELSE f[k]]
  <2>3. ASSUME NEW k \in 0..m PROVE g[k] = IF k = 0 THEN NoneFired ELSE Record(g[k - 1], deltas[k])
    <3>1. CASE k = m
      <4>1. k - 1 \in 0..m /\ k - 1 # m /\ k # 0
        BY <1>3, <3>1
      <4>2. g[k - 1] = f[k - 1]
        BY <4>1
      <4>3. g[k] = Record(f[k - 1], deltas[k])
        BY <3>1
      <4> QED  BY <4>1, <4>2, <4>3, Zenon
    <3>2. CASE k # m
      <4>1. k \in 0..(m - 1) /\ g[k] = f[k] /\ (k # 0 => k - 1 \in 0..m /\ k - 1 # m)
        BY <2>1, <3>2
      <4>2. k # 0 => g[k - 1] = f[k - 1]
        BY <4>1
      <4>3. f[k] = IF k = 0 THEN NoneFired ELSE Record(f[k - 1], deltas[k])
        BY <2>2, <4>1, Zenon DEF RecordsTo
      <4> QED  BY <4>1, <4>2, <4>3, Zenon
    <3> QED  BY <3>1, <3>2
  <2>4. RecordsTo(g, deltas, m)
    BY <2>3 DEF RecordsTo
  <2> QED  BY <2>4
<1> QED  BY <1>2, <1>3

\* What the recorded lags have in common with the statistics of them.
Fires(stats) ==
  /\ stats.count \in Nat /\ stats.late \in Nat /\ stats.sum \in Int /\ stats.max \in Nat
  /\ stats.late > 0 <=> stats.max > LateThreshold
  /\ stats.sum <= stats.count * stats.max

LEMMA OneMoreIsFired ==
  ASSUME NEW stats, Fires(stats), NEW delta \in Int
  PROVE  Fires(Record(stats, delta))
<1> DEFINE c == stats.count
           m == stats.max
           s == stats.sum
           l == stats.late
           n == IF delta > m THEN delta ELSE m
           j == IF delta > LateThreshold THEN 1 ELSE 0
           w == Record(stats, delta)
<1>1. c \in Nat /\ l \in Nat /\ s \in Int /\ m \in Nat /\ (l > 0 <=> m > LateThreshold) /\ s <= c * m
  BY DEF Fires
<1>2. LateThreshold \in Nat
  BY AnalyticsAssumption
<1>3. n \in Nat /\ m <= n /\ delta <= n /\ (n > LateThreshold <=> m > LateThreshold \/ delta > LateThreshold)
  BY <1>1, <1>2
<1>4. /\ w.count = c + 1 /\ w.sum = s + delta /\ w.late = l + j /\ w.max = n
  <2>1. Max2(m, delta) = n
    BY <1>1 DEF Max2
  <2> QED  BY <2>1 DEF Record, IsLateBeyond
<1> HIDE DEF c, m, s, l, n, w
<1>5. c * m \in Int /\ c * n \in Int /\ c * m <= c * n /\ (c + 1) * n = c * n + n
  BY <1>1, <1>3
<1>6. s + delta <= (c + 1) * n
  <2> DEFINE a == c * m
             b == c * n
             e == (c + 1) * n
  <2>1. a \in Int /\ b \in Int /\ a <= b /\ e = b + n /\ s <= a
    BY <1>1, <1>5
  <2> HIDE DEF a, b, e
  <2>2. s + delta <= e
    BY <1>1, <1>3, <2>1
  <2> QED  BY <2>2 DEF e
<1>7. l + j > 0 <=> n > LateThreshold
  BY <1>1, <1>2, <1>3
<1>8. c + 1 \in Nat /\ l + j \in Nat /\ s + delta \in Int /\ n \in Nat
  BY <1>1, <1>3
<1> QED  BY <1>4, <1>6, <1>7, <1>8 DEF Fires, w

LEMMA LatenessShows ==
  ASSUME NEW n \in Nat, NEW deltas \in [1..n -> Deltas]
  PROVE  Fires(PrecisionStats(deltas))
<1> DEFINE f == CHOOSE f : f = [k \in 0..Len(deltas) |->
                                  IF k = 0 THEN [count |-> 0, sum |-> 0, max |-> 0, late |-> 0]
                                  ELSE Record(f[k - 1], deltas[k])]
<1>1. Len(deltas) = n
  OBVIOUS
<1>2. \E h : RecordsTo(h, deltas, n)
  BY RecordingExists
<1>3. RecordsTo(f, deltas, n)
  <2>1. \E h : h = [k \in 0..Len(deltas) |-> IF k = 0 THEN [count |-> 0, sum |-> 0, max |-> 0, late |-> 0]
                                           ELSE Record(h[k - 1], deltas[k])]
    BY <1>1, <1>2, Zenon DEF RecordsTo, NoneFired
  <2>2. f = [k \in 0..Len(deltas) |-> IF k = 0 THEN [count |-> 0, sum |-> 0, max |-> 0, late |-> 0]
                                      ELSE Record(f[k - 1], deltas[k])]
    BY <2>1, Zenon
  <2> HIDE DEF f
  <2> QED  BY <1>1, <2>2, Zenon DEF RecordsTo, NoneFired
<1>4. PrecisionStats(deltas) = f[n]
  <2>1. PrecisionStats(deltas) = f[Len(deltas)]
    BY Zenon DEF PrecisionStats
  <2> HIDE DEF f
  <2> QED  BY <1>1, <2>1, Zenon
<1> HIDE DEF f
<1>5. \A k \in 0..n : f[k] = IF k = 0 THEN NoneFired ELSE Record(f[k - 1], deltas[k])
  BY <1>3, Zenon DEF RecordsTo
<1> DEFINE Unfit == {k \in 0..n : ~Fires(f[k])}
<1>6. Unfit = {}
  <2> SUFFICES ASSUME Unfit # {} PROVE FALSE
    OBVIOUS
  <2>1. Unfit \subseteq Nat
    OBVIOUS
  <2>2. PICK m \in Unfit : \A k \in Unfit : m <= k
    <3> HIDE DEF Unfit
    <3> QED  BY <2>1, LeastExists
  <2>3. CASE m = 0
    <3>1. Fires(NoneFired)
      BY AnalyticsAssumption DEF Fires, NoneFired
    <3>2. f[m] = NoneFired
      BY <1>5, <2>3
    <3> QED  BY <2>2, <3>1, <3>2
  <2>4. CASE m # 0
    <3>1. m - 1 \in 0..n /\ m \in 1..n /\ ~(m <= m - 1)
      BY <2>2, <2>4
    <3>2. Fires(f[m - 1])
      BY <2>2, <3>1
    <3>3. deltas[m] \in Int
      BY <3>1, AnalyticsAssumption
    <3>4. f[m] = Record(f[m - 1], deltas[m])
      BY <1>5, <2>2, <2>4
    <3>5. Fires(f[m])
      BY <3>2, <3>3, <3>4, OneMoreIsFired
    <3> QED  BY <2>2, <3>5
  <2> QED  BY <2>3, <2>4
<1>7. n \in 0..n
  OBVIOUS
<1> QED  BY <1>4, <1>6, <1>7

-----------------------------------------------------------------------------
(* Responses *)

\* The rule that comes first is a rule, it matches, and none before it does.
LEMMA FirstRuleMatches ==
  ASSUME NEW b
  PROVE  /\ FirstKeywordRule(b) \in 0..8
         /\ \A i \in 1..8 : Matches(b, SaveKeywordRules[i][2]) => FirstKeywordRule(b) \in 1..i
<1> DEFINE I == {i \in 1..8 : Matches(b, SaveKeywordRules[i][2])}
<1>1. Len(SaveKeywordRules) = 8
  BY DEF SaveKeywordRules
<1>2. FirstKeywordRule(b) = IF I # {} THEN Min(I) ELSE 0
  BY <1>1 DEF FirstKeywordRule, SelectInSeq
<1>3. ASSUME I # {} PROVE Min(I) \in I /\ \A i \in I : Min(I) <= i
  <2>1. PICK m \in I : \A n \in I : m <= n
    BY <1>3, LeastExists
  <2> QED  BY <2>1 DEF Min
<1> HIDE DEF I
<1>4. CASE I = {}
  BY <1>2, <1>4 DEF I
<1>5. CASE I # {}
  BY <1>2, <1>3, <1>5 DEF I
<1> QED  BY <1>4, <1>5

\* The keyword rules name no wall; the first three name no voucher as saved.
LEMMA KeywordRulesAreMild ==
  ASSUME NEW i \in 1..8
  PROVE  /\ SaveKeywordRules[i][1] \in
              {"RateLimited", "Expired", "InvalidVoucher", "Ineligible", "NotActive", "AlreadySaved", "Exhausted"}
         /\ i <= 3 => SaveKeywordRules[i][1] \in {"RateLimited", "Expired", "InvalidVoucher"}
<1>1. i = 1 \/ i = 2 \/ i = 3 \/ i = 4 \/ i = 5 \/ i = 6 \/ i = 7 \/ i = 8
  OBVIOUS
<1>2. /\ SaveKeywordRules[1][1] = "RateLimited"  /\ SaveKeywordRules[2][1] = "Expired"
      /\ SaveKeywordRules[3][1] = "InvalidVoucher" /\ SaveKeywordRules[4][1] = "Ineligible"
      /\ SaveKeywordRules[5][1] = "NotActive"      /\ SaveKeywordRules[6][1] = "AlreadySaved"
      /\ SaveKeywordRules[7][1] = "Exhausted"      /\ SaveKeywordRules[8][1] = "InvalidVoucher"
  BY DEF SaveKeywordRules
<1> QED  BY <1>1, <1>2

LEMMA CodeRulesAreMild ==
  /\ DOMAIN SaveCodeRules = {5, 7}
  /\ SaveCodeRules[5] = "AlreadySaved" /\ SaveCodeRules[7] = "Exhausted"
BY DEF SaveCodeRules

\* An answer names a wall only by a status or a marker: no code and no keyword
\* of the body does.
LEMMA BodyNamesNoWall ==
  ASSUME NEW status, NEW b, status # 429, ~(status >= 500), ~Matches(b, VerificationMarkers),
         status \notin {401, 403}, ~b.html, ~Matches(b, LoginMarkers)
  PROVE  ClassifySave(status, b) \notin {"VerificationRequired", "SessionExpired", "TransientFailure"}
<1>1. FirstKeywordRule(b) # 0 =>
        SaveKeywordRules[FirstKeywordRule(b)][1] \notin {"VerificationRequired", "SessionExpired", "TransientFailure"}
  <2>1. FirstKeywordRule(b) # 0 => FirstKeywordRule(b) \in 1..8
    BY FirstRuleMatches
  <2> QED  BY <2>1, KeywordRulesAreMild
<1> QED  BY <1>1, CodeRulesAreMild DEF ClassifySave

\* What the question about an answer of the platform is about.
AnswerAsked ==
  AboutResponse => question.status \in Statuses \union {None}

LEMMA WallsHold ==
  ASSUME AnswerAsked
  PROVE  WallsLookTheSame
<1> DEFINE status == question.status
           b == question.body
<1> SUFFICES ASSUME AboutResponse
             PROVE  /\ Claimed = "VerificationRequired" <=> Probed = "VerificationRequired"
                    /\ Claimed = "SessionExpired" => Probed \in {"Expired", "LoginRequired"}
                    /\ Probed = "LoginRequired" => Claimed = "SessionExpired"
  BY DEF WallsLookTheSame
<1>1. CASE SendAndReadFails(status)
  BY <1>1 DEF Claimed, Probed, ExecuteClaim, ProbeSession
<1>2. CASE ~SendAndReadFails(status)
  <2>0. status # 429
    BY <1>2 DEF SendAndReadFails
  <2>1. Claimed = ClassifySave(status, b) /\ Probed = SessionStateOf(ClassifyProbe(status, b))
    BY <1>2 DEF Claimed, Probed, ExecuteClaim, ProbeSession
  <2>2. CASE status >= 500 \/ Matches(b, VerificationMarkers) \/ status \in {401, 403}
             \/ b.html \/ Matches(b, LoginMarkers)
    BY <2>0, <2>1, <2>2 DEF ClassifySave, ClassifyProbe, SessionStateOf
  <2>3. CASE ~(status >= 500 \/ Matches(b, VerificationMarkers) \/ status \in {401, 403}
               \/ b.html \/ Matches(b, LoginMarkers))
    <3>1. ClassifySave(status, b) \notin {"VerificationRequired", "SessionExpired", "TransientFailure"}
      BY <2>0, <2>3, BodyNamesNoWall
    <3>2. Verdict(status, b) \in {"Unknown", "Expired", "Healthy"}
      BY DEF Verdict
    <3>3. ClassifyProbe(status, b) = Verdict(status, b)
      BY <2>0, <2>3 DEF ClassifyProbe
    <3> QED  BY <2>1, <3>1, <3>2, <3>3 DEF SessionStateOf
  <2> QED  BY <2>2, <2>3
<1> QED  BY <1>1, <1>2

LEMMA RefusalHolds ==
  ASSUME AnswerAsked
  PROVE  RefusalIsNotSaved
<1> DEFINE status == question.status
           b == question.body
           code == EffectiveCode(b)
           rule == FirstKeywordRule(b)
<1> SUFFICES ASSUME AboutResponse, Matches(b, RefusalMarkers)
             PROVE  /\ Claimed = "Success" => code = 0 /\ status = 200
                    /\ Claimed = "AlreadySaved" => code = 5
                    /\ Claimed = "Exhausted" => code = 7
  BY DEF RefusalIsNotSaved
<1>1. CASE SendAndReadFails(status)
  BY <1>1 DEF Claimed, ExecuteClaim
<1>2. CASE ~SendAndReadFails(status)
  <2>1. Claimed = ClassifySave(status, b)
    BY <1>2 DEF Claimed, ExecuteClaim
  <2>2. RefusalMarkers = SaveKeywordRules[2][2] \union SaveKeywordRules[3][2]
    BY DEF RefusalMarkers, SaveKeywordRules
  <2>3. Matches(b, SaveKeywordRules[2][2]) \/ Matches(b, SaveKeywordRules[3][2])
    BY <2>2 DEF Matches
  <2>4. rule \in 1..3
    <3>1. 2 \in 1..8 /\ 3 \in 1..8
      OBVIOUS
    <3>2. rule \in 1..2 \/ rule \in 1..3
      BY <2>3, <3>1, FirstRuleMatches
    <3> QED  BY <3>2
  <2>5. SaveKeywordRules[rule][1] \in {"RateLimited", "Expired", "InvalidVoucher"}
    BY <2>4, KeywordRulesAreMild
  <2>6. rule # 0
    BY <2>4
  <2>7. CASE status = 200 /\ code = 0
    <3>1. Claimed \notin {"AlreadySaved", "Exhausted"}
      BY <2>1, <2>7 DEF ClassifySave
    <3> QED  BY <2>7, <3>1
  <2>8. CASE ~(status = 200 /\ code = 0) /\ code \in DOMAIN SaveCodeRules
    <3>1. code \in {5, 7}
      BY <2>8, CodeRulesAreMild
    <3>2. SaveCodeRules[code] = IF code = 5 THEN "AlreadySaved" ELSE "Exhausted"
      BY <3>1 DEF SaveCodeRules
    <3>3. Claimed \notin {"Success", "AlreadySaved", "Exhausted"} \/ Claimed = SaveCodeRules[code]
      BY <2>1, <2>8 DEF ClassifySave
    <3> QED  BY <3>1, <3>2, <3>3
  <2>9. CASE ~(status = 200 /\ code = 0) /\ code \notin DOMAIN SaveCodeRules
    <3>1. Claimed \notin {"Success", "AlreadySaved", "Exhausted"}
      BY <2>1, <2>5, <2>6, <2>9 DEF ClassifySave
    <3> QED  BY <3>1
  <2> QED  BY <2>7, <2>8, <2>9
<1> QED  BY <1>1, <1>2

LEMMA ProofHolds ==
  ASSUME AnswerAsked
  PROVE  HealthyIsProven
<1> DEFINE status == question.status
           b == question.body
<1> SUFFICES ASSUME AboutResponse, Probed = "Healthy"
             PROVE  b.user /\ Claimed = "Success"
  BY DEF HealthyIsProven
<1>1. ~SendAndReadFails(status)
  BY DEF Probed, ProbeSession
<1>2. ClassifyProbe(status, b) = "Healthy"
  BY <1>1 DEF Probed, ProbeSession, SessionStateOf
<1>3. /\ ~(status >= 500) /\ ~Matches(b, VerificationMarkers) /\ status \notin {401, 403}
      /\ ~b.html /\ ~Matches(b, LoginMarkers) /\ Verdict(status, b) = "Healthy"
  BY <1>2 DEF ClassifyProbe
<1>4. b.json /\ status = 200 /\ EffectiveCode(b) = 0 /\ b.user
  BY <1>3 DEF Verdict
<1> QED  BY <1>1, <1>3, <1>4 DEF Claimed, ExecuteClaim, ClassifySave

LEMMA AnswersRead ==
  ASSUME AnswerAsked
  PROVE  AnswersAreReadRight
BY WallsHold, RefusalHolds, ProofHolds DEF AnswersAreReadRight

-----------------------------------------------------------------------------
(* Messages: one send *)

\* The last request of a send is the first that is answered for good, or the
\* last the budget allows.
LEMMA SendStops ==
  ASSUME NEW rs \in [1..MaxSends -> Replies]
  PROVE  /\ Send(rs).requests \in 1..MaxSends
         /\ \A i \in 1..(Send(rs).requests - 1) : IsRetryable(ClassifyReply(rs[i]))
         /\ Send(rs).waits = [i \in 1..(Send(rs).requests - 1) |-> Wait(rs[i], i)]
<1> DEFINE Final(n) == n = MaxSends \/ ~IsRetryable(ClassifyReply(rs[n]))
           Stop(n)  == Final(n) /\ \A i \in 1..(n - 1) : IsRetryable(ClassifyReply(rs[i]))
           last     == CHOOSE n \in 1..MaxSends : Stop(n)
<1>1. \E n \in 1..MaxSends : Stop(n)
  <2>1. MaxSends \in {n \in 1..MaxSends : Final(n)}
    BY MessagesAssumption
  <2>2. PICK m \in {n \in 1..MaxSends : Final(n)} : \A n \in {k \in 1..MaxSends : Final(k)} : m <= n
    <3> HIDE DEF Final
    <3>1. {n \in 1..MaxSends : Final(n)} \subseteq Nat /\ {n \in 1..MaxSends : Final(n)} # {}
      BY <2>1, MessagesAssumption
    <3> QED  BY <3>1, LeastExists
  <2>3. m \in Nat /\ m <= MaxSends /\ m >= 1
    BY <2>2, MessagesAssumption
  <2>4. ASSUME NEW i \in 1..(m - 1) PROVE IsRetryable(ClassifyReply(rs[i]))
    <3>1. i \in 1..MaxSends /\ ~(m <= i)
      BY <2>3, MessagesAssumption
    <3>2. ~Final(i)
      BY <2>2, <3>1
    <3> QED  BY <3>2
  <2> QED  BY <2>2, <2>3, <2>4
<1>2. last \in 1..MaxSends /\ Stop(last)
  <2> HIDE DEF Stop
  <2> QED  BY <1>1
<1>3. Send(rs).requests = last /\ Send(rs).waits = [i \in 1..(last - 1) |-> Wait(rs[i], i)]
  BY DEF Send
<1> HIDE DEF last
<1> QED  BY <1>2, <1>3

\* A reply that asks for another request was no success.
LEMMA RetryableIsNoSuccess ==
  ASSUME NEW r \in Replies, IsRetryable(ClassifyReply(r))
  PROVE  r.status \notin 200..299
<1>1. r.status \in Nat
  BY MessagesAssumption
<1>2. ClassifyReply(r) \in {"Transport", "RateLimited", "Upstream"}
  BY DEF IsRetryable
<1>3. ASSUME r.status \in 200..299 PROVE FALSE
  <2> DEFINE s == r.status
  <2>1. s # 0 /\ s # 429 /\ s \notin {401, 403} /\ s \notin 500..599
    BY <1>3
  <2>2. s \notin 400..499 \ {401, 403, 429}
    BY <1>3
  <2> DEFINE refused == s \in 400..499 \ {401, 403, 429}
             failing == s \in 500..599
             fine    == s \in 200..299 /\ r.ok
  <2>3. ClassifyReply(r) = CASE s = 0 -> "Transport"
                              [] fine -> "Ok"
                              [] s = 429 -> "RateLimited"
                              [] s \in {401, 403} -> "Unauthorized"
                              [] refused -> "InvalidRequest"
                              [] failing -> "Upstream"
                              [] OTHER -> "UnknownResponse"
    BY Zenon DEF ClassifyReply
  <2>4. ~refused /\ ~failing
    BY <2>1, <2>2
  <2> HIDE DEF s, refused, failing, fine
  <2>5. CASE fine
    <3>1. ClassifyReply(r) = "Ok"
      BY <2>1, <2>3, <2>4, <2>5
    <3> QED  BY <1>2, <3>1
  <2>6. CASE ~fine
    <3>1. ClassifyReply(r) = "UnknownResponse"
      BY <2>1, <2>3, <2>4, <2>6
    <3> QED  BY <1>2, <3>1
  <2> QED  BY <2>5, <2>6
<1> QED  BY <1>3

SendAsked == AboutSend => question.replies \in [1..MaxSends -> Replies]

LEMMA SentOnce ==
  ASSUME SendAsked
  PROVE  TakenIsNotSentAgain
<1> DEFINE rs == question.replies
           n == Send(rs).requests
           taken == {i \in 1..n : rs[i].status \in 200..299}
<1> SUFFICES ASSUME AboutSend
             PROVE  Cardinality(taken) <= 1
  BY DEF TakenIsNotSentAgain
<1>1. rs \in [1..MaxSends -> Replies]
  BY DEF SendAsked
<1>2. n \in 1..MaxSends /\ \A i \in 1..(n - 1) : IsRetryable(ClassifyReply(rs[i]))
  BY <1>1, SendStops
<1> HIDE DEF n
<1>3. ASSUME NEW i \in 1..n, rs[i].status \in 200..299 PROVE i = n
  <2>1. rs[i] \in Replies
    BY <1>1, <1>2, MessagesAssumption
  <2>2. ~IsRetryable(ClassifyReply(rs[i]))
    BY <1>3, <2>1, RetryableIsNoSuccess
  <2>3. i \notin 1..(n - 1)
    BY <1>2, <2>2
  <2> QED  BY <1>2, <2>3
<1>4. taken \subseteq {n}
  BY <1>3
<1>5. IsFiniteSet({n}) /\ Cardinality({n}) = 1
  BY FS_Singleton
<1> QED  BY <1>4, <1>5, FS_Subset

LEMMA HintHonoured ==
  ASSUME NEW r \in Replies, NEW attempt \in Nat \ {0}
  PROVE  /\ Wait(r, attempt) <= Max2(MaxHonoured, MaxDelay)
         /\ Stated(RetryAfter(r)) => Wait(r, attempt) >= Min2(1000 * RetryAfter(r), MaxHonoured)
<1>1. MaxHonoured \in Nat /\ MaxDelay \in Nat
  BY MessagesAssumption
<1>2. RetryAfter(r) \in Nat \union {None}
  BY MessagesAssumption DEF RetryAfter, Otherwise
<1>3. CASE Stated(RetryAfter(r))
  BY <1>1, <1>2, <1>3 DEF Wait, Stated, Min2, Max2
<1>4. CASE ~Stated(RetryAfter(r))
  <2>1. DelayFor(attempt) <= MaxDelay /\ DelayFor(attempt) \in Nat
    <3> DEFINE power == 2 ^ Min2(attempt - 1, 16)
    <3>1. Min2(attempt - 1, 16) \in 0..16
      BY DEF Min2
    <3>2. power \in Nat
      BY <3>1, PowersOfTwo
    <3>3. DelayFor(attempt) = Min2(BaseDelay * power, MaxDelay)
      BY DEF DelayFor
    <3> HIDE DEF power
    <3>4. BaseDelay * power \in Nat
      BY <3>2, MessagesAssumption
    <3> QED  BY <1>1, <3>3, <3>4 DEF Min2
  <2> QED  BY <1>1, <1>4, <2>1 DEF Wait, Max2
<1> QED  BY <1>3, <1>4

LEMMA PausesKept ==
  ASSUME SendAsked
  PROVE  CooldownIsKept
<1> DEFINE rs == question.replies
           waits == Send(rs).waits
           n == Send(rs).requests
<1> SUFFICES ASSUME AboutSend, NEW i \in DOMAIN waits
             PROVE  /\ waits[i] <= Max2(MaxHonoured, MaxDelay)
                    /\ Stated(RetryAfter(rs[i])) => waits[i] >= Min2(1000 * RetryAfter(rs[i]), MaxHonoured)
  BY DEF CooldownIsKept
<1>1. rs \in [1..MaxSends -> Replies]
  BY DEF SendAsked
<1>2. n \in 1..MaxSends /\ waits = [k \in 1..(n - 1) |-> Wait(rs[k], k)]
  BY <1>1, SendStops
<1> HIDE DEF n, waits
<1>3. i \in 1..(n - 1) /\ waits[i] = Wait(rs[i], i)
  BY <1>2
<1>4. i \in Nat \ {0} /\ rs[i] \in Replies
  BY <1>1, <1>2, <1>3, MessagesAssumption
<1> QED  BY <1>3, <1>4, HintHonoured

-----------------------------------------------------------------------------
(* Messages: what they say *)

MessageAsked ==
  /\ question.about = "sessionMessage" => question.to \in SessionState
  /\ question.about = "claimMessage" => question.class \in Claims!ResultClass
  /\ question.about = "voucherMessage" => question.v \in ShownVouchers /\ question.spend \in Nat

LEMMA PauseSaid ==
  ASSUME MessageAsked
  PROVE  PauseIsSaid
<1> DEFINE e == SessionEvent(question.to)
<1> SUFFICES ASSUME question.about = "sessionMessage"
             PROVE  /\ "ClaimingPaused" \in Render(e) <=> BlocksClaims(question.to)
                    /\ IsAlert(CategoryFor(e)) <=> BlocksClaims(question.to)
                    /\ NeedsManualAction(question.to) =>
                         Render(e) \intersect {"CompleteVerification", "LogInAgain"} # {}
  BY DEF PauseIsSaid
<1>1. question.to \in SessionState /\ e.kind = "SessionStateChanged" /\ e.to = question.to
  BY DEF MessageAsked, SessionEvent
<1>2. CategoryFor(e) = SessionCategory(question.to)
  BY <1>1 DEF CategoryFor
<1>3. CASE question.to = "VerificationRequired"
  <2>1. CategoryFor(e) = "VerificationRequired"
    BY <1>2, <1>3 DEF SessionCategory
  <2>2. Render(e) = {"ClaimingPaused", "CompleteVerification"}
    BY <1>1, <2>1 DEF Render
  <2> QED  BY <1>3, <2>1, <2>2 DEF IsAlert, BlocksClaims
<1>4. CASE question.to \in {"Expired", "LoginRequired", "Disabled"}
  <2>1. CategoryFor(e) = "SessionExpired"
    BY <1>2, <1>4 DEF SessionCategory
  <2>2. Render(e) = {"ClaimingPaused", "LogInAgain"}
    BY <1>1, <2>1 DEF Render
  <2> QED  BY <1>4, <2>1, <2>2 DEF IsAlert, BlocksClaims
<1>5. CASE question.to \in {"Unknown", "Healthy", "Degraded"}
  <2>1. CategoryFor(e) = "SessionState"
    BY <1>2, <1>5 DEF SessionCategory
  <2>2. Render(e) = {}
    BY <1>1, <2>1 DEF Render
  <2> QED  BY <1>5, <2>1, <2>2 DEF IsAlert, BlocksClaims, NeedsManualAction
<1> QED  BY <1>1, <1>3, <1>4, <1>5 DEF SessionState

LEMMA FinalSaid ==
  ASSUME MessageAsked
  PROVE  FinalStatusIsNotRetried
<1> DEFINE class == question.class
           step == Claims!NextStep(class, question.index)
           e == ClaimEvent(class, question.index)
           status == Claims!StatusAfter(class, step)
<1> SUFFICES ASSUME question.about = "claimMessage"
             PROVE  /\ status # "Kept" => "WillRetry" \notin Render(e)
                    /\ status = "Saved" <=> CategoryFor(e) = "ClaimSuccess"
  BY DEF FinalStatusIsNotRetried
<1>1. class \in Claims!ResultClass
  BY DEF MessageAsked
<1>2. CASE class \in Claims!SuccessEquivalent
  <2>1. status = "Saved"
    BY <1>2 DEF Claims!StatusAfter, Claims!SuccessEquivalent
  <2>2. e = [kind |-> "ClaimSucceeded", alreadySaved |-> class = "AlreadySaved"]
    BY <1>2 DEF ClaimEvent
  <2> HIDE DEF e
  <2>3. CategoryFor(e) = "ClaimSuccess" /\ Render(e) = {IF e.alreadySaved THEN "WasSaved" ELSE "Saved"}
    BY <2>2 DEF CategoryFor, Render
  <2> QED  BY <2>1, <2>3
<1>3. CASE class \notin Claims!SuccessEquivalent
  <2>1. e = [kind |-> "ClaimFailed", terminal |-> step \in {"Terminal", "ReviewRequired"}]
    BY <1>3 DEF ClaimEvent
  <2> HIDE DEF e
  <2>2. CategoryFor(e) = "ClaimFailure"
    BY <2>1 DEF CategoryFor
  <2>3. step \in {"Terminal", "ReviewRequired"} => Render(e) = {"NoFurtherAttempts"}
    <3> SUFFICES ASSUME step \in {"Terminal", "ReviewRequired"}
                 PROVE  Render(e) = {"NoFurtherAttempts"}
      OBVIOUS
    <3>1. e.kind = "ClaimFailed" /\ e.terminal = TRUE
      BY <2>1, Zenon
    <3> QED  BY <3>1 DEF Render, CategoryFor
  <2>4. CASE class \in {"Exhausted", "Expired", "Ineligible"}
    <3>1. step = "Terminal"
      BY <2>4 DEF Claims!NextStep, Claims!NoRetry, Claims!SuccessEquivalent, Claims!PausesSession,
                  Claims!RetriesWithBackoff
    <3>2. status = class
      BY <1>3, <2>4 DEF Claims!StatusAfter
    <3> QED  BY <2>2, <2>3, <2>4, <3>1, <3>2
  <2>5. CASE class \notin {"Exhausted", "Expired", "Ineligible"}
    <3>1. status = IF step = "ReviewRequired" THEN "ReviewRequired" ELSE "Kept"
      BY <1>3, <2>5 DEF Claims!StatusAfter
    <3>2. status # "Kept" => step = "ReviewRequired"
      BY <3>1
    <3> QED  BY <2>2, <2>3, <3>1, <3>2
  <2> QED  BY <2>4, <2>5
<1> QED  BY <1>2, <1>3

\* Of the terms of a stored voucher, what is stated is not negative.
LEMMA TermsAreSane ==
  ASSUME NEW v \in ShownVouchers
  PROVE  /\ NonNegative(v.percent) = v.percent /\ NonNegative(v.amount) = v.amount
         /\ NonNegative(v.cap) = v.cap
         /\ v.percent \in Nat \union {None} /\ v.amount \in Nat \union {None} /\ v.cap \in Nat \union {None}
<1>1. v.percent \in Nat \union {None} /\ v.amount \in Nat \union {None} /\ v.cap \in Nat \union {None}
  BY MessagesAssumption
<1> QED  BY <1>1 DEF NonNegative, Stated

LEMMA RoundedIsNat ==
  ASSUME NEW n \in Nat
  PROVE  Rounded(n, 100) \in Nat
BY DEF Rounded

LEMMA DiscountShown ==
  ASSUME MessageAsked
  PROVE  ShownDiscountIsCountedOn
<1> DEFINE v == question.v
           spend == question.spend
           line == DiscountLine(v)
           counted == Estimate(v, spend)
           rule == DiscountRule(v)
<1> SUFFICES ASSUME question.about = "voucherMessage"
             PROVE  CASE line.kind = "Percent" ->
                           /\ counted <= Rounded(spend * line.percent, 100)
                           /\ Stated(line.max) => counted <= line.max
                      [] line.kind = "Amount" -> counted <= line.amount
                      [] line.kind = "FreeShipping" -> TargetsShipping(v)
                      [] OTHER -> TRUE
  BY DEF ShownDiscountIsCountedOn
<1>1. v \in ShownVouchers /\ spend \in Nat
  BY DEF MessageAsked
<1>2. /\ NonNegative(v.percent) = v.percent /\ NonNegative(v.amount) = v.amount /\ NonNegative(v.cap) = v.cap
      /\ v.percent \in Nat \union {None} /\ v.amount \in Nat \union {None} /\ v.cap \in Nat \union {None}
  BY <1>1, TermsAreSane
<1>3. Max2(spend, 0) = spend
  BY <1>1 DEF Max2
<1>4. CASE Stated(v.percent)
  <2>1. line = [kind |-> "Percent", percent |-> v.percent, max |-> v.cap]
    BY <1>4 DEF DiscountLine
  <2>2. rule = [kind |-> "Percent", percent |-> v.percent, cap |-> v.cap]
    BY <1>2, <1>4 DEF DiscountRule
  <2> DEFINE limit == IF Stated(v.cap) THEN Min2(v.cap, spend) ELSE spend
             share == Rounded(spend * v.percent, 100)
  <2>3. counted = Min2(share, limit)
    BY <1>3, <2>2 DEF Estimate
  <2>4. share \in Nat
    <3>1. v.percent \in Nat
      BY <1>2, <1>4 DEF Stated
    <3>2. spend * v.percent \in Nat
      BY <1>1, <3>1
    <3> QED  BY <3>2, RoundedIsNat
  <2>5. limit \in Nat /\ (Stated(v.cap) => limit <= v.cap)
    BY <1>1, <1>2 DEF Min2, Stated
  <2> HIDE DEF share, limit
  <2>6. counted \in Nat /\ counted <= share /\ counted <= limit
    BY <2>3, <2>4, <2>5 DEF Min2
  <2>7. Stated(v.cap) => counted <= v.cap
    BY <1>2, <2>5, <2>6 DEF Stated
  <2> QED  BY <2>1, <2>6, <2>7 DEF share
<1>5. CASE ~Stated(v.percent) /\ Stated(v.amount)
  <2>1. line = [kind |-> "Amount", amount |-> v.amount]
    BY <1>5 DEF DiscountLine
  <2>2. EffectiveDiscount(v) \in Nat /\ EffectiveDiscount(v) <= v.amount
    BY <1>2, <1>5 DEF EffectiveDiscount, Min2, Stated
  <2>3. rule.kind \in {"Fixed", "FreeShipping"} /\ rule.amount = EffectiveDiscount(v)
    BY <1>2, <1>5, <2>2, NoneAssumption DEF DiscountRule, Stated
  <2>4. Stated(rule.amount)
    BY <2>2, <2>3, NoneAssumption DEF Stated
  <2>5. counted = Min2(EffectiveDiscount(v), spend)
    BY <1>3, <2>3, <2>4 DEF Estimate
  <2>6. counted <= v.amount
    BY <1>1, <1>2, <1>5, <2>2, <2>5 DEF Min2, Stated
  <2> QED  BY <2>1, <2>6
<1>6. CASE ~Stated(v.percent) /\ ~Stated(v.amount)
  <2>1. CASE v.discount = "FreeShipping"
    <3>1. line = [kind |-> "FreeShipping"]
      BY <1>6, <2>1 DEF DiscountLine
    <3>2. rule.kind = "FreeShipping"
      BY <1>2, <1>6, <2>1 DEF DiscountRule
    <3>3. TargetsShipping(v)
      BY <3>2 DEF TargetsShipping
    <3> QED  BY <3>1, <3>3
  <2>2. CASE v.discount # "FreeShipping"
    <3>1. line = [kind |-> "Nothing"]
      BY <1>6, <2>2 DEF DiscountLine
    <3> QED  BY <3>1
  <2> QED  BY <2>1, <2>2
<1> QED  BY <1>4, <1>5, <1>6

-----------------------------------------------------------------------------
(* Messages: alerts *)

\* What an evaluator knows is what it told: last_fired is the moment of the last
\* alert of a kind, which is no earlier than any other of that kind.
Told(rounds, log, last) ==
  /\ rounds \in Seq([at : AlertTimes, inputs : Inputs])
  /\ log \in Seq(SUBSET AlertKind) /\ Len(log) = Len(rounds)
  /\ \A i \in 1..Len(rounds) : \A kind \in log[i] : kind \in DOMAIN last /\ rounds[i].at <= last[kind]
  /\ \A kind \in DOMAIN last : \E i \in 1..Len(rounds) : kind \in log[i] /\ rounds[i].at = last[kind]
  /\ \A i, j \in 1..Len(rounds) :
       i < j /\ log[i] \intersect log[j] # {} => rounds[j].at - rounds[i].at >= Thresholds.cooldown
  /\ \A j \in 1..Len(rounds) : \A kind \in Raised(rounds[j].inputs) :
       \E i \in 1..j : kind \in log[i] /\ rounds[j].at - rounds[i].at < Thresholds.cooldown

LEMMA ToldOnce ==
  ASSUME NEW rounds, NEW log, NEW last, Told(rounds, log, last),
         NEW round \in [at : AlertTimes, inputs : Inputs]
  PROVE  Told(Append(rounds, round), Append(log, Firing(last, round)), LastFired(last, round))
<1> DEFINE n       == Len(rounds)
           firing  == Firing(last, round)
           rounds1 == Append(rounds, round)
           log1    == Append(log, firing)
           last1   == LastFired(last, round)
<1>1. /\ rounds \in Seq([at : AlertTimes, inputs : Inputs]) /\ log \in Seq(SUBSET AlertKind)
      /\ Len(log) = n /\ n \in Nat
  BY DEF Told
<1>2. firing \in SUBSET AlertKind
  <2>1. Raised(round.inputs) \subseteq AlertKind
    BY DEF Raised, AlertKind
  <2>2. firing \subseteq Raised(round.inputs)
    BY DEF Firing
  <2> QED  BY <2>1, <2>2
<1>3. /\ rounds1 \in Seq([at : AlertTimes, inputs : Inputs]) /\ log1 \in Seq(SUBSET AlertKind)
      /\ Len(rounds1) = n + 1 /\ Len(log1) = n + 1
      /\ \A i \in 1..n : rounds1[i] = rounds[i] /\ log1[i] = log[i]
      /\ rounds1[n + 1] = round /\ log1[n + 1] = firing
  BY <1>1, <1>2
<1>4. /\ round.at \in Int /\ Thresholds.cooldown \in Nat \ {0}
      /\ \A i \in 1..n : rounds[i].at \in Int
  <2>1. \A i \in 1..n : rounds[i] \in [at : AlertTimes, inputs : Inputs]
    BY <1>1, ElementOfSeq
  <2>2. AlertTimes \subseteq Int /\ Thresholds.cooldown \in Nat \ {0}
    BY MessagesAssumption
  <2> QED  BY <2>1, <2>2
<1>5. \A kind \in DOMAIN last : last[kind] \in Int
  BY <1>4 DEF Told
<1>6. /\ DOMAIN last1 = firing \union DOMAIN last
      /\ \A kind \in firing : last1[kind] = round.at
      /\ \A kind \in DOMAIN last : kind \notin firing => last1[kind] = last[kind]
  BY DEF LastFired
<1>7. \A kind \in firing : kind \in DOMAIN last => round.at - last[kind] >= Thresholds.cooldown
  BY DEF Firing, PastCooldown
<1>8. \A kind \in Raised(round.inputs) : kind \notin firing =>
        kind \in DOMAIN last /\ ~(round.at - last[kind] >= Thresholds.cooldown)
  BY DEF Firing, PastCooldown
<1> HIDE DEF rounds1, log1, last1, firing
<1>9. ASSUME NEW i \in 1..(n + 1), NEW kind \in log1[i]
      PROVE  kind \in DOMAIN last1 /\ rounds1[i].at <= last1[kind]
  <2>1. CASE i = n + 1
    BY <1>3, <1>4, <1>6, <1>9, <2>1
  <2>2. CASE i \in 1..n
    <3>1. kind \in DOMAIN last /\ rounds[i].at <= last[kind] /\ rounds1[i] = rounds[i]
      BY <1>3, <1>9, <2>2 DEF Told
    <3>2. CASE kind \in firing
      BY <1>4, <1>5, <1>6, <1>7, <2>2, <3>1, <3>2
    <3>3. CASE kind \notin firing
      BY <1>6, <3>1, <3>3
    <3> QED  BY <3>2, <3>3
  <2> QED  BY <1>1, <2>1, <2>2
<1>10. ASSUME NEW kind \in DOMAIN last1
       PROVE  \E i \in 1..(n + 1) : kind \in log1[i] /\ rounds1[i].at = last1[kind]
  <2>1. CASE kind \in firing
    BY <1>1, <1>3, <1>6, <2>1
  <2>2. CASE kind \notin firing
    <3>1. kind \in DOMAIN last /\ last1[kind] = last[kind]
      BY <1>6, <1>10, <2>2
    <3>2. PICK i \in 1..n : kind \in log[i] /\ rounds[i].at = last[kind]
      BY <3>1 DEF Told
    <3>3. i \in 1..(n + 1)
      BY <1>1
    <3> QED  BY <1>3, <3>1, <3>2, <3>3
  <2> QED  BY <2>1, <2>2
<1>11. ASSUME NEW i \in 1..(n + 1), NEW j \in 1..(n + 1), i < j, log1[i] \intersect log1[j] # {}
       PROVE  rounds1[j].at - rounds1[i].at >= Thresholds.cooldown
  <2>1. i \in 1..n /\ rounds1[i] = rounds[i] /\ log1[i] = log[i]
    BY <1>1, <1>3, <1>11
  <2>2. CASE j = n + 1
    <3>1. PICK kind : kind \in log[i] /\ kind \in firing
      BY <1>3, <1>11, <2>1, <2>2
    <3>2. kind \in DOMAIN last /\ rounds[i].at <= last[kind]
      BY <2>1, <3>1 DEF Told
    <3>3. round.at - last[kind] >= Thresholds.cooldown
      BY <1>7, <3>1, <3>2
    <3>4. rounds1[j].at = round.at
      BY <1>3, <2>2
    <3> QED  BY <1>4, <1>5, <2>1, <3>2, <3>3, <3>4
  <2>3. CASE j \in 1..n
    BY <1>3, <1>11, <2>1, <2>3 DEF Told
  <2> QED  BY <1>1, <2>2, <2>3
<1>12. ASSUME NEW j \in 1..(n + 1), NEW kind \in Raised(rounds1[j].inputs)
       PROVE  \E i \in 1..j : kind \in log1[i] /\ rounds1[j].at - rounds1[i].at < Thresholds.cooldown
  <2>1. CASE j = n + 1
    <3>1. rounds1[j] = round /\ log1[j] = firing /\ j \in 1..j
      BY <1>1, <1>3, <2>1
    <3>2. CASE kind \in firing
      <4>1. rounds1[j].at - rounds1[j].at < Thresholds.cooldown
        BY <1>4, <3>1
      <4> QED  BY <3>1, <3>2, <4>1
    <3>3. CASE kind \notin firing
      <4>1. kind \in DOMAIN last /\ ~(round.at - last[kind] >= Thresholds.cooldown)
        BY <1>8, <1>12, <3>1, <3>3
      <4>2. PICK i \in 1..n : kind \in log[i] /\ rounds[i].at = last[kind]
        BY <4>1 DEF Told
      <4>3. i \in 1..j /\ rounds1[i] = rounds[i] /\ log1[i] = log[i]
        BY <1>1, <1>3, <2>1
      <4>4. rounds1[j].at - rounds1[i].at < Thresholds.cooldown
        BY <1>4, <1>5, <3>1, <4>1, <4>2, <4>3
      <4> QED  BY <4>2, <4>3, <4>4
    <3> QED  BY <3>2, <3>3
  <2>2. CASE j \in 1..n
    <3>1. rounds1[j] = rounds[j]
      BY <1>3, <2>2
    <3>2. PICK i \in 1..j : kind \in log[i] /\ rounds[j].at - rounds[i].at < Thresholds.cooldown
      BY <1>12, <2>2, <3>1 DEF Told
    <3>3. i \in 1..n
      BY <1>1, <2>2
    <3>4. rounds1[i] = rounds[i] /\ log1[i] = log[i]
      BY <1>3, <3>3
    <3> QED  BY <3>1, <3>2, <3>4
  <2> QED  BY <1>1, <2>1, <2>2
<1> QED  BY <1>3, <1>9, <1>10, <1>11, <1>12 DEF Told, rounds1, log1, last1, firing

AlertsTold == AboutAlerts => Told(question.rounds, question.log, question.last)

LEMMA AlertsKept ==
  ASSUME AlertsTold
  PROVE  AlertsAreApart /\ RaisedIsTold
<1> SUFFICES ASSUME AboutAlerts
             PROVE  AlertsAreApart /\ RaisedIsTold
  BY DEF AlertsAreApart, RaisedIsTold
<1>1. Told(Rounds, Log, question.last)
  BY DEF AlertsTold, Rounds, Log
<1>2. AlertsAreApart
  BY <1>1 DEF AlertsAreApart, Told
<1>3. RaisedIsTold
  BY <1>1 DEF RaisedIsTold, Told
<1> QED  BY <1>2, <1>3

LEMMA OwnerTold ==
  ASSUME SendAsked, MessageAsked, AlertsTold
  PROVE  OwnerIsTold
BY SentOnce, PausesKept, PauseSaid, FinalSaid, DiscountShown, AlertsKept DEF OwnerIsTold

-----------------------------------------------------------------------------
(* Startup: settings *)

\* Settings that load have no field that could not be read.
LEMMA LoadedFields ==
  ASSUME NEW e
  PROVE  LET s == FromLookup(e)
         IN Loads(e) <=>
              /\ s.env # Bad /\ s.format # Bad /\ s.database # Bad /\ s.connections # Bad
              /\ s.shopee # Bad /\ s.interval # Bad /\ s.concurrency # Bad /\ s.feed # Bad
              /\ s.url # Bad /\ s.accesstrade # Bad /\ s.token # Bad /\ s.replay # Bad
              /\ s.preflight # Bad /\ s.precision # Bad /\ s.telegram # Bad
              /\ s.bot # Bad /\ s.chat # Bad /\ s.page # Bad /\ s.manual # Bad /\ s.others # Bad
              /\ ~Invalid(s)
<1> DEFINE s == FromLookup(e)
<1>1. DOMAIN s = {"env", "format", "database", "connections", "shopee", "interval", "concurrency", "feed", "url",
                  "accesstrade", "token", "replay", "preflight", "precision", "telegram", "bot", "chat",
                  "page", "manual", "others"}
  BY DEF FromLookup
<1> HIDE DEF s
<1>2. Loads(e) <=> (\A field \in DOMAIN s : s[field] # Bad) /\ ~Invalid(s)
  BY DEF Loads, s
<1> QED  BY <1>1, <1>2 DEF s

\* A flag that was read is on if and only if it says so.
LEMMA FlagIsRead ==
  ASSUME NEW value, Flag(value, FALSE) # Bad
  PROVE  Flag(value, FALSE) = (value = "on")
<1>1. CASE ~Stated(value)
  <2>1. value # "on"
    BY <1>1, StartupAssumption DEF Stated
  <2>2. Flag(value, FALSE) = FALSE
    BY <1>1 DEF Flag
  <2> QED  BY <2>1, <2>2
<1>2. CASE Stated(value) /\ value = "on"
  <2>1. Flag(value, FALSE) = TRUE
    BY <1>2 DEF Flag
  <2> QED  BY <1>2, <2>1
<1>3. CASE Stated(value) /\ value = "off"
  <2>1. Flag(value, FALSE) = FALSE
    BY <1>3 DEF Flag
  <2> QED  BY <1>3, <2>1
<1>4. CASE Stated(value) /\ value \notin {"on", "off"}
  <2>1. Flag(value, FALSE) = Bad
    BY <1>4 DEF Flag
  <2> QED  BY <2>1
<1> QED  BY <1>1, <1>2, <1>3, <1>4

StartAsked == AboutStart => question.environment \in Environments

LEMMA EnabledRuns ==
  ASSUME StartAsked
  PROVE  EnabledSourceRuns
<1> DEFINE e == question.environment
           s == FromLookup(e)
           enabled == (IF e.ENABLE_EXTERNAL_FEED_COLLECTOR = "on" THEN {"external-feed"} ELSE {})
                        \union (IF e.ENABLE_ACCESSTRADE_COLLECTOR = "on" THEN {"accesstrade"} ELSE {})
                        \union (IF e.ENABLE_REPLAY_COLLECTOR = "on" THEN {"replay"} ELSE {})
<1> SUFFICES ASSUME AboutStart, Starts(e)
             PROVE  DOMAIN Workers(e) \ {"notifier", "maintenance"} = enabled
  BY DEF EnabledSourceRuns, Env
<1>1. s.feed # Bad /\ s.accesstrade # Bad /\ s.replay # Bad /\ ~Invalid(s)
  BY LoadedFields DEF Starts
<1>2. /\ s.feed = (e.ENABLE_EXTERNAL_FEED_COLLECTOR = "on")
      /\ s.accesstrade = (e.ENABLE_ACCESSTRADE_COLLECTOR = "on")
      /\ s.replay = (e.ENABLE_REPLAY_COLLECTOR = "on")
  <2>1. /\ s.feed = Flag(e.ENABLE_EXTERNAL_FEED_COLLECTOR, FALSE)
        /\ s.accesstrade = Flag(e.ENABLE_ACCESSTRADE_COLLECTOR, FALSE)
        /\ s.replay = Flag(e.ENABLE_REPLAY_COLLECTOR, FALSE)
    BY DEF FromLookup
  <2> HIDE DEF s
  <2>2. s.feed = (e.ENABLE_EXTERNAL_FEED_COLLECTOR = "on")
    BY <1>1, <2>1, FlagIsRead
  <2>3. s.accesstrade = (e.ENABLE_ACCESSTRADE_COLLECTOR = "on")
    BY <1>1, <2>1, FlagIsRead
  <2>4. s.replay = (e.ENABLE_REPLAY_COLLECTOR = "on")
    BY <1>1, <2>1, FlagIsRead
  <2> QED  BY <2>2, <2>3, <2>4
<1>3. DOMAIN Workers(e) = BuildCollectors(s) \union {"notifier", "maintenance"}
  BY DEF Workers
<1>4. s.feed \in BOOLEAN /\ s.accesstrade \in BOOLEAN /\ s.replay \in BOOLEAN
  BY <1>2
<1> HIDE DEF s
<1>5. (s.feed => Stated(s.url)) /\ (s.accesstrade => Stated(s.token))
  BY <1>1, <1>4 DEF Invalid, Stated
<1>6. BuildCollectors(s) = enabled
  BY <1>2, <1>5, Zenon DEF BuildCollectors
<1>7. enabled \intersect {"notifier", "maintenance"} = {}
  OBVIOUS
<1> QED  BY <1>3, <1>6, <1>7

LEMMA AcceptedStart ==
  ASSUME StartAsked
  PROVE  AcceptedSettingsStart
<1> DEFINE e == question.environment
           s == FromLookup(e)
<1> SUFFICES ASSUME AboutStart, Loads(e), Stated(e.LOG_FORMAT) => e.LOG_FORMAT \in LogFormats
             PROVE  Starts(e)
  BY DEF AcceptedSettingsStart, Env
<1>1. s.telegram # Bad /\ s.bot # Bad
  BY LoadedFields
<1>2. s.format \in LogFormats
  BY DEF FromLookup, Otherwise, LogFormats
<1>3. Stated(ChatId(s))
  <2>1. "0" # None
    BY StartupAssumption
  <2> QED  BY <2>1 DEF ChatId, Otherwise, Stated
<1>4. s.telegram = TRUE => Stated(s.bot)
  <2>1. s.telegram = TRUE => s.bot = Require(e.TELEGRAM_BOT_TOKEN)
    BY DEF FromLookup
  <2>2. Require(e.TELEGRAM_BOT_TOKEN) # Bad => Stated(Require(e.TELEGRAM_BOT_TOKEN))
    BY DEF Require, Otherwise
  <2> QED  BY <1>1, <2>1, <2>2
<1>5. s.telegram \in BOOLEAN
  BY <1>1, FlagIsRead DEF FromLookup
<1> QED  BY <1>2, <1>3, <1>4, <1>5 DEF Starts, NotifierStarts

\* The fields that are read from no key of a feature.
Unmoved(s, t) ==
  /\ s.env = t.env /\ s.format = t.format /\ s.database = t.database /\ s.connections = t.connections
  /\ s.shopee = t.shopee /\ s.interval = t.interval /\ s.concurrency = t.concurrency
  /\ s.feed = t.feed /\ s.accesstrade = t.accesstrade /\ s.replay = t.replay
  /\ s.preflight = t.preflight /\ s.precision = t.precision /\ s.telegram = t.telegram
  /\ s.page = t.page /\ s.manual = t.manual /\ s.others = t.others

\* The keys they are read from.
Rest(o, e) ==
  /\ o.APP_ENV = e.APP_ENV /\ o.LOG_FORMAT = e.LOG_FORMAT
  /\ o.DATABASE_URL = e.DATABASE_URL /\ o.DATABASE_MAX_CONNECTIONS = e.DATABASE_MAX_CONNECTIONS
  /\ o.SHOPEE_BASE_URL = e.SHOPEE_BASE_URL
  /\ o.COLLECTOR_DEFAULT_INTERVAL_SECS = e.COLLECTOR_DEFAULT_INTERVAL_SECS
  /\ o.COLLECTOR_MAX_CONCURRENCY = e.COLLECTOR_MAX_CONCURRENCY
  /\ o.ENABLE_EXTERNAL_FEED_COLLECTOR = e.ENABLE_EXTERNAL_FEED_COLLECTOR
  /\ o.ENABLE_ACCESSTRADE_COLLECTOR = e.ENABLE_ACCESSTRADE_COLLECTOR
  /\ o.ENABLE_REPLAY_COLLECTOR = e.ENABLE_REPLAY_COLLECTOR
  /\ o.SCHEDULER_PREFLIGHT_SECS = e.SCHEDULER_PREFLIGHT_SECS
  /\ o.SCHEDULER_PRECISION_WINDOW_SECS = e.SCHEDULER_PRECISION_WINDOW_SECS
  /\ o.ENABLE_TELEGRAM = e.ENABLE_TELEGRAM
  /\ o.ENABLE_SHOPEE_PAGE_COLLECTOR = e.ENABLE_SHOPEE_PAGE_COLLECTOR
  /\ o.ENABLE_MANUAL_COLLECTOR = e.ENABLE_MANUAL_COLLECTOR
  /\ \A key \in OtherKeys : o[key] = e[key]

\* None of the other keys is a key of a feature.
LEMMA OtherKeysAreNoFeatures ==
  OtherKeys \intersect {"TELEGRAM_BOT_TOKEN", "TELEGRAM_CHAT_ID", "EXTERNAL_FEED_URL", "ACCESSTRADE_TOKEN"} = {}
BY DEF OtherKeys, OtherNumbers, OtherFlags

LEMMA RestIsUnmoved ==
  ASSUME NEW e, NEW o, Rest(o, e)
  PROVE  Unmoved(FromLookup(e), FromLookup(o))
<1> DEFINE s == FromLookup(e)
           t == FromLookup(o)
           On(key) == Flag(key, FALSE)
<1>1. \A x : /\ FromLookup(x).env = AppEnv(x.APP_ENV)
             /\ FromLookup(x).format =
                  Otherwise(x.LOG_FORMAT, IF AppEnv(x.APP_ENV) = "production" THEN "json" ELSE "pretty")
             /\ FromLookup(x).database = Require(x.DATABASE_URL)
             /\ FromLookup(x).connections = Number(x.DATABASE_MAX_CONNECTIONS, 5)
  BY DEF FromLookup
<1>2. \A x : /\ FromLookup(x).shopee = Otherwise(x.SHOPEE_BASE_URL, "https:")
             /\ FromLookup(x).interval = Number(x.COLLECTOR_DEFAULT_INTERVAL_SECS, 120)
             /\ FromLookup(x).concurrency = Number(x.COLLECTOR_MAX_CONCURRENCY, 4)
             /\ FromLookup(x).feed = On(x.ENABLE_EXTERNAL_FEED_COLLECTOR)
  BY DEF FromLookup
<1>3. \A x : /\ FromLookup(x).accesstrade = On(x.ENABLE_ACCESSTRADE_COLLECTOR)
             /\ FromLookup(x).replay = On(x.ENABLE_REPLAY_COLLECTOR)
             /\ FromLookup(x).preflight = Number(x.SCHEDULER_PREFLIGHT_SECS, 600)
             /\ FromLookup(x).precision = Number(x.SCHEDULER_PRECISION_WINDOW_SECS, 10)
             /\ FromLookup(x).telegram = On(x.ENABLE_TELEGRAM)
  BY DEF FromLookup
<1> HIDE DEF On
<1>4. s.env = t.env /\ s.format = t.format /\ s.database = t.database /\ s.connections = t.connections
  BY <1>1 DEF Rest
<1>5. s.shopee = t.shopee /\ s.interval = t.interval /\ s.concurrency = t.concurrency /\ s.feed = t.feed
  BY <1>2 DEF Rest
<1>6. /\ s.accesstrade = t.accesstrade /\ s.replay = t.replay /\ s.preflight = t.preflight
      /\ s.precision = t.precision /\ s.telegram = t.telegram
  BY <1>3 DEF Rest
<1>7. s.others = t.others
  <2>1. OtherSettings(o) = OtherSettings(e)
    <3>1. o.HEALTHCHECK_BIND_ADDR = e.HEALTHCHECK_BIND_ADDR
      BY DEF Rest, OtherKeys
    <3>2. \A key \in OtherNumbers \union OtherFlags : o[key] = e[key]
      BY DEF Rest, OtherKeys
    <3> QED  BY <3>1, <3>2, Zenon DEF OtherSettings
  <2>2. \A x : FromLookup(x).others = OtherSettings(x)
    BY DEF FromLookup
  <2> QED  BY <2>1, <2>2
<1>8. s.page = t.page /\ s.manual = t.manual
  <2>1. \A x : /\ FromLookup(x).page = Flag(x.ENABLE_SHOPEE_PAGE_COLLECTOR, FALSE)
               /\ FromLookup(x).manual = Flag(x.ENABLE_MANUAL_COLLECTOR, TRUE)
    BY DEF FromLookup
  <2> QED  BY <2>1 DEF Rest
<1> HIDE DEF s, t
<1>9. Unmoved(s, t)
  BY <1>4, <1>5, <1>6, <1>7, <1>8 DEF Unmoved
<1> QED  BY <1>9 DEF s, t

\* Two settings that differ at most in what only a feature reads that is off.
Alike(s, t) ==
  /\ Unmoved(s, t)
  /\ s.bot = t.bot \/ (s.telegram \in {FALSE, Bad} /\ s.bot # Bad /\ t.bot # Bad)
  /\ s.chat = t.chat \/ (s.telegram \in {FALSE, Bad} /\ s.chat # Bad /\ t.chat # Bad)
  /\ s.url = t.url \/ (s.feed \in {FALSE, Bad} /\ s.url # Bad /\ t.url # Bad)
  /\ s.token = t.token \/ (s.accesstrade \in {FALSE, Bad} /\ s.token # Bad /\ t.token # Bad)

\* The flags of settings as they are read.
LEMMA FlagsAreFlags ==
  ASSUME NEW e
  PROVE  LET s == FromLookup(e)
         IN {s.feed, s.accesstrade, s.replay, s.telegram} \subseteq {TRUE, FALSE, Bad}
BY DEF FromLookup, Flag

LEMMA AlikeStart ==
  ASSUME NEW e, NEW o, Alike(FromLookup(e), FromLookup(o))
  PROVE  /\ Starts(o) <=> Starts(e)
         /\ Starts(e) => Workers(o) = Workers(e)
<1> DEFINE s == FromLookup(e)
           t == FromLookup(o)
<1>1. Alike(s, t)
  OBVIOUS
<1>2. /\ s.feed \in {TRUE, FALSE, Bad} /\ s.accesstrade \in {TRUE, FALSE, Bad}
      /\ s.replay \in {TRUE, FALSE, Bad} /\ s.telegram \in {TRUE, FALSE, Bad}
  BY FlagsAreFlags
<1>3. Loads(e) => s.feed \in BOOLEAN /\ s.accesstrade \in BOOLEAN /\ s.telegram \in BOOLEAN
  BY <1>2, LoadedFields
<1>4. Loads(o) => s.feed \in BOOLEAN /\ s.accesstrade \in BOOLEAN /\ s.telegram \in BOOLEAN
  <2>1. Loads(o) => t.feed # Bad /\ t.accesstrade # Bad /\ t.telegram # Bad
    BY LoadedFields
  <2> QED  BY <1>1, <1>2, <2>1 DEF Alike, Unmoved
<1>5. ASSUME s.feed \in BOOLEAN, s.accesstrade \in BOOLEAN, s.telegram \in BOOLEAN
      PROVE  /\ Invalid(s) <=> Invalid(t)
             /\ NotifierStarts(s) <=> NotifierStarts(t)
             /\ BuildCollectors(s) = BuildCollectors(t)
  <2> HIDE DEF s, t
  <2>1. /\ s.telegram = t.telegram /\ s.feed = t.feed /\ s.accesstrade = t.accesstrade /\ s.replay = t.replay
        /\ s.telegram \in {TRUE, FALSE} /\ s.feed \in {TRUE, FALSE} /\ s.accesstrade \in {TRUE, FALSE}
        /\ s.telegram = TRUE => s.bot = t.bot
        /\ s.feed = TRUE => s.url = t.url
        /\ s.accesstrade = TRUE => s.token = t.token
    BY <1>1, <1>5, StartupAssumption DEF Alike, Unmoved
  <2>2. (s.telegram /\ s.bot = "CHANGE_ME") <=> (t.telegram /\ t.bot = "CHANGE_ME")
    BY <2>1, Zenon
  <2>3. (s.feed /\ ~Stated(s.url)) <=> (t.feed /\ ~Stated(t.url))
    BY <2>1, Zenon
  <2>4. (s.accesstrade /\ s.token \in {None, "CHANGE_ME"}) <=> (t.accesstrade /\ t.token \in {None, "CHANGE_ME"})
    BY <2>1, Zenon
  <2>5. /\ s.database = t.database /\ s.connections = t.connections /\ s.shopee = t.shopee
        /\ s.concurrency = t.concurrency /\ s.precision = t.precision /\ s.preflight = t.preflight
    BY <1>1 DEF Alike, Unmoved
  <2>6. Invalid(s) <=> Invalid(t)
    BY <2>2, <2>3, <2>4, <2>5, Zenon DEF Invalid
  <2>7. Stated(ChatId(s)) /\ Stated(ChatId(t))
    BY StartupAssumption DEF ChatId, Otherwise, Stated
  <2>8. (s.telegram => Stated(s.bot)) <=> (t.telegram => Stated(t.bot))
    BY <2>1, Zenon
  <2>9. NotifierStarts(s) <=> NotifierStarts(t)
    BY <2>7, <2>8 DEF NotifierStarts
  <2>10. /\ (s.feed /\ Stated(s.url)) <=> (t.feed /\ Stated(t.url))
         /\ (s.accesstrade /\ Stated(s.token)) <=> (t.accesstrade /\ Stated(t.token))
    BY <2>1, Zenon
  <2>11. BuildCollectors(s) = BuildCollectors(t)
    BY <2>1, <2>10, Zenon DEF BuildCollectors
  <2> QED  BY <2>6, <2>9, <2>11
<1>6. Loads(o) <=> Loads(e)
  <2>1. Loads(e) => Loads(o)
    BY <1>1, <1>3, <1>5, LoadedFields DEF Alike, Unmoved
  <2>2. Loads(o) => Loads(e)
    BY <1>1, <1>4, <1>5, LoadedFields DEF Alike, Unmoved
  <2> QED  BY <2>1, <2>2
<1>7. Starts(o) <=> Starts(e)
  BY <1>1, <1>3, <1>5, <1>6 DEF Starts, Alike, Unmoved
<1>8. Starts(e) => Workers(o) = Workers(e)
  <2>1. Starts(e) => BuildCollectors(s) = BuildCollectors(t) /\ s.interval = t.interval
    BY <1>1, <1>3, <1>5 DEF Starts, Alike, Unmoved
  <2> QED  BY <2>1 DEF Workers
<1> QED  BY <1>7, <1>8

LEMMA OffIsIgnored ==
  ASSUME StartAsked
  PROVE  SwitchedOffIsIgnored
<1> DEFINE e == question.environment
           Other(key, value) == [e EXCEPT ![key] = value]
           s == FromLookup(e)
<1> SUFFICES ASSUME AboutStart,
                    NEW feature \in DOMAIN Features, e[feature] # "on",
                    NEW key \in Features[feature], NEW value \in {None, "CHANGE_ME", "secret"}
             PROVE  /\ Starts(Other(key, value)) <=> Starts(e)
                    /\ Starts(e) => Workers(Other(key, value)) = Workers(e)
  BY DEF SwitchedOffIsIgnored, Env
<1> DEFINE o == Other(key, value)
           t == FromLookup(o)
<1>1. DOMAIN e = Keys /\ (\A k \in Keys : e[k] # Bad) /\ value # Bad
  BY StartupAssumption DEF StartAsked
<1>2. \A k \in Keys : o[k] = IF k = key THEN value ELSE e[k]
  BY <1>1
<1>3. ASSUME NEW flag, flag # "on" PROVE Flag(flag, FALSE) \in {FALSE, Bad}
  BY <1>3 DEF Flag
<1> HIDE DEF o
<1>4. CASE feature = "ENABLE_TELEGRAM"
  <2>1. key \in {"TELEGRAM_BOT_TOKEN", "TELEGRAM_CHAT_ID"}
    BY <1>4 DEF Features
  <2>2. Alike(s, t)
    <3>1. Flag(e.ENABLE_TELEGRAM, FALSE) \in {FALSE, Bad}
      BY <1>3, <1>4
    <3>2. \A k \in Keys \ {"TELEGRAM_BOT_TOKEN", "TELEGRAM_CHAT_ID"} : o[k] = e[k]
      BY <1>2, <2>1
    <3>3. o.TELEGRAM_BOT_TOKEN # Bad /\ o.TELEGRAM_CHAT_ID # Bad /\ e.TELEGRAM_BOT_TOKEN # Bad /\ e.TELEGRAM_CHAT_ID # Bad
      BY <1>1, <1>2 DEF Keys
    <3>4. o.ENABLE_TELEGRAM = e.ENABLE_TELEGRAM
      BY <3>2 DEF Keys
    <3>5. /\ s.telegram = Flag(e.ENABLE_TELEGRAM, FALSE) /\ t.telegram = s.telegram
          /\ s.bot = e.TELEGRAM_BOT_TOKEN /\ t.bot = o.TELEGRAM_BOT_TOKEN
          /\ s.chat = e.TELEGRAM_CHAT_ID /\ t.chat = o.TELEGRAM_CHAT_ID
      BY <3>1, <3>4, StartupAssumption, Zenon DEF FromLookup
    <3>6. Rest(o, e)
      BY <3>2, OtherKeysAreNoFeatures DEF Rest, Keys
    <3>7. o.EXTERNAL_FEED_URL = e.EXTERNAL_FEED_URL /\ o.ACCESSTRADE_TOKEN = e.ACCESSTRADE_TOKEN
      BY <3>2 DEF Keys
    <3>8. s.url = t.url /\ s.token = t.token
      BY <3>7 DEF FromLookup
    <3>9. Unmoved(s, t)
      BY <3>6, RestIsUnmoved
    <3> HIDE DEF s, t
    <3> QED  BY <3>1, <3>3, <3>5, <3>8, <3>9 DEF Alike
  <2> QED  BY <2>2, AlikeStart DEF o
<1>5. CASE feature = "ENABLE_EXTERNAL_FEED_COLLECTOR"
  <2>1. key = "EXTERNAL_FEED_URL"
    BY <1>5 DEF Features
  <2>2. Alike(s, t)
    <3>1. s.feed \in {FALSE, Bad}
      BY <1>3, <1>5 DEF FromLookup
    <3>2. \A k \in Keys \ {"EXTERNAL_FEED_URL"} : o[k] = e[k]
      BY <1>2, <2>1
    <3>3. s.url # Bad /\ t.url # Bad
      BY <1>1, <1>2 DEF Keys, FromLookup
    <3>4. Unmoved(s, t)
      BY <3>2, RestIsUnmoved, OtherKeysAreNoFeatures DEF Rest, Keys
    <3>5. /\ o.TELEGRAM_BOT_TOKEN = e.TELEGRAM_BOT_TOKEN /\ o.TELEGRAM_CHAT_ID = e.TELEGRAM_CHAT_ID
          /\ o.ACCESSTRADE_TOKEN = e.ACCESSTRADE_TOKEN /\ o.ENABLE_TELEGRAM = e.ENABLE_TELEGRAM
      BY <3>2 DEF Keys
    <3>6. s.bot = t.bot /\ s.chat = t.chat /\ s.token = t.token
      BY <3>5 DEF FromLookup
    <3> HIDE DEF s, t
    <3> QED  BY <3>1, <3>3, <3>4, <3>6 DEF Alike, Unmoved
  <2> QED  BY <2>2, AlikeStart DEF o
<1>6. CASE feature = "ENABLE_ACCESSTRADE_COLLECTOR"
  <2>1. key = "ACCESSTRADE_TOKEN"
    BY <1>6 DEF Features
  <2>2. Alike(s, t)
    <3>1. s.accesstrade \in {FALSE, Bad}
      BY <1>3, <1>6 DEF FromLookup
    <3>2. \A k \in Keys \ {"ACCESSTRADE_TOKEN"} : o[k] = e[k]
      BY <1>2, <2>1
    <3>3. s.token # Bad /\ t.token # Bad
      BY <1>1, <1>2 DEF Keys, FromLookup
    <3>4. Unmoved(s, t)
      BY <3>2, RestIsUnmoved, OtherKeysAreNoFeatures DEF Rest, Keys
    <3>5. /\ o.TELEGRAM_BOT_TOKEN = e.TELEGRAM_BOT_TOKEN /\ o.TELEGRAM_CHAT_ID = e.TELEGRAM_CHAT_ID
          /\ o.EXTERNAL_FEED_URL = e.EXTERNAL_FEED_URL /\ o.ENABLE_TELEGRAM = e.ENABLE_TELEGRAM
      BY <3>2 DEF Keys
    <3>6. s.bot = t.bot /\ s.chat = t.chat /\ s.url = t.url
      BY <3>5 DEF FromLookup
    <3> HIDE DEF s, t
    <3> QED  BY <3>1, <3>3, <3>4, <3>6 DEF Alike, Unmoved
  <2> QED  BY <2>2, AlikeStart DEF o
<1> QED  BY <1>4, <1>5, <1>6 DEF Features

-----------------------------------------------------------------------------
(* Startup: the control plane and the commands *)

\* What the controls are after calls: the owner's last word, and no one else's.
Obeyed(token, calls, c) ==
  /\ calls \in Seq(AdminCalls)
  /\ c \in [paused : BOOLEAN, refresh : BOOLEAN, healthy : BOOLEAN]
  /\ c.paused = TRUE <=>
       \E i \in 1..Len(calls) :
          /\ IsOwners(token, calls[i], "pause")
          /\ \A j \in i..Len(calls) : ~IsOwners(token, calls[j], "resume")
  /\ c.refresh = TRUE <=> \E i \in 1..Len(calls) : IsOwners(token, calls[i], "refresh")

\* What one call does to the controls.
LEMMA OneCall ==
  ASSUME NEW token, NEW x, NEW c \in [paused : BOOLEAN, refresh : BOOLEAN, healthy : BOOLEAN]
  PROVE  LET c1 == Operate(token, c, x)
         IN /\ c1 \in [paused : BOOLEAN, refresh : BOOLEAN, healthy : BOOLEAN]
            /\ c1.paused = TRUE <=> IsOwners(token, x, "pause") \/ (c.paused = TRUE /\ ~IsOwners(token, x, "resume"))
            /\ c1.refresh = TRUE <=> IsOwners(token, x, "refresh") \/ c.refresh = TRUE
<1> DEFINE c1 == Operate(token, c, x)
<1>1. /\ c = [paused |-> c.paused, refresh |-> c.refresh, healthy |-> c.healthy]
      /\ c.paused \in BOOLEAN /\ c.refresh \in BOOLEAN /\ c.healthy \in BOOLEAN
  OBVIOUS
<1>2. CASE x.call \in Reports
  <2>1. c1 = [c EXCEPT !.healthy = x.call = "healthy"]
    <3>1. x.call = "healthy" \/ x.call = "unhealthy"
      BY <1>2 DEF Reports
    <3> QED  BY <1>2, <3>1 DEF Operate
  <2>2. x.call \notin {"pause", "resume", "refresh"}
    BY <1>2 DEF Reports
  <2>3. (x.call = "healthy") \in BOOLEAN
    OBVIOUS
  <2> QED  BY <1>1, <2>1, <2>2, <2>3 DEF IsOwners
<1>3. CASE x.call = "pause" /\ Authorized(token, x.header)
  <2>1. c1 = [c EXCEPT !.paused = TRUE]
    BY <1>3 DEF Operate, Reports
  <2> QED  BY <1>1, <1>3, <2>1 DEF IsOwners, Authorized
<1>4. CASE x.call = "resume" /\ Authorized(token, x.header)
  <2>1. c1 = [c EXCEPT !.paused = FALSE]
    BY <1>4 DEF Operate, Reports
  <2> QED  BY <1>1, <1>4, <2>1 DEF IsOwners, Authorized
<1>5. CASE x.call = "refresh" /\ Authorized(token, x.header)
  <2>1. c1 = [c EXCEPT !.refresh = TRUE]
    BY <1>5 DEF Operate, Reports
  <2> QED  BY <1>1, <1>5, <2>1 DEF IsOwners, Authorized
<1>6. CASE /\ x.call \notin Reports
           /\ ~(x.call \in {"pause", "resume", "refresh"} /\ Authorized(token, x.header))
  <2>1. c1 = c
    BY <1>6 DEF Operate
  <2> QED  BY <1>1, <1>6, <2>1 DEF IsOwners, Authorized
<1> QED  BY <1>2, <1>3, <1>4, <1>5, <1>6

LEMMA StillObeyed ==
  ASSUME NEW token, NEW calls, NEW c, Obeyed(token, calls, c), NEW x \in AdminCalls
  PROVE  Obeyed(token, Append(calls, x), Operate(token, c, x))
<1> DEFINE n      == Len(calls)
           calls1 == Append(calls, x)
           c1     == Operate(token, c, x)
           Owners(s, i, call) == IsOwners(token, s[i], call)
<1>1. /\ calls \in Seq(AdminCalls) /\ n \in Nat
      /\ c \in [paused : BOOLEAN, refresh : BOOLEAN, healthy : BOOLEAN]
  BY DEF Obeyed
<1>2. /\ calls1 \in Seq(AdminCalls) /\ Len(calls1) = n + 1
      /\ \A i \in 1..n : calls1[i] = calls[i]
      /\ calls1[n + 1] = x
  BY <1>1
<1>3. /\ c1 \in [paused : BOOLEAN, refresh : BOOLEAN, healthy : BOOLEAN]
      /\ c1.paused = TRUE <=> IsOwners(token, x, "pause") \/ (c.paused = TRUE /\ ~IsOwners(token, x, "resume"))
      /\ c1.refresh = TRUE <=> IsOwners(token, x, "refresh") \/ c.refresh = TRUE
  BY <1>1, OneCall
<1>4. ~(IsOwners(token, x, "pause") /\ IsOwners(token, x, "resume"))
  BY DEF IsOwners
<1>5. /\ c.paused = TRUE <=>
           \E i \in 1..n : Owners(calls, i, "pause") /\ \A j \in i..n : ~Owners(calls, j, "resume")
      /\ c.refresh = TRUE <=> \E i \in 1..n : Owners(calls, i, "refresh")
  BY DEF Obeyed
<1> HIDE DEF calls1, c1
<1>6. /\ \A i \in 1..n : \A call \in {"pause", "resume", "refresh"} :
           Owners(calls1, i, call) <=> Owners(calls, i, call)
      /\ \A call \in {"pause", "resume", "refresh"} : Owners(calls1, n + 1, call) <=> IsOwners(token, x, call)
  BY <1>2
<1> HIDE DEF Owners, n
<1>7. c1.paused = TRUE <=>
        \E i \in 1..(n + 1) : Owners(calls1, i, "pause") /\ \A j \in i..(n + 1) : ~Owners(calls1, j, "resume")
  <2>1. ASSUME IsOwners(token, x, "pause")
        PROVE  Owners(calls1, n + 1, "pause") /\ \A j \in (n + 1)..(n + 1) : ~Owners(calls1, j, "resume")
    BY <1>1, <1>4, <1>6, <2>1
  <2>2. ASSUME c.paused = TRUE, ~IsOwners(token, x, "resume")
        PROVE  \E i \in 1..(n + 1) : Owners(calls1, i, "pause") /\ \A j \in i..(n + 1) : ~Owners(calls1, j, "resume")
    <3>1. PICK i \in 1..n : Owners(calls, i, "pause") /\ \A j \in i..n : ~Owners(calls, j, "resume")
      BY <1>5, <2>2
    <3>2. ASSUME NEW j \in i..(n + 1) PROVE ~Owners(calls1, j, "resume")
      <4>1. CASE j = n + 1
        BY <1>6, <2>2, <4>1
      <4>2. CASE j \in i..n
        <5>1. j \in 1..n
          BY <1>1, <4>2
        <5> QED  BY <1>6, <3>1, <4>2, <5>1
      <4> QED  BY <1>1, <4>1, <4>2
    <3>3. Owners(calls1, i, "pause") /\ i \in 1..(n + 1)
      BY <1>1, <1>6, <3>1
    <3> QED  BY <3>2, <3>3
  <2>3. ASSUME NEW i \in 1..(n + 1), Owners(calls1, i, "pause"),
               \A j \in i..(n + 1) : ~Owners(calls1, j, "resume"), ~IsOwners(token, x, "pause")
        PROVE  c.paused = TRUE /\ ~IsOwners(token, x, "resume")
    <3>1. i # n + 1
      BY <1>6, <2>3
    <3>2. i \in 1..n
      BY <1>1, <3>1
    <3>3. Owners(calls, i, "pause")
      BY <1>6, <2>3, <3>2
    <3>4. \A j \in i..n : j \in i..(n + 1) /\ j \in 1..n
      BY <1>1, <3>2
    <3>5. \A j \in i..n : ~Owners(calls, j, "resume")
      BY <1>6, <2>3, <3>4
    <3>6. n + 1 \in i..(n + 1)
      BY <1>1
    <3>7. ~IsOwners(token, x, "resume")
      BY <1>6, <2>3, <3>6
    <3> QED  BY <1>5, <3>2, <3>3, <3>5, <3>7
  <2>4. n + 1 \in 1..(n + 1)
    BY <1>1
  <2> QED  BY <1>3, <2>1, <2>2, <2>3, <2>4
<1>8. c1.refresh = TRUE <=> \E i \in 1..(n + 1) : Owners(calls1, i, "refresh")
  <2>1. ASSUME NEW i \in 1..(n + 1) PROVE i = n + 1 \/ i \in 1..n
    BY <1>1
  <2>2. n + 1 \in 1..(n + 1) /\ \A i \in 1..n : i \in 1..(n + 1)
    BY <1>1
  <2> QED  BY <1>3, <1>5, <1>6, <2>1, <2>2
<1> QED  BY <1>2, <1>3, <1>7, <1>8 DEF Obeyed, calls1, c1, Owners, n

ControlsAreObeyed == AboutControl => Obeyed(question.token, question.calls, question.controls)

LEMMA OwnersOperate ==
  ASSUME ControlsAreObeyed
  PROVE  OnlyTheOwnerOperates
<1> DEFINE n == Len(question.calls)
           c == question.controls
           Owners(i, call) == IsOwners(question.token, question.calls[i], call)
<1> SUFFICES ASSUME AboutControl
             PROVE  /\ c.paused <=> \E i \in 1..n : Owners(i, "pause") /\ \A j \in i..n : ~Owners(j, "resume")
                    /\ c.refresh <=> \E i \in 1..n : Owners(i, "refresh")
                    /\ ClaimsAllowed(c) => \A i \in 1..n : Owners(i, "pause") => \E j \in i..n : Owners(j, "resume")
  BY DEF OnlyTheOwnerOperates
<1>1. /\ c.paused \in BOOLEAN /\ c.refresh \in BOOLEAN
      /\ c.paused = TRUE <=> \E i \in 1..n : Owners(i, "pause") /\ \A j \in i..n : ~Owners(j, "resume")
      /\ c.refresh = TRUE <=> \E i \in 1..n : Owners(i, "refresh")
  BY DEF ControlsAreObeyed, Obeyed
<1> HIDE DEF Owners, n, c
<1>2. (c.paused <=> c.paused = TRUE) /\ (c.refresh <=> c.refresh = TRUE)
  BY <1>1, Zenon
<1>3. ClaimsAllowed(c) => ~(c.paused = TRUE)
  BY <1>1, Zenon DEF ClaimsAllowed
<1> QED  BY <1>1, <1>2, <1>3, Zenon

LEMMA MeaningKept == CommandsKeepTheirMeaning
<1> DEFINE m == question.message
<1> SUFFICES ASSUME TRUE
             PROVE  LET answer == AuthorizeChat({"owner"}, m.chat, m.word, m.bot)
                    IN /\ answer = AuthorizeChat({"owner"}, m.chat, m.word, ~m.bot)
                       /\ m.chat # "owner" => answer[1] # "Authorized"
                       /\ m.chat = "owner" /\ m.word \in HelpText => answer = <<"Authorized", m.word>>
  BY DEF CommandsKeepTheirMeaning
<1>1. AuthorizeChat({"owner"}, m.chat, m.word, m.bot) = AuthorizeChat({"owner"}, m.chat, m.word, ~m.bot)
  BY DEF AuthorizeChat, ParseCommand
<1>2. m.chat # "owner" => AuthorizeChat({"owner"}, m.chat, m.word, m.bot)[1] # "Authorized"
  BY DEF AuthorizeChat
<1>3. m.chat = "owner" /\ m.word \in HelpText =>
        AuthorizeChat({"owner"}, m.chat, m.word, m.bot) = <<"Authorized", m.word>>
  BY StartupAssumption DEF AuthorizeChat, ParseCommand, HelpText, Commands, Stated
<1> QED  BY <1>1, <1>2, <1>3

LEMMA SettingsHold ==
  ASSUME StartAsked, ControlsAreObeyed
  PROVE  SettingsAreHonoured
BY EnabledRuns, OffIsIgnored, AcceptedStart, OwnersOperate, MeaningKept DEF SettingsAreHonoured

-----------------------------------------------------------------------------
(* Every question that is asked is one of those the lemmas are about. *)

Asked ==
  /\ AnswerAsked /\ SendAsked /\ MessageAsked /\ StartAsked
  /\ AlertsTold /\ ControlsAreObeyed

\* The topics of these lemmas; any other question leaves nothing to show.
Topics ==
  {"response", "send", "sessionMessage", "claimMessage", "voucherMessage", "start", "alerts", "control"}

LEMMA OtherTopic ==
  ASSUME question.about \notin Topics
  PROVE  Asked
BY DEF Topics, Asked, AnswerAsked, SendAsked, MessageAsked, StartAsked, AlertsTold, ControlsAreObeyed,
       AboutResponse, AboutSend, AboutStart, AboutAlerts, AboutControl

\* What an action asks about.
LEMMA TopicOf ==
  /\ AskScore => question'.about = "score"
  /\ AskRelevance => question'.about = "relevance"
  /\ AskPlan => question'.about = "plan"
  /\ AskCampaign => question'.about = "campaign"
  /\ AskIngest => question'.about = "ingest"
  /\ Observe => question'.about = "ingest"
  /\ AskCollected => question'.about = "collected"
  /\ AskFed => question'.about = "collected"
  /\ AskPace => question'.about = "pace"
  /\ AskBudget => question'.about = "budget"
  /\ TryConsume => question'.about = "budget"
  /\ AskStage => question'.about = "stage"
  /\ AskCollection => question'.about = "collection"
  /\ AskReplay => question'.about = "replay"
  /\ AskResponse => question'.about = "response"
  /\ AskSource => question'.about = "source"
  /\ AskDiscovery => question'.about = "discovery"
  /\ AskTimings => question'.about = "timings"
  /\ AskSend => question'.about = "send"
  /\ AskAlerts => question'.about = "alerts"
  /\ EvaluateAlerts => question'.about = "alerts"
  /\ AskStart => question'.about = "start"
  /\ AskDelay => question'.about = "delay"
  /\ AskControl => question'.about = "control"
  /\ CallControl => question'.about = "control"
  /\ AskCommand => question'.about = "command"
  /\ AskVoucherRow => question'.about = "voucherRow"
  /\ AskAttemptRow => question'.about = "attemptRow"
  /\ AskJobTable => question'.about = "jobs"
  /\ AskRunTable => question'.about = "runs"
  /\ AskMessage => question'.about \in {"sessionMessage", "claimMessage", "voucherMessage"}
<1>1. /\ AskScore => question'.about = "score"
      /\ AskRelevance => question'.about = "relevance"
      /\ AskPlan => question'.about = "plan"
      /\ AskCampaign => question'.about = "campaign"
      /\ AskCollected => question'.about = "collected"
  BY DEF AskScore, AskRelevance, AskPlan, AskCampaign, AskCollected
<1>2. /\ AskFed => question'.about = "collected"
      /\ AskPace => question'.about = "pace"
      /\ AskBudget => question'.about = "budget"
      /\ TryConsume => question'.about = "budget"
      /\ AskStage => question'.about = "stage"
  BY DEF AskFed, AskPace, AskBudget, TryConsume, AskStage
<1>3. /\ AskReplay => question'.about = "replay"
      /\ AskDiscovery => question'.about = "discovery"
      /\ AskTimings => question'.about = "timings"
      /\ AskSend => question'.about = "send"
      /\ AskAlerts => question'.about = "alerts"
  BY DEF AskReplay, AskDiscovery, AskTimings, AskSend, AskAlerts
<1>4. /\ AskStart => question'.about = "start"
      /\ AskDelay => question'.about = "delay"
      /\ AskControl => question'.about = "control"
      /\ AskCommand => question'.about = "command"
      /\ AskVoucherRow => question'.about = "voucherRow"
  BY DEF AskStart, AskDelay, AskControl, AskCommand, AskVoucherRow
<1>5. /\ AskAttemptRow => question'.about = "attemptRow"
      /\ AskJobTable => question'.about = "jobs"
      /\ AskRunTable => question'.about = "runs"
  BY DEF AskAttemptRow, AskJobTable, AskRunTable
<1>6. ASSUME AskIngest PROVE question'.about = "ingest"
  <2>1. PICK observed, row, merged :
          question' = [about |-> "ingest", observed |-> observed, row |-> row, merged |-> merged]
    BY <1>6, Zenon DEF AskIngest
  <2> QED  BY <2>1
<1>7. ASSUME Observe PROVE question'.about = "ingest"
  <2>1. PICK observed, row, merged :
          question' = [about |-> "ingest", observed |-> observed, row |-> row, merged |-> merged]
    BY <1>7, Zenon DEF Observe
  <2> QED  BY <2>1
<1>8. ASSUME AskCollection PROVE question'.about = "collection"
  <2>1. PICK answer, batch, token, upserts, recorded :
          question' = [about |-> "collection", answer |-> answer, batch |-> batch, token |-> token,
                       upserts |-> upserts, recorded |-> recorded]
    BY <1>8, Zenon DEF AskCollection
  <2> QED  BY <2>1
<1>9. ASSUME AskResponse PROVE question'.about = "response"
  <2>1. PICK status, b :
          question' = [about |-> "response", status |-> status, body |-> b]
    BY <1>9, Zenon DEF AskResponse
  <2> QED  BY <2>1
<1>10. ASSUME AskSource PROVE question'.about = "source"
  <2>1. PICK log, unique, later :
          question' = [about |-> "source", log |-> log, unique |-> unique, later |-> later]
    BY <1>10, Zenon DEF AskSource
  <2> QED  BY <2>1
<1>11. ASSUME EvaluateAlerts PROVE question'.about = "alerts"
  <2>1. PICK rounds, last, log :
          question' = [about |-> "alerts", rounds |-> rounds, last |-> last, log |-> log]
    BY <1>11, Zenon DEF EvaluateAlerts
  <2> QED  BY <2>1
<1>12. ASSUME CallControl PROVE question'.about = "control"
  <2>1. PICK token, calls, controls :
          question' = [about |-> "control", token |-> token, calls |-> calls, controls |-> controls]
    BY <1>12, Zenon DEF CallControl
  <2> QED  BY <2>1
<1>13. AskMessage => question'.about \in {"sessionMessage", "claimMessage", "voucherMessage"}
  BY DEF AskMessage
<1> QED  BY <1>1, <1>2, <1>3, <1>4, <1>5, <1>6, <1>7, <1>8, <1>9, <1>10, <1>11, <1>12, <1>13, Zenon

LEMMA OtherQuestions ==
  ASSUME \/ AskScore \/ AskRelevance \/ AskPlan \/ AskCampaign
         \/ AskIngest \/ AskCollected \/ AskFed \/ AskPace \/ AskBudget \/ AskStage
         \/ AskCollection \/ AskReplay \/ AskSource \/ AskDiscovery \/ AskTimings
         \/ AskDelay \/ AskCommand
         \/ AskVoucherRow \/ AskAttemptRow \/ AskJobTable \/ AskRunTable
         \/ TryConsume \/ Observe
  PROVE  question'.about \notin Topics
BY TopicOf DEF Topics

LEMMA AskedFirst == Init => Asked
BY OtherTopic DEF Init, Topics

\* What an action asks is well asked, and a dialogue that goes on stays one.
LEMMA AskedNext == Asked /\ [Next]_question => Asked'
<1> SUFFICES ASSUME Asked, [Next]_question
             PROVE  Asked'
  OBVIOUS
<1>1. ASSUME question'.about \notin Topics PROVE Asked'
  BY <1>1 DEF Topics, Asked, AnswerAsked, SendAsked, MessageAsked, StartAsked, AlertsTold, ControlsAreObeyed,
              AboutResponse, AboutSend, AboutStart, AboutAlerts, AboutControl
<1>2. CASE AskResponse
  <2>1. /\ question'.about = "response"
        /\ question'.status \in Statuses \union {None}
    BY <1>2 DEF AskResponse
  <2> QED  BY <2>1 DEF Asked, AnswerAsked, SendAsked, MessageAsked, StartAsked, AlertsTold, ControlsAreObeyed,
                       AboutResponse, AboutSend, AboutStart, AboutAlerts, AboutControl
<1>3. CASE AskSend
  <2>1. question'.about = "send" /\ question'.replies \in [1..MaxSends -> Replies]
    BY <1>3 DEF AskSend
  <2> QED  BY <2>1 DEF Asked, AnswerAsked, SendAsked, MessageAsked, StartAsked, AlertsTold, ControlsAreObeyed,
                       AboutResponse, AboutSend, AboutStart, AboutAlerts, AboutControl
<1>4. CASE AskMessage
  <2>1. \/ question'.about = "sessionMessage" /\ question'.to \in SessionState
        \/ question'.about = "claimMessage" /\ question'.class \in Claims!ResultClass
        \/ question'.about = "voucherMessage" /\ question'.v \in ShownVouchers /\ question'.spend \in Nat
    BY <1>4 DEF AskMessage
  <2> QED  BY <2>1 DEF Asked, AnswerAsked, SendAsked, MessageAsked, StartAsked, AlertsTold, ControlsAreObeyed,
                       AboutResponse, AboutSend, AboutStart, AboutAlerts, AboutControl
<1>5. CASE AskStart
  <2>1. question'.about = "start" /\ question'.environment \in Environments
    BY <1>5 DEF AskStart
  <2> QED  BY <2>1 DEF Asked, AnswerAsked, SendAsked, MessageAsked, StartAsked, AlertsTold, ControlsAreObeyed,
                       AboutResponse, AboutSend, AboutStart, AboutAlerts, AboutControl
<1>6. ASSUME question'.about = "alerts", Told(question'.rounds, question'.log, question'.last)
      PROVE  Asked'
  BY <1>6 DEF Asked, AnswerAsked, SendAsked, MessageAsked, StartAsked, AlertsTold, ControlsAreObeyed,
              AboutResponse, AboutSend, AboutStart, AboutAlerts, AboutControl
<1>7. CASE AskAlerts
  <2>1. /\ question'.about = "alerts" /\ question'.rounds = << >> /\ question'.log = << >>
        /\ DOMAIN question'.last = {}
    BY <1>7 DEF AskAlerts
  <2>2. Told(question'.rounds, question'.log, question'.last)
    BY <2>1 DEF Told
  <2> QED  BY <1>6, <2>1, <2>2
<1>8. CASE EvaluateAlerts
  <2>1. PICK at \in AlertTimes, inputs \in Inputs :
          LET round == [at |-> at, inputs |-> inputs]
          IN question' = [about  |-> "alerts",
                          rounds |-> Append(question.rounds, round),
                          last   |-> LastFired(question.last, round),
                          log    |-> Append(question.log, Firing(question.last, round))]
    BY <1>8 DEF EvaluateAlerts
  <2>2. Told(question.rounds, question.log, question.last)
    BY <1>8 DEF EvaluateAlerts, Asked, AlertsTold
  <2>3. Told(question'.rounds, question'.log, question'.last)
    BY <2>1, <2>2, ToldOnce
  <2> QED  BY <1>6, <2>1, <2>3
<1>9. ASSUME question'.about = "control", Obeyed(question'.token, question'.calls, question'.controls)
      PROVE  Asked'
  BY <1>9 DEF Asked, AnswerAsked, SendAsked, MessageAsked, StartAsked, AlertsTold, ControlsAreObeyed,
              AboutResponse, AboutSend, AboutStart, AboutAlerts, AboutControl
<1>10. CASE AskControl
  <2>1. question'.about = "control" /\ question'.calls = << >> /\ question'.controls = NewControls
    BY <1>10 DEF AskControl
  <2>2. Obeyed(question'.token, question'.calls, question'.controls)
    BY <2>1 DEF Obeyed, NewControls
  <2> QED  BY <1>9, <2>1, <2>2
<1>11. CASE CallControl
  <2>1. PICK x \in AdminCalls :
          question' = [about    |-> "control",
                       token    |-> question.token,
                       calls    |-> Append(question.calls, x),
                       controls |-> Operate(question.token, question.controls, x)]
    BY <1>11 DEF CallControl
  <2>2. Obeyed(question.token, question.calls, question.controls)
    BY <1>11 DEF CallControl, Asked, ControlsAreObeyed
  <2>3. Obeyed(question'.token, question'.calls, question'.controls)
    BY <2>1, <2>2, StillObeyed
  <2> QED  BY <1>9, <2>1, <2>3
<1>12. CASE UNCHANGED question
  BY <1>12 DEF Asked, AnswerAsked, SendAsked, MessageAsked, StartAsked, AlertsTold, ControlsAreObeyed,
               AboutResponse, AboutSend, AboutStart, AboutAlerts, AboutControl
<1> QED
  BY <1>1, <1>2, <1>3, <1>4, <1>5, <1>7, <1>8, <1>10, <1>11, <1>12, OtherQuestions DEF Next, Ask

THEOREM AskedInvariant == Spec => []Asked
BY AskedFirst, AskedNext, PTL DEF Spec

-----------------------------------------------------------------------------
\* Answers of the platform are read the same on both paths, whatever the
\* statuses and bodies: a wall is one to claims and probes, a refusal in words
\* is a success only by an explicit code, and healthy is proven (classify.rs).
THEOREM AnswersAreAlwaysReadRight == Spec => []AnswersAreReadRight
BY AskedInvariant, AnswersRead, PTL DEF Asked

\* The owner is told once, in time, and what is so: for every channel, every
\* message, and every evaluator however often it is called (telegram.rs,
\* format.rs, alerts.rs).
THEOREM OwnerIsAlwaysTold == Spec => []OwnerIsTold
BY AskedInvariant, OwnerTold, PTL DEF Asked

\* The owner's settings and commands are honoured: for every environment, that
\* of the flags of sources without a worker included, and after every sequence
\* of calls and reports (config.rs, api.rs, control.rs).
THEOREM SettingsAreAlwaysHonoured == Spec => []SettingsAreHonoured
BY AskedInvariant, SettingsHold, PTL DEF Asked

-----------------------------------------------------------------------------
(* Scores                                                                   *)

\* Tiers whose deltas fall, none below what is given where no tier is reached.
IsTable(tiers, otherwise) ==
  /\ otherwise \in Int
  /\ Len(tiers) \in Nat /\ DOMAIN tiers = 1..Len(tiers)
  /\ \A i \in 1..Len(tiers) : tiers[i][1] \in Nat /\ tiers[i][2] \in Int /\ otherwise <= tiers[i][2]
  /\ \A i, j \in 1..Len(tiers) : i < j => tiers[j][2] <= tiers[i][2]

LEMMA TablesAreOrdered ==
  /\ IsTable(AbsoluteTiers, 0) /\ IsTable(PercentTiers, 0) /\ IsTable(CapTiers, 0)
  /\ IsTable(EfficiencyTiers, -5) /\ IsTable(ActivationTiers, -2) /\ IsTable(DurationTiers, -4)
<1>1. IsTable(AbsoluteTiers, 0)
  BY DEF IsTable, AbsoluteTiers
<1>2. IsTable(PercentTiers, 0)
  BY DEF IsTable, PercentTiers
<1>3. IsTable(CapTiers, 0)
  BY DEF IsTable, CapTiers
<1>4. IsTable(EfficiencyTiers, -5)
  BY DEF IsTable, EfficiencyTiers
<1>5. IsTable(ActivationTiers, -2)
  BY DEF IsTable, ActivationTiers
<1>6. IsTable(DurationTiers, -4)
  BY DEF IsTable, DurationTiers
<1> QED  BY <1>1, <1>2, <1>3, <1>4, <1>5, <1>6

\* The first tier that is reached.
LEMMA FirstTier ==
  ASSUME NEW tiers, NEW otherwise, IsTable(tiers, otherwise), NEW reached
  PROVE  LET hits == {i \in 1..Len(tiers) : tiers[i][1] \in reached}
         IN /\ hits = {} => TierFor(tiers, reached, otherwise) = otherwise
            /\ hits # {} => \E i \in hits : /\ TierFor(tiers, reached, otherwise) = tiers[i][2]
                                            /\ \A j \in hits : i <= j
<1> DEFINE hits == {i \in 1..Len(tiers) : tiers[i][1] \in reached}
           i == SelectInSeq(tiers, LAMBDA t : t[1] \in reached)
<1>1. i = IF hits # {} THEN Min(hits) ELSE 0
  BY DEF SelectInSeq
<1>2. TierFor(tiers, reached, otherwise) = IF i = 0 THEN otherwise ELSE tiers[i][2]
  BY DEF TierFor
<1>3. hits \subseteq Nat \ {0}
  BY DEF IsTable
<1> HIDE DEF hits, i
<1>4. ASSUME hits # {} PROVE i \in hits /\ \A j \in hits : i <= j
  <2>1. PICK m \in hits : \A n \in hits : m <= n
    BY <1>3, <1>4, LeastExists
  <2>2. Min(hits) \in hits /\ \A j \in hits : Min(hits) <= j
    BY <2>1 DEF Min
  <2> QED  BY <1>1, <1>4, <2>2
<1>5. hits # {} => i # 0
  BY <1>3, <1>4
<1> QED  BY <1>1, <1>2, <1>4, <1>5 DEF hits

LEMMA TiersGrow ==
  ASSUME NEW tiers, NEW otherwise, IsTable(tiers, otherwise), NEW A, NEW B, A \subseteq B
  PROVE  /\ TierFor(tiers, A, otherwise) \in Int
         /\ otherwise <= TierFor(tiers, A, otherwise)
         /\ TierFor(tiers, A, otherwise) <= TierFor(tiers, B, otherwise)
<1> DEFINE Hits(S) == {i \in 1..Len(tiers) : tiers[i][1] \in S}
           Of(S) == TierFor(tiers, S, otherwise)
<1>1. ASSUME NEW S
      PROVE  /\ Hits(S) = {} => Of(S) = otherwise
             /\ Hits(S) # {} => \E i \in Hits(S) : Of(S) = tiers[i][2] /\ \A j \in Hits(S) : i <= j
  BY FirstTier
<1>2. Hits(A) \subseteq Hits(B)
  OBVIOUS
<1>3. \A S : Hits(S) \subseteq 1..Len(tiers)
  OBVIOUS
<1> HIDE DEF Hits, Of
<1>4. ASSUME NEW S PROVE Of(S) \in Int /\ otherwise <= Of(S)
  <2>1. CASE Hits(S) = {}
    BY <1>1, <2>1 DEF IsTable
  <2>2. CASE Hits(S) # {}
    <3>1. PICK i \in Hits(S) : Of(S) = tiers[i][2]
      BY <1>1, <2>2
    <3>2. i \in 1..Len(tiers)
      BY <1>3, <3>1
    <3> QED  BY <3>1, <3>2 DEF IsTable
  <2> QED  BY <2>1, <2>2
<1>5. Of(A) <= Of(B)
  <2>1. CASE Hits(A) = {}
    <3>1. Of(A) = otherwise
      BY <1>1, <2>1
    <3> QED  BY <1>4, <3>1
  <2>2. CASE Hits(A) # {}
    <3>1. PICK i \in Hits(A) : Of(A) = tiers[i][2]
      BY <1>1, <2>2
    <3>2. Hits(B) # {}
      BY <1>2, <2>2
    <3>3. PICK k \in Hits(B) : Of(B) = tiers[k][2] /\ \A j \in Hits(B) : k <= j
      BY <1>1, <3>2
    <3>4. i \in 1..Len(tiers) /\ k \in 1..Len(tiers) /\ k <= i /\ Len(tiers) \in Nat
      BY <1>2, <1>3, <3>1, <3>3 DEF IsTable
    <3>5. tiers[i][2] \in Int /\ tiers[k][2] \in Int
      BY <3>4 DEF IsTable
    <3>6. CASE k = i
      BY <3>1, <3>3, <3>5, <3>6
    <3>7. CASE k < i
      <4>1. tiers[i][2] <= tiers[k][2]
        BY <3>4, <3>7 DEF IsTable
      <4> QED  BY <3>1, <3>3, <4>1
    <3> QED  BY <3>4, <3>6, <3>7
  <2> QED  BY <2>1, <2>2
<1> QED  BY <1>4, <1>5 DEF Of

\* The marks that a value reaches are reached by a larger one.
LEMMA MarksReached ==
  ASSUME NEW tiers, NEW otherwise, IsTable(tiers, otherwise), NEW x \in Int, NEW y \in Int, x <= y
  PROVE  {t \in Marks(tiers) : x >= t} \subseteq {t \in Marks(tiers) : y >= t}
<1>1. \A t \in Marks(tiers) : t \in Int
  BY DEF IsTable, Marks
<1> QED  BY <1>1

\* A voucher that passed the validation.
IsVoucher(v) ==
  /\ {v.amount, v.percent, v.cap, v.min} \subseteq Nat \union {None}
  /\ {v.start, v.end} \subseteq Int \union {None}
  /\ v.type \in DOMAIN TypeWeight /\ v.scope.kind \in DOMAIN ScopeWeight

LEMMA NumbersAreStated ==
  ASSUME NEW n \in Int
  PROVE  Stated(n)
BY NoneAssumption DEF Stated

\* What each part of the score is at least.
LEMMA PartsAreBounded ==
  ASSUME NEW v, IsVoucher(v), NEW rules, NEW now \in Int
  PROVE  /\ ScoreReadiness(v) \in Int /\ -15 <= ScoreReadiness(v)
         /\ ScoreType(v, rules) \in Int /\ 0 <= ScoreType(v, rules)
         /\ ScoreAbsolute(v) \in Int /\ -6 <= ScoreAbsolute(v)
         /\ ScorePercent(v) \in Int /\ 0 <= ScorePercent(v)
         /\ ScoreCap(v) \in Int /\ -3 <= ScoreCap(v)
         /\ ScoreEfficiency(v) \in Int /\ -5 <= ScoreEfficiency(v)
         /\ ScoreActivation(v, now) \in Int /\ -2 <= ScoreActivation(v, now)
         /\ ScoreDuration(v, now) \in Int /\ -4 <= ScoreDuration(v, now)
         /\ ScoreRestrictions(v) \in Int /\ -12 <= ScoreRestrictions(v)
         /\ ScoreSource(v, rules) \in Int /\ 0 <= ScoreSource(v, rules)
<1>1. ASSUME NEW tiers, NEW otherwise, IsTable(tiers, otherwise), NEW A
      PROVE  TierFor(tiers, A, otherwise) \in Int /\ otherwise <= TierFor(tiers, A, otherwise)
  BY <1>1, TiersGrow
<1>2. ScoreReadiness(v) \in Int /\ -15 <= ScoreReadiness(v)
  BY DEF ScoreReadiness
<1>3. ScoreType(v, rules) \in Int /\ 0 <= ScoreType(v, rules)
  <2>1. TypeWeight[v.type] \in Nat
    BY DEF IsVoucher, TypeWeight
  <2> QED  BY <2>1 DEF ScoreType
<1>4. ScoreAbsolute(v) \in Int /\ -6 <= ScoreAbsolute(v)
  <2>1. \A A : TierFor(AbsoluteTiers, A, 0) \in Int /\ 0 <= TierFor(AbsoluteTiers, A, 0)
    BY <1>1, TablesAreOrdered
  <2> QED  BY <2>1 DEF ScoreAbsolute
<1>5. ScorePercent(v) \in Int /\ 0 <= ScorePercent(v)
  <2>1. \A A : TierFor(PercentTiers, A, 0) \in Int /\ 0 <= TierFor(PercentTiers, A, 0)
    BY <1>1, TablesAreOrdered
  <2> QED  BY <2>1 DEF ScorePercent
<1>6. ScoreCap(v) \in Int /\ -3 <= ScoreCap(v)
  <2>1. \A A : TierFor(CapTiers, A, 0) \in Int /\ 0 <= TierFor(CapTiers, A, 0)
    BY <1>1, TablesAreOrdered
  <2> QED  BY <2>1 DEF ScoreCap
<1>7. ScoreEfficiency(v) \in Int /\ -5 <= ScoreEfficiency(v)
  <2>1. \A A : TierFor(EfficiencyTiers, A, -5) \in Int /\ -5 <= TierFor(EfficiencyTiers, A, -5)
    BY <1>1, TablesAreOrdered
  <2> QED  BY <2>1 DEF ScoreEfficiency
<1>8. ScoreActivation(v, now) \in Int /\ -2 <= ScoreActivation(v, now)
  <2>1. \A A : TierFor(ActivationTiers, A, -2) \in Int /\ -2 <= TierFor(ActivationTiers, A, -2)
    BY <1>1, TablesAreOrdered
  <2> QED  BY <2>1 DEF ScoreActivation
<1>9. ScoreDuration(v, now) \in Int /\ -4 <= ScoreDuration(v, now)
  <2>1. \A A : TierFor(DurationTiers, A, -4) \in Int /\ -4 <= TierFor(DurationTiers, A, -4)
    BY <1>1, TablesAreOrdered
  <2> QED  BY <2>1 DEF ScoreDuration
<1>10. ScoreRestrictions(v) \in Int /\ -12 <= ScoreRestrictions(v)
  <2>1. ScopeWeight[v.scope.kind] \in Int /\ -6 <= ScopeWeight[v.scope.kind]
    BY DEF IsVoucher, ScopeWeight
  <2> QED  BY <2>1 DEF ScoreRestrictions
<1>11. ScoreSource(v, rules) \in Int /\ 0 <= ScoreSource(v, rules)
  BY DEF ScoreSource
<1> QED  BY <1>2, <1>3, <1>4, <1>5, <1>6, <1>7, <1>8, <1>9, <1>10, <1>11

LEMMA MeritsAreBounded ==
  ASSUME NEW v, IsVoucher(v), NEW rules, NEW now \in Int
  PROVE  Merits(v, rules, now) \in Int /\ -1000 < Merits(v, rules, now)
<1> DEFINE a == ScoreReadiness(v)
           b == ScoreType(v, rules)
           c == ScoreAbsolute(v)
           d == ScorePercent(v)
           e == ScoreCap(v)
           f == ScoreEfficiency(v)
           g == ScoreActivation(v, now)
           h == ScoreDuration(v, now)
           i == ScoreRestrictions(v)
           j == ScoreSource(v, rules)
<1>1. /\ a \in Int /\ -15 <= a /\ b \in Int /\ 0 <= b /\ c \in Int /\ -6 <= c /\ d \in Int /\ 0 <= d
      /\ e \in Int /\ -3 <= e /\ f \in Int /\ -5 <= f /\ g \in Int /\ -2 <= g /\ h \in Int /\ -4 <= h
      /\ i \in Int /\ -12 <= i /\ j \in Int /\ 0 <= j
  BY PartsAreBounded
<1>2. Merits(v, rules, now) = a + b + c + d + e + f + g + h + i + j
  BY DEF Merits
<1> HIDE DEF a, b, c, d, e, f, g, h, i, j
<1> QED  BY <1>1, <1>2

\* A term that is the same or a larger number.
NoLess(x, y) == x = y \/ (x \in Int /\ y \in Int /\ x <= y)

\* What differs in w from v is to the owner's advantage.
NoWorse(v, w) ==
  /\ w.ready = v.ready /\ w.type = v.type /\ w.discount = v.discount /\ w.start = v.start
  /\ w.scope = v.scope /\ w.method = v.method /\ w.source = v.source
  /\ NoLess(v.amount, w.amount) /\ NoLess(v.percent, w.percent) /\ NoLess(v.cap, w.cap)
  /\ NoLess(w.min, v.min) /\ NoLess(v.end, w.end)
  /\ w.min # 0 \/ v.min = 0

LEMMA StatedAlike ==
  ASSUME NEW x, NEW y, NoLess(x, y)
  PROVE  Stated(x) <=> Stated(y)
BY NumbersAreStated DEF NoLess

LEMMA MoneyIsCounted ==
  ASSUME NEW x \in Nat \union {None}
  PROVE  NonNegative(x) = x /\ (Stated(x) <=> x \in Nat)
BY NumbersAreStated DEF NonNegative, Stated

\* The tiers of a field of the voucher.
LEMMA FieldScoresGrow ==
  ASSUME NEW tiers, NEW otherwise, IsTable(tiers, otherwise), NEW x, NEW y, NoLess(x, y),
         x \in Nat \union {None}, y \in Nat \union {None}, NEW a \in Int
  PROVE  LET Of(z) == IF Stated(NonNegative(z))
                      THEN TierFor(tiers, {t \in Marks(tiers) : NonNegative(z) >= t}, otherwise) ELSE a
         IN Of(x) <= Of(y)
<1>1. NonNegative(x) = x /\ NonNegative(y) = y /\ (Stated(x) <=> x \in Nat) /\ (Stated(y) <=> y \in Nat)
  BY MoneyIsCounted
<1>2. CASE ~Stated(x)
  BY <1>1, <1>2, StatedAlike
<1>3. CASE Stated(x)
  <2>1. Stated(y)
    BY <1>3, StatedAlike
  <2>2. x \in Int /\ y \in Int /\ x <= y
    BY <1>1, <1>3, <2>1 DEF NoLess
  <2>3. TierFor(tiers, {t \in Marks(tiers) : x >= t}, otherwise) <= TierFor(tiers, {t \in Marks(tiers) : y >= t}, otherwise)
    <3> DEFINE A == {t \in Marks(tiers) : x >= t}
               B == {t \in Marks(tiers) : y >= t}
    <3>1. A \subseteq B
      BY <2>2, MarksReached
    <3> HIDE DEF A, B
    <3>2. TierFor(tiers, A, otherwise) <= TierFor(tiers, B, otherwise)
      BY <3>1, TiersGrow
    <3> QED  BY <3>2 DEF A, B
  <2> QED  BY <1>1, <1>3, <2>1, <2>3
<1> QED  BY <1>2, <1>3

LEMMA DiscountsGrow ==
  ASSUME NEW v, NEW w, IsVoucher(v), IsVoucher(w), NoWorse(v, w)
  PROVE  /\ EffectiveDiscount(v) \in Nat \union {None} /\ EffectiveDiscount(w) \in Nat \union {None}
         /\ NoLess(EffectiveDiscount(v), EffectiveDiscount(w))
<1>1. PICK a, b, c, d : a = v.amount /\ b = v.cap /\ c = w.amount /\ d = w.cap
  OBVIOUS
<1>2. {a, b, c, d} \subseteq Nat \union {None} /\ NoLess(a, c) /\ NoLess(b, d)
  BY <1>1 DEF IsVoucher, NoWorse
<1>3. (Stated(a) <=> Stated(c)) /\ (Stated(b) <=> Stated(d))
  BY <1>2, StatedAlike
<1>4. \A x \in {a, b, c, d} : NonNegative(x) = x /\ (Stated(x) <=> x \in Nat)
  BY <1>2, MoneyIsCounted
<1>5. /\ EffectiveDiscount(v) = (IF Stated(a) /\ Stated(b) THEN Min2(a, b) ELSE IF Stated(a) THEN a ELSE b)
      /\ EffectiveDiscount(w) = (IF Stated(c) /\ Stated(d) THEN Min2(c, d) ELSE IF Stated(c) THEN c ELSE d)
  BY <1>1, <1>4 DEF EffectiveDiscount
<1>6. CASE Stated(a) /\ Stated(b)
  <2>1. a \in Nat /\ b \in Nat /\ c \in Nat /\ d \in Nat /\ a <= c /\ b <= d
    BY <1>2, <1>3, <1>4, <1>6 DEF NoLess
  <2>2. EffectiveDiscount(v) = Min2(a, b) /\ EffectiveDiscount(w) = Min2(c, d)
    BY <1>3, <1>5, <1>6
  <2>3. Min2(a, b) \in Nat /\ Min2(c, d) \in Nat /\ Min2(a, b) <= Min2(c, d)
    BY <2>1 DEF Min2
  <2> QED  BY <2>2, <2>3 DEF NoLess
<1>7. CASE ~(Stated(a) /\ Stated(b))
  <2>1. EffectiveDiscount(v) = (IF Stated(a) THEN a ELSE b) /\ EffectiveDiscount(w) = (IF Stated(c) THEN c ELSE d)
    BY <1>3, <1>5, <1>7
  <2> QED  BY <1>2, <1>3, <2>1
<1> QED  BY <1>6, <1>7

LEMMA EfficiencyGrows ==
  ASSUME NEW v, NEW w, IsVoucher(v), IsVoucher(w), NoWorse(v, w)
  PROVE  ScoreEfficiency(v) <= ScoreEfficiency(w)
<1> DEFINE Reached(x, m) == {t \in Marks(EfficiencyTiers) : x * 100 >= t * m}
           Ratio(x, m) == TierFor(EfficiencyTiers, Reached(x, m), -5)
           Of(x, m) == IF ~Stated(x) THEN 0 ELSE IF ~Stated(m) THEN 25 ELSE IF m = 0 THEN 0 ELSE Ratio(x, m)
<1>1. PICK a, b, m, n : a = EffectiveDiscount(v) /\ b = EffectiveDiscount(w) /\ m = v.min /\ n = w.min
  OBVIOUS
<1>2. /\ {a, b, m, n} \subseteq Nat \union {None} /\ NoLess(a, b) /\ NoLess(n, m)
      /\ n # 0 \/ m = 0
  <2>1. m \in Nat \union {None} /\ n \in Nat \union {None} /\ NoLess(n, m) /\ (n # 0 \/ m = 0)
    BY <1>1 DEF IsVoucher, NoWorse
  <2>2. a \in Nat \union {None} /\ b \in Nat \union {None} /\ NoLess(a, b)
    BY <1>1, DiscountsGrow
  <2> QED  BY <2>1, <2>2
<1>3. (Stated(a) <=> Stated(b)) /\ (Stated(n) <=> Stated(m))
  BY <1>2, StatedAlike
<1>4. \A x \in {a, b, m, n} : NonNegative(x) = x /\ (Stated(x) <=> x \in Nat)
  BY <1>2, MoneyIsCounted
<1>5. ScoreEfficiency(v) = Of(a, m) /\ ScoreEfficiency(w) = Of(b, n)
  BY <1>1, <1>4 DEF ScoreEfficiency
<1>6. CASE Stated(a) /\ Stated(m) /\ m # 0
  <2>1. a \in Nat /\ b \in Nat /\ m \in Nat /\ n \in Nat /\ a <= b /\ n <= m /\ n # 0
    BY <1>2, <1>3, <1>4, <1>6 DEF NoLess
  <2>2. Of(a, m) = Ratio(a, m) /\ Of(b, n) = Ratio(b, n)
    BY <1>3, <1>6, <2>1
  <2>3. Reached(a, m) \subseteq Reached(b, n)
    <3>1. ASSUME NEW t \in Nat, a * 100 >= t * m PROVE b * 100 >= t * n
      <4>1. t * n <= t * m
        BY <2>1
      <4>2. t * n \in Int /\ t * m \in Int
        BY <2>1
      <4> QED  BY <2>1, <3>1, <4>1, <4>2
    <3>2. Marks(EfficiencyTiers) \subseteq Nat
      BY TablesAreOrdered DEF IsTable, Marks
    <3> QED  BY <3>1, <3>2
  <2>4. Ratio(a, m) <= Ratio(b, n)
    <3> HIDE DEF Reached
    <3> QED  BY <2>3, TablesAreOrdered, TiersGrow
  <2> QED  BY <1>5, <2>2, <2>4
<1>7. CASE ~(Stated(a) /\ Stated(m) /\ m # 0)
  <2>1. CASE ~Stated(a)
    BY <1>3, <1>5, <2>1
  <2>2. CASE ~Stated(m)
    BY <1>3, <1>5, <2>2
  <2>3. CASE Stated(a) /\ Stated(m) /\ m = 0
    <3>1. n = 0
      BY <1>2, <1>3, <1>4, <2>3 DEF NoLess
    <3> QED  BY <1>3, <1>5, <2>3, <3>1
  <2> QED  BY <1>7, <2>1, <2>2, <2>3
<1> QED  BY <1>6, <1>7

LEMMA DurationGrows ==
  ASSUME NEW v, NEW w, IsVoucher(v), IsVoucher(w), NoWorse(v, w), NEW now \in Int
  PROVE  ScoreDuration(v, now) <= ScoreDuration(w, now)
<1> DEFINE from == IF Stated(v.start) THEN Max2(v.start, now) ELSE now
           Reached(e) == {t \in Marks(DurationTiers) : e - from >= 60 * t}
           Of(e) == IF ~Stated(e) THEN -2 ELSE TierFor(DurationTiers, Reached(e), -4)
<1>1. PICK a, b : a = v.end /\ b = w.end
  OBVIOUS
<1>2. a \in Int \union {None} /\ b \in Int \union {None} /\ NoLess(a, b) /\ v.start \in Int \union {None}
  BY <1>1 DEF IsVoucher, NoWorse
<1>3. (Stated(a) <=> a \in Int) /\ (Stated(b) <=> b \in Int) /\ (Stated(a) <=> Stated(b))
  BY <1>2, StatedAlike, NumbersAreStated DEF Stated
<1>4. ScoreDuration(v, now) = Of(a) /\ ScoreDuration(w, now) = Of(b)
  BY <1>1 DEF ScoreDuration, NoWorse
<1>5. from \in Int
  BY <1>2 DEF Stated, Max2
<1>6. CASE ~Stated(a)
  BY <1>3, <1>4, <1>6
<1>7. CASE Stated(a)
  <2>1. a \in Int /\ b \in Int /\ a <= b
    BY <1>2, <1>3, <1>7 DEF NoLess
  <2>2. Reached(a) \subseteq Reached(b)
    <3> HIDE DEF from
    <3>1. ASSUME NEW t \in Nat, a - from >= 60 * t PROVE b - from >= 60 * t
      BY <1>5, <2>1, <3>1
    <3>2. Marks(DurationTiers) \subseteq Nat
      BY TablesAreOrdered DEF IsTable, Marks
    <3> QED  BY <3>1, <3>2
  <2>3. TierFor(DurationTiers, Reached(a), -4) <= TierFor(DurationTiers, Reached(b), -4)
    <3> HIDE DEF Reached
    <3> QED  BY <2>2, TablesAreOrdered, TiersGrow
  <2>4. Of(a) = TierFor(DurationTiers, Reached(a), -4) /\ Of(b) = TierFor(DurationTiers, Reached(b), -4)
    BY <1>3, <1>7
  <2> QED  BY <1>4, <2>3, <2>4
<1> QED  BY <1>6, <1>7

LEMMA NoWorseScoresNoLess ==
  ASSUME NEW v, NEW w, IsVoucher(v), IsVoucher(w), NoWorse(v, w), NEW rules, NEW now \in Int
  PROVE  Score(v, rules, now) <= Score(w, rules, now)
<1>1. Merits(v, rules, now) \in Int /\ Merits(w, rules, now) \in Int /\ -1000 < Merits(w, rules, now)
  BY MeritsAreBounded
<1>2. Merits(v, rules, now) <= Merits(w, rules, now)
  <2>1. /\ ScoreReadiness(w) = ScoreReadiness(v) /\ ScoreType(w, rules) = ScoreType(v, rules)
        /\ ScoreActivation(w, now) = ScoreActivation(v, now) /\ ScoreRestrictions(w) = ScoreRestrictions(v)
        /\ ScoreSource(w, rules) = ScoreSource(v, rules)
    BY DEF NoWorse, ScoreReadiness, ScoreType, ScoreActivation, ScoreRestrictions, ScoreSource
  <2>2. /\ NoLess(v.amount, w.amount) /\ NoLess(v.percent, w.percent) /\ NoLess(v.cap, w.cap)
        /\ w.discount = v.discount
    BY DEF NoWorse
  <2>3. /\ v.amount \in Nat \union {None} /\ w.amount \in Nat \union {None}
        /\ v.percent \in Nat \union {None} /\ w.percent \in Nat \union {None}
        /\ v.cap \in Nat \union {None} /\ w.cap \in Nat \union {None}
    BY DEF IsVoucher
  <2>4. (Stated(w.percent) <=> Stated(v.percent)) /\ (Stated(w.cap) <=> Stated(v.cap))
    BY <2>2, StatedAlike
  <2>5. ScoreAbsolute(v) <= ScoreAbsolute(w)
    <3> DEFINE a == IF Stated(v.percent) \/ Stated(v.cap) THEN 0 ELSE IF v.discount = "FreeShipping" THEN 8 ELSE -6
               Of(z) == IF Stated(NonNegative(z))
                        THEN TierFor(AbsoluteTiers, {t \in Marks(AbsoluteTiers) : NonNegative(z) >= t}, 0) ELSE a
    <3>1. a \in Int
      OBVIOUS
    <3>2. ScoreAbsolute(v) = Of(v.amount)
      BY DEF ScoreAbsolute
    <3>3. ScoreAbsolute(w) = Of(w.amount)
      BY <2>2, <2>4 DEF ScoreAbsolute
    <3> HIDE DEF a
    <3>4. Of(v.amount) <= Of(w.amount)
      BY <2>2, <2>3, <3>1, TablesAreOrdered, FieldScoresGrow
    <3> QED  BY <3>2, <3>3, <3>4
  <2>6. ScorePercent(v) <= ScorePercent(w)
    <3> DEFINE Of(z) == IF Stated(NonNegative(z))
                        THEN TierFor(PercentTiers, {t \in Marks(PercentTiers) : NonNegative(z) >= t}, 0) ELSE 0
    <3>1. ScorePercent(v) = Of(v.percent) /\ ScorePercent(w) = Of(w.percent)
      BY DEF ScorePercent
    <3>2. Of(v.percent) <= Of(w.percent)
      BY <2>2, <2>3, TablesAreOrdered, FieldScoresGrow
    <3> QED  BY <3>1, <3>2
  <2>7. ScoreCap(v) <= ScoreCap(w)
    <3> DEFINE a == IF Stated(v.percent) THEN -3 ELSE 0
               Of(z) == IF Stated(NonNegative(z))
                        THEN TierFor(CapTiers, {t \in Marks(CapTiers) : NonNegative(z) >= t}, 0) ELSE a
    <3>1. a \in Int
      OBVIOUS
    <3>2. ScoreCap(v) = Of(v.cap)
      BY DEF ScoreCap
    <3>3. ScoreCap(w) = Of(w.cap)
      BY <2>4 DEF ScoreCap
    <3> HIDE DEF a
    <3>4. Of(v.cap) <= Of(w.cap)
      BY <2>2, <2>3, <3>1, TablesAreOrdered, FieldScoresGrow
    <3> QED  BY <3>2, <3>3, <3>4
  <2>8. ScoreEfficiency(v) <= ScoreEfficiency(w) /\ ScoreDuration(v, now) <= ScoreDuration(w, now)
    BY EfficiencyGrows, DurationGrows
  <2> DEFINE a == ScoreReadiness(v)
             b == ScoreType(v, rules)
             g == ScoreActivation(v, now)
             i == ScoreRestrictions(v)
             j == ScoreSource(v, rules)
             c(x) == ScoreAbsolute(x)
             d(x) == ScorePercent(x)
             e(x) == ScoreCap(x)
             f(x) == ScoreEfficiency(x)
             h(x) == ScoreDuration(x, now)
  <2>9. /\ a \in Int /\ b \in Int /\ g \in Int /\ i \in Int /\ j \in Int
        /\ c(v) \in Int /\ d(v) \in Int /\ e(v) \in Int /\ f(v) \in Int /\ h(v) \in Int
        /\ c(w) \in Int /\ d(w) \in Int /\ e(w) \in Int /\ f(w) \in Int /\ h(w) \in Int
    BY PartsAreBounded
  <2>10. /\ Merits(v, rules, now) = a + b + c(v) + d(v) + e(v) + f(v) + g + h(v) + i + j
         /\ Merits(w, rules, now) = a + b + c(w) + d(w) + e(w) + f(w) + g + h(w) + i + j
    BY <2>1 DEF Merits
  <2>11. c(v) <= c(w) /\ d(v) <= d(w) /\ e(v) <= e(w) /\ f(v) <= f(w) /\ h(v) <= h(w)
    BY <2>5, <2>6, <2>7, <2>8
  <2> HIDE DEF a, b, c, d, e, f, g, h, i, j
  <2> QED  BY <2>9, <2>10, <2>11
<1>3. Expired(w, now) => Expired(v, now)
  <2>1. PICK a, b : a = v.end /\ b = w.end
    OBVIOUS
  <2>2. a \in Int \union {None} /\ b \in Int \union {None} /\ NoLess(a, b)
    BY <2>1 DEF IsVoucher, NoWorse
  <2>3. (Stated(a) <=> a \in Int) /\ (Stated(b) <=> b \in Int)
    BY <2>2, NumbersAreStated DEF Stated
  <2>4. Stated(b) /\ b <= now => Stated(a) /\ a <= now
    BY <2>2, <2>3 DEF NoLess
  <2> QED  BY <2>1, <2>4 DEF Expired
<1> QED  BY <1>1, <1>2, <1>3 DEF Score

ScoreAsked ==
  question.about = "score" =>
    \E v \in ScoredVouchers, rules \in RuleSets, now \in Times :
      question = [about |-> "score", v |-> v, rules |-> rules, now |-> now]

LEMMA ScoredAreVouchers ==
  ASSUME NEW v \in ScoredVouchers \union PlanVouchers
  PROVE  IsVoucher(v)
BY AdviceAssumption DEF IsVoucher

LEMMA ScoreIsAskedOf ==
  ASSUME ScoreAsked, AboutScore
  PROVE  question.v \in ScoredVouchers /\ question.now \in Int
<1>1. PICK v \in ScoredVouchers, rules \in RuleSets, now \in Times :
        question = [about |-> "score", v |-> v, rules |-> rules, now |-> now]
  BY Zenon DEF ScoreAsked, AboutScore
<1>2. question.v = v /\ question.now = now
  BY <1>1
<1>3. now \in Int
  BY AdviceAssumption
<1> QED  BY <1>2, <1>3

LEMMA BetterTermsScoreMore ==
  ASSUME ScoreAsked
  PROVE  BetterTermsNeverScoreLess
<1> SUFFICES ASSUME AboutScore, NEW w \in Improved(question.v), w.min # 0 \/ question.v.min = 0
             PROVE  Score(w, question.rules, question.now) >= Score(question.v, question.rules, question.now)
  BY DEF BetterTermsNeverScoreLess
<1>1. PICK v, rules, now : v = question.v /\ rules = question.rules /\ now = question.now
  OBVIOUS
<1>2. v \in ScoredVouchers /\ now \in Int
  BY <1>1, ScoreIsAskedOf
<1>3. IsVoucher(v)
  BY <1>2, ScoredAreVouchers
<1>4. {"ready", "type", "discount", "amount", "percent", "cap", "min", "start", "end", "scope", "method", "source"}
        \subseteq DOMAIN v
  BY <1>2, AdviceAssumption
<1>5. \A x \in {"amount", "percent", "cap", "min", "end"} : \A y :
        LET u == [v EXCEPT ![x] = y]
        IN /\ u.ready = v.ready /\ u.type = v.type /\ u.discount = v.discount /\ u.start = v.start
           /\ u.scope = v.scope /\ u.method = v.method /\ u.source = v.source
           /\ u.amount = (IF x = "amount" THEN y ELSE v.amount)
           /\ u.percent = (IF x = "percent" THEN y ELSE v.percent)
           /\ u.cap = (IF x = "cap" THEN y ELSE v.cap)
           /\ u.min = (IF x = "min" THEN y ELSE v.min)
           /\ u.end = (IF x = "end" THEN y ELSE v.end)
  BY <1>4
<1>6. ASSUME NEW y \in Nat, Stated(v.amount), y >= v.amount, w = [v EXCEPT !.amount = y]
      PROVE  IsVoucher(w) /\ NoWorse(v, w)
  <2>1. v.amount \in Nat
    BY <1>3, <1>6 DEF IsVoucher, Stated
  <2> QED  BY <1>1, <1>3, <1>5, <1>6, <2>1 DEF IsVoucher, NoWorse, NoLess
<1>7. ASSUME NEW y \in Nat, Stated(v.cap), y >= v.cap, w = [v EXCEPT !.cap = y]
      PROVE  IsVoucher(w) /\ NoWorse(v, w)
  <2>1. v.cap \in Nat
    BY <1>3, <1>7 DEF IsVoucher, Stated
  <2> QED  BY <1>1, <1>3, <1>5, <1>7, <2>1 DEF IsVoucher, NoWorse, NoLess
<1>8. ASSUME NEW y \in Nat, Stated(v.percent), y >= v.percent, w = [v EXCEPT !.percent = y]
      PROVE  IsVoucher(w) /\ NoWorse(v, w)
  <2>1. v.percent \in Nat
    BY <1>3, <1>8 DEF IsVoucher, Stated
  <2> QED  BY <1>1, <1>3, <1>5, <1>8, <2>1 DEF IsVoucher, NoWorse, NoLess
<1>9. ASSUME NEW y \in Nat, Stated(v.min), y <= v.min, w = [v EXCEPT !.min = y]
      PROVE  IsVoucher(w) /\ NoWorse(v, w)
  <2>1. v.min \in Nat
    BY <1>3, <1>9 DEF IsVoucher, Stated
  <2> QED  BY <1>1, <1>3, <1>5, <1>9, <2>1 DEF IsVoucher, NoWorse, NoLess
<1>10. ASSUME NEW y \in Int, Stated(v.end), y >= v.end, w = [v EXCEPT !.end = y]
       PROVE  IsVoucher(w) /\ NoWorse(v, w)
  <2>1. v.end \in Int
    BY <1>3, <1>10 DEF IsVoucher, Stated
  <2> QED  BY <1>1, <1>3, <1>5, <1>10, <2>1 DEF IsVoucher, NoWorse, NoLess
<1>11. IsVoucher(w) /\ NoWorse(v, w)
  <2>1. Better.money \subseteq Nat /\ Better.percent \subseteq Nat /\ Better.time \subseteq Int
    BY AdviceAssumption
  <2>2. \/ \E y \in Better.money : Stated(v.amount) /\ y >= v.amount /\ w = [v EXCEPT !.amount = y]
        \/ \E y \in Better.money : Stated(v.cap) /\ y >= v.cap /\ w = [v EXCEPT !.cap = y]
        \/ \E y \in Better.percent : Stated(v.percent) /\ y >= v.percent /\ w = [v EXCEPT !.percent = y]
        \/ \E y \in Better.money : Stated(v.min) /\ y <= v.min /\ w = [v EXCEPT !.min = y]
        \/ \E y \in Better.time : Stated(v.end) /\ y >= v.end /\ w = [v EXCEPT !.end = y]
    BY <1>1 DEF Improved
  <2> QED  BY <1>6, <1>7, <1>8, <1>9, <1>10, <2>1, <2>2
<1>12. Score(v, rules, now) <= Score(w, rules, now) /\ Score(v, rules, now) \in Int /\ Score(w, rules, now) \in Int
  BY <1>2, <1>3, <1>11, NoWorseScoresNoLess, MeritsAreBounded DEF Score
<1> QED  BY <1>1, <1>12

LEMMA ExpiredAreLast ==
  ASSUME ScoreAsked
  PROVE  ExpiredRanksLast
<1> SUFFICES ASSUME AboutScore, Expired(question.v, question.now),
                    NEW w \in ScoredVouchers, ~Expired(w, question.now)
             PROVE  RanksBefore(w, question.v, question.rules, question.now)
  BY DEF ExpiredRanksLast
<1>1. IsVoucher(w) /\ question.now \in Int
  BY ScoreIsAskedOf, ScoredAreVouchers
<1>2. Score(question.v, question.rules, question.now) = -1000
  BY DEF Score
<1>3. Score(w, question.rules, question.now) \in Int /\ Score(w, question.rules, question.now) > -1000
  BY <1>1, MeritsAreBounded DEF Score
<1> QED  BY <1>2, <1>3 DEF RanksBefore

-----------------------------------------------------------------------------
(* Orders of finite sets                                                    *)

\* The pairs of R order S, strictly and totally.
Orders2(R, S) ==
  /\ \A x \in S : <<x, x>> \notin R
  /\ \A x, y, z \in S : <<x, y>> \in R /\ <<y, z>> \in R => <<x, z>> \in R
  /\ \A x, y \in S : x # y => <<x, y>> \in R \/ <<y, x>> \in R

\* One of finitely many comes before all others.
LEMMA OneIsFirst ==
  ASSUME NEW S, IsFiniteSet(S), S # {}, NEW R, Orders2(R, S)
  PROVE  \E m \in S : \A y \in S \ {m} : <<m, y>> \in R
<1> DEFINE Leads(m, T) == m \in T /\ \A y \in T \ {m} : <<m, y>> \in R
           P == {T \in SUBSET S : T = {} \/ \E m \in T : Leads(m, T)}
<1>1. ASSUME NEW T \in P, NEW x \in S \ T PROVE T \union {x} \in P
  <2>1. CASE T = {}
    <3>1. Leads(x, T \union {x})
      BY <2>1
    <3> QED  BY <3>1
  <2>2. CASE T # {}
    <3>1. PICK m \in T : Leads(m, T)
      BY <2>2
    <3>2. m \in S /\ m # x /\ T \subseteq S
      BY <3>1
    <3>3. CASE <<m, x>> \in R
      <4>1. Leads(m, T \union {x})
        BY <3>1, <3>3
      <4> QED  BY <3>2, <4>1
    <3>4. CASE <<x, m>> \in R
      <4>1. ASSUME NEW y \in T PROVE <<x, y>> \in R
        <5>1. y = m \/ <<m, y>> \in R
          BY <3>1
        <5>2. x \in S /\ y \in S /\ m \in S
          BY <3>2
        <5> QED  BY <3>4, <5>1, <5>2 DEF Orders2
      <4>2. Leads(x, T \union {x})
        BY <4>1
      <4> QED  BY <3>2, <4>2
    <3> QED  BY <3>2, <3>3, <3>4 DEF Orders2
  <2> QED  BY <2>1, <2>2
<1>2. {} \in P /\ P \in SUBSET SUBSET S
  OBVIOUS
<1> HIDE DEF P
<1>3. S \in P
  BY <1>1, <1>2, GrowsToTheWhole
<1> QED  BY <1>3 DEF P

\* The elements that come before x.
Below(R, S, x) == {y \in S : <<y, x>> \in R}

\* Every place of an ordered set is taken by one element.
LEMMA PlacesAreTaken ==
  ASSUME NEW S, IsFiniteSet(S), NEW R, Orders2(R, S)
  PROVE  /\ \A x \in S : Cardinality(Below(R, S, x)) \in 0..(Cardinality(S) - 1)
         /\ \A x, y \in S : <<x, y>> \in R => Cardinality(Below(R, S, x)) < Cardinality(Below(R, S, y))
         /\ \A k \in 1..Cardinality(S) : \E x \in S : Cardinality(Below(R, S, x)) = k - 1
<1> DEFINE n == Cardinality(S)
           Rank(x) == Cardinality(Below(R, S, x))
           f == [x \in S |-> Rank(x)]
<1>1. n \in Nat
  BY FS_CardinalityType
<1>2. \A T \in SUBSET S : IsFiniteSet(T) /\ Cardinality(T) \in Nat
  BY FS_Subset, FS_CardinalityType
<1>3. ASSUME NEW x \in S PROVE Rank(x) \in 0..(n - 1)
  <2>1. Below(R, S, x) \in SUBSET (S \ {x})
    BY DEF Below, Orders2
  <2>2. IsFiniteSet(S \ {x}) /\ Cardinality(S \ {x}) = n - 1
    BY FS_RemoveElement
  <2>3. Rank(x) <= n - 1
    <3> DEFINE T == Below(R, S, x)
               U == S \ {x}
    <3>1. T \in SUBSET U /\ IsFiniteSet(U)
      BY <2>1, <2>2
    <3> HIDE DEF T, U
    <3>2. Cardinality(T) <= Cardinality(U)
      BY <3>1, FS_Subset
    <3> QED  BY <2>2, <3>2 DEF T, U
  <2>4. Rank(x) \in Nat
    BY <1>2 DEF Below
  <2> HIDE DEF Rank, n
  <2> QED  BY <1>1, <2>3, <2>4
<1>4. ASSUME NEW x \in S, NEW y \in S, <<x, y>> \in R PROVE Rank(x) < Rank(y)
  <2> DEFINE T == Below(R, S, x)
             U == Below(R, S, y)
  <2>1. x \in U /\ x \notin T /\ T \in SUBSET U /\ U \in SUBSET S
    BY <1>4 DEF Below, Orders2
  <2>2. IsFiniteSet(U) /\ Cardinality(U) \in Nat /\ Cardinality(T) \in Nat
    BY <1>2, <2>1
  <2> HIDE DEF T, U
  <2>3. Cardinality(T) <= Cardinality(U) /\ (Cardinality(U) = Cardinality(T) => U = T)
    BY <2>1, <2>2, FS_Subset
  <2>4. Cardinality(T) < Cardinality(U)
    BY <2>1, <2>2, <2>3
  <2> QED  BY <2>4 DEF T, U
<1> HIDE DEF Rank, n
<1>5. f \in Injection(S, 0..(n - 1))
  <2>1. ASSUME NEW x \in S, NEW y \in S, x # y PROVE Rank(x) # Rank(y)
    <3>1. Rank(x) \in Int /\ Rank(y) \in Int
      BY <1>3
    <3>2. <<x, y>> \in R \/ <<y, x>> \in R
      BY <2>1 DEF Orders2
    <3> QED  BY <1>4, <3>1, <3>2
  <2>2. f \in [S -> 0..(n - 1)]
    BY <1>3
  <2> QED  BY <2>1, <2>2 DEF Injection, IsInjective
<1>6. IsFiniteSet(0..(n - 1)) /\ Cardinality(0..(n - 1)) = n
  <2>1. IsFiniteSet(0..(n - 1)) /\ Cardinality(0..(n - 1)) = IF 0 > n - 1 THEN 0 ELSE n - 1 - 0 + 1
    BY <1>1, FS_Interval
  <2> QED  BY <1>1, <2>1
<1>7. f \in Surjection(S, 0..(n - 1))
  <2>1. Cardinality(S) = Cardinality(0..(n - 1))
    BY <1>6 DEF n
  <2> HIDE DEF f
  <2> QED  BY <1>5, <1>6, <2>1, FS_Injection
<1>8. ASSUME NEW k \in 1..n PROVE \E x \in S : Rank(x) = k - 1
  <2>1. k - 1 \in 0..(n - 1)
    BY <1>1
  <2>2. \E x \in S : f[x] = k - 1
    <3> HIDE DEF f
    <3> QED  BY <1>7, <2>1 DEF Surjection
  <2> QED  BY <2>2
<1> QED  BY <1>3, <1>4, <1>8 DEF Rank, n

-----------------------------------------------------------------------------
(* Candidates and combinations                                              *)

AreCandidates(cs) ==
  /\ IsFiniteSet(DOMAIN cs) /\ DOMAIN cs \subseteq Nat
  /\ \A i \in DOMAIN cs : cs[i].estimate \in Nat /\ cs[i].label \in Int

BeforePairs(cs) == {p \in (DOMAIN cs) \X (DOMAIN cs) : Before(cs, p[1], p[2])}

LEMMA CandidatesAreOrdered ==
  ASSUME NEW cs, AreCandidates(cs)
  PROVE  /\ \A i \in DOMAIN cs : ~Before(cs, i, i)
         /\ \A i, j, k \in DOMAIN cs : Before(cs, i, j) /\ Before(cs, j, k) => Before(cs, i, k)
         /\ \A i, j \in DOMAIN cs : i # j => Before(cs, i, j) \/ Before(cs, j, i)
<1>1. \A i \in DOMAIN cs : cs[i].estimate \in Int /\ cs[i].label \in Int /\ i \in Int
  BY DEF AreCandidates
<1>2. ASSUME NEW i \in DOMAIN cs PROVE ~Before(cs, i, i)
  BY <1>1 DEF Before
<1>3. ASSUME NEW i \in DOMAIN cs, NEW j \in DOMAIN cs, NEW k \in DOMAIN cs, Before(cs, i, j), Before(cs, j, k)
      PROVE  Before(cs, i, k)
  <2> DEFINE e(x) == cs[x].estimate
             l(x) == cs[x].label
  <2>1. \A x \in {i, j, k} : e(x) \in Int /\ l(x) \in Int /\ x \in Int
    BY <1>1
  <2>2. /\ e(i) > e(j) \/ (e(i) = e(j) /\ (l(i) < l(j) \/ (l(i) = l(j) /\ i < j)))
        /\ e(j) > e(k) \/ (e(j) = e(k) /\ (l(j) < l(k) \/ (l(j) = l(k) /\ j < k)))
    BY <1>3 DEF Before
  <2>3. Before(cs, i, k) <=> e(i) > e(k) \/ (e(i) = e(k) /\ (l(i) < l(k) \/ (l(i) = l(k) /\ i < k)))
    BY DEF Before
  <2> HIDE DEF e, l
  <2> QED  BY <2>1, <2>2, <2>3
<1>4. ASSUME NEW i \in DOMAIN cs, NEW j \in DOMAIN cs, i # j PROVE Before(cs, i, j) \/ Before(cs, j, i)
  BY <1>1, <1>4 DEF Before
<1> QED  BY <1>2, <1>3, <1>4

LEMMA PairsAreBefore ==
  ASSUME NEW cs, NEW i \in DOMAIN cs, NEW j \in DOMAIN cs
  PROVE  <<i, j>> \in BeforePairs(cs) <=> Before(cs, i, j)
<1>1. PICK p : p = <<i, j>>
  OBVIOUS
<1>2. p \in (DOMAIN cs) \X (DOMAIN cs) /\ p[1] = i /\ p[2] = j
  BY <1>1
<1>3. p \in BeforePairs(cs) <=> Before(cs, p[1], p[2])
  BY <1>2 DEF BeforePairs
<1> QED  BY <1>1, <1>2, <1>3

LEMMA PairsOrderCandidates ==
  ASSUME NEW cs, AreCandidates(cs), NEW c \in SUBSET DOMAIN cs
  PROVE  Orders2(BeforePairs(cs), c)
<1>1. \A i, j \in c : i \in DOMAIN cs /\ (<<i, j>> \in BeforePairs(cs) <=> Before(cs, i, j))
  BY PairsAreBefore
<1>2. /\ \A i \in c : ~Before(cs, i, i)
      /\ \A i, j, k \in c : Before(cs, i, j) /\ Before(cs, j, k) => Before(cs, i, k)
      /\ \A i, j \in c : i # j => Before(cs, i, j) \/ Before(cs, j, i)
  BY CandidatesAreOrdered
<1> QED  BY <1>1, <1>2 DEF Orders2

\* The labels of a combination, one for each of its candidates.
LEMMA LabelsAreNumbers ==
  ASSUME NEW cs, AreCandidates(cs), NEW c \in SUBSET DOMAIN cs
  PROVE  /\ IsFiniteSet(c) /\ Cardinality(c) \in Nat
         /\ Labels(cs, c) \in [1..Cardinality(c) -> Int]
<1>1. IsFiniteSet(c) /\ Cardinality(c) \in Nat
  BY FS_Subset, FS_CardinalityType DEF AreCandidates
<1> DEFINE R == BeforePairs(cs)
           Nth(k) == CHOOSE i \in c : Cardinality({j \in c : Before(cs, j, i)}) = k - 1
<1>2. \A i \in c : {j \in c : Before(cs, j, i)} = Below(R, c, i)
  <2>1. \A i, j \in c : <<j, i>> \in R <=> Before(cs, j, i)
    BY PairsAreBefore
  <2> QED  BY <2>1 DEF Below
<1>3. ASSUME NEW k \in 1..Cardinality(c) PROVE Nth(k) \in c
  <2>1. \E i \in c : Cardinality(Below(R, c, i)) = k - 1
    BY <1>1, PairsOrderCandidates, PlacesAreTaken
  <2> HIDE DEF R
  <2>2. \E i \in c : Cardinality({j \in c : Before(cs, j, i)}) = k - 1
    BY <1>2, <2>1
  <2> QED  BY <2>2
<1> HIDE DEF Nth
<1>4. \A k \in 1..Cardinality(c) : cs[Nth(k)].label \in Int
  BY <1>3 DEF AreCandidates
<1>5. Labels(cs, c) = [k \in 1..Cardinality(c) |-> cs[Nth(k)].label]
  BY DEF Labels, Nth
<1> QED  BY <1>1, <1>4, <1>5

\* The two comparisons of combinations of one size.
LabelsFirst(x, y) == \E k \in DOMAIN x : x[k] < y[k] /\ \A m \in 1..(k - 1) : x[m] = y[m]

MaskFirst(cs, c, d) == \E j \in d \ c : \A i \in c \ d : Before(cs, i, j)

LEMMA LabelsAreOrdered ==
  ASSUME NEW n \in Nat, NEW x \in [1..n -> Int], NEW y \in [1..n -> Int], NEW z \in [1..n -> Int]
  PROVE  /\ ~LabelsFirst(x, x)
         /\ LabelsFirst(x, y) /\ LabelsFirst(y, z) => LabelsFirst(x, z)
         /\ LabelsFirst(x, y) \/ x = y \/ LabelsFirst(y, x)
<1>1. ~LabelsFirst(x, x)
  BY DEF LabelsFirst
<1>2. ASSUME LabelsFirst(x, y), LabelsFirst(y, z) PROVE LabelsFirst(x, z)
  <2>1. PICK k \in 1..n : x[k] < y[k] /\ \A m \in 1..(k - 1) : x[m] = y[m]
    BY <1>2 DEF LabelsFirst
  <2>2. PICK l \in 1..n : y[l] < z[l] /\ \A m \in 1..(l - 1) : y[m] = z[m]
    BY <1>2 DEF LabelsFirst
  <2> DEFINE j == IF k < l THEN k ELSE l
  <2>3. j \in 1..n /\ k \in Int /\ l \in Int /\ j <= k /\ j <= l /\ (j = k \/ j = l)
    OBVIOUS
  <2> HIDE DEF j
  <2>4. \A m \in 1..(j - 1) : x[m] = z[m]
    BY <2>1, <2>2, <2>3
  <2>5. x[j] < z[j]
    <3>1. x[j] \in Int /\ y[j] \in Int /\ z[j] \in Int
      BY <2>3
    <3>2. j = k \/ x[j] = y[j]
      BY <2>1, <2>3
    <3>3. j = l \/ y[j] = z[j]
      BY <2>2, <2>3
    <3>4. x[j] < y[j] \/ x[j] = y[j]
      BY <2>1, <3>2
    <3>5. y[j] < z[j] \/ y[j] = z[j]
      BY <2>2, <3>3
    <3>6. x[j] < y[j] \/ y[j] < z[j]
      BY <2>1, <2>2, <2>3
    <3> QED  BY <3>1, <3>4, <3>5, <3>6
  <2> QED  BY <2>3, <2>4, <2>5 DEF LabelsFirst
<1>3. ASSUME x # y PROVE LabelsFirst(x, y) \/ LabelsFirst(y, x)
  <2> DEFINE D == {k \in 1..n : x[k] # y[k]}
  <2>1. D # {} /\ D \subseteq Nat
    <3> DEFINE Same == \A k \in 1..n : x[k] = y[k]
               F(u) == [k \in 1..n |-> u[k]]
    <3>1. x = F(x) /\ y = F(y)
      OBVIOUS
    <3>2. Same => F(x) = F(y)
      OBVIOUS
    <3> HIDE DEF F
    <3>3. ~Same
      <4> HIDE DEF Same
      <4> QED  BY <1>3, <3>1, <3>2
    <3>4. PICK i \in 1..n : x[i] # y[i]
      BY <3>3
    <3>5. i \in D
      BY <3>4
    <3>6. D \subseteq 1..n /\ 1..n \subseteq Nat
      OBVIOUS
    <3> HIDE DEF D
    <3> QED  BY <3>5, <3>6
  <2>2. PICK k \in D : \A m \in D : k <= m
    <3> HIDE DEF D
    <3> QED  BY <2>1, LeastExists
  <2>3. k \in 1..n /\ x[k] # y[k] /\ x[k] \in Int /\ y[k] \in Int
    OBVIOUS
  <2>4. \A m \in 1..(k - 1) : x[m] = y[m]
    <3> SUFFICES ASSUME NEW m \in 1..(k - 1), x[m] # y[m] PROVE FALSE
      OBVIOUS
    <3>1. m \in D /\ m < k /\ m \in Int /\ k \in Int
      BY <2>3
    <3> QED  BY <2>2, <3>1
  <2>5. x[k] < y[k] \/ y[k] < x[k]
    BY <2>3
  <2> QED  BY <2>3, <2>4, <2>5 DEF LabelsFirst
<1> QED  BY <1>1, <1>2, <1>3

LEMMA MasksAreOrdered ==
  ASSUME NEW cs, AreCandidates(cs), NEW c \in SUBSET DOMAIN cs, NEW d \in SUBSET DOMAIN cs, NEW e \in SUBSET DOMAIN cs
  PROVE  /\ ~MaskFirst(cs, c, c)
         /\ MaskFirst(cs, c, d) /\ MaskFirst(cs, d, e) => MaskFirst(cs, c, e)
         /\ MaskFirst(cs, c, d) \/ c = d \/ MaskFirst(cs, d, c)
<1>1. ~MaskFirst(cs, c, c)
  BY DEF MaskFirst
<1>2. /\ \A i \in DOMAIN cs : ~Before(cs, i, i)
      /\ \A i, j, k \in DOMAIN cs : Before(cs, i, j) /\ Before(cs, j, k) => Before(cs, i, k)
      /\ \A i, j \in DOMAIN cs : i # j => Before(cs, i, j) \/ Before(cs, j, i)
  BY CandidatesAreOrdered
<1>3. ASSUME MaskFirst(cs, c, d), MaskFirst(cs, d, e) PROVE MaskFirst(cs, c, e)
  <2>1. PICK j \in d \ c : \A i \in c \ d : Before(cs, i, j)
    BY <1>3 DEF MaskFirst
  <2>2. PICK k \in e \ d : \A i \in d \ e : Before(cs, i, k)
    BY <1>3 DEF MaskFirst
  <2>3. j \in DOMAIN cs /\ k \in DOMAIN cs /\ j # k
    OBVIOUS
  <2>4. CASE Before(cs, j, k)
    <3>1. ~Before(cs, k, j)
      BY <1>2, <2>3, <2>4
    <3>2. k \in e \ c
      BY <2>1, <3>1
    <3>3. ASSUME NEW i \in c \ e PROVE Before(cs, i, k)
      <4>1. CASE i \in d
        BY <2>2, <3>3, <4>1
      <4>2. CASE i \notin d
        <5>1. Before(cs, i, j) /\ i \in DOMAIN cs
          BY <2>1, <3>3, <4>2
        <5> QED  BY <1>2, <2>3, <2>4, <5>1
      <4> QED  BY <4>1, <4>2
    <3> QED  BY <3>2, <3>3 DEF MaskFirst
  <2>5. CASE Before(cs, k, j)
    <3>1. ~Before(cs, j, k)
      BY <1>2, <2>3, <2>5
    <3>2. j \in e \ c
      BY <2>2, <3>1
    <3>3. ASSUME NEW i \in c \ e PROVE Before(cs, i, j)
      <4>1. CASE i \in d
        <5>1. Before(cs, i, k) /\ i \in DOMAIN cs
          BY <2>2, <3>3, <4>1
        <5> QED  BY <1>2, <2>3, <2>5, <5>1
      <4>2. CASE i \notin d
        BY <2>1, <3>3, <4>2
      <4> QED  BY <4>1, <4>2
    <3> QED  BY <3>2, <3>3 DEF MaskFirst
  <2> QED  BY <1>2, <2>3, <2>4, <2>5
<1>4. ASSUME c # d PROVE MaskFirst(cs, c, d) \/ MaskFirst(cs, d, c)
  <2> DEFINE S == (c \ d) \union (d \ c)
             R == {p \in (DOMAIN cs) \X (DOMAIN cs) : <<p[2], p[1]>> \in BeforePairs(cs)}
  <2>1. S # {} /\ S \in SUBSET DOMAIN cs /\ IsFiniteSet(S)
    <3>1. S # {} /\ S \in SUBSET DOMAIN cs
      BY <1>4
    <3> HIDE DEF S
    <3> QED  BY <3>1, FS_Subset DEF AreCandidates
  <2>2. \A i, j \in DOMAIN cs : <<i, j>> \in R <=> Before(cs, j, i)
    BY PairsAreBefore
  <2> HIDE DEF S, R
  <2>3. Orders2(R, S)
    <3>1. \A i, j \in S : <<i, j>> \in R <=> Before(cs, j, i)
      BY <2>1, <2>2
    <3>2. /\ \A i \in S : ~Before(cs, i, i)
          /\ \A i, j, k \in S : Before(cs, i, j) /\ Before(cs, j, k) => Before(cs, i, k)
          /\ \A i, j \in S : i # j => Before(cs, i, j) \/ Before(cs, j, i)
      BY <1>2, <2>1
    <3> QED  BY <3>1, <3>2 DEF Orders2
  <2>4. PICK j \in S : \A i \in S \ {j} : <<j, i>> \in R
    BY <2>1, <2>3, OneIsFirst
  <2>5. \A i \in S \ {j} : Before(cs, i, j)
    BY <2>1, <2>2, <2>4
  <2>6. CASE j \in d \ c
    <3>1. \A i \in c \ d : i \in S \ {j}
      BY <2>6 DEF S
    <3> QED  BY <2>5, <2>6, <3>1 DEF MaskFirst
  <2>7. CASE j \in c \ d
    <3>1. \A i \in d \ c : i \in S \ {j}
      BY <2>7 DEF S
    <3> QED  BY <2>5, <2>7, <3>1 DEF MaskFirst
  <2> QED  BY <2>6, <2>7 DEF S
<1> QED  BY <1>1, <1>3, <1>4

\* Combinations of one size are ordered.
LEMMA EnumerationIsAnOrder ==
  ASSUME NEW cs, AreCandidates(cs), NEW c \in SUBSET DOMAIN cs, NEW d \in SUBSET DOMAIN cs, NEW e \in SUBSET DOMAIN cs,
         Cardinality(c) = Cardinality(d), Cardinality(d) = Cardinality(e)
  PROVE  /\ ~EnumeratedFirst(cs, c, c)
         /\ EnumeratedFirst(cs, c, d) /\ EnumeratedFirst(cs, d, e) => EnumeratedFirst(cs, c, e)
         /\ EnumeratedFirst(cs, c, d) \/ c = d \/ EnumeratedFirst(cs, d, c)
<1> DEFINE L(s) == Labels(cs, s)
           A(s, t) == LabelsFirst(L(s), L(t))
           M(s, t) == MaskFirst(cs, s, t)
<1>1. PICK n \in Nat : n = Cardinality(c) /\ n = Cardinality(d) /\ n = Cardinality(e)
  BY LabelsAreNumbers
<1>2. L(c) \in [1..n -> Int] /\ L(d) \in [1..n -> Int] /\ L(e) \in [1..n -> Int]
  BY <1>1, LabelsAreNumbers
<1>3. \A s, t : EnumeratedFirst(cs, s, t) <=> A(s, t) \/ (L(s) = L(t) /\ M(s, t))
  BY DEF EnumeratedFirst, LabelsFirst, MaskFirst
<1>4. ~A(c, c) /\ (A(c, d) /\ A(d, e) => A(c, e)) /\ (A(c, d) \/ L(c) = L(d) \/ A(d, c))
  <2> HIDE DEF L
  <2> QED  BY <1>2, LabelsAreOrdered
<1>5. ~M(c, c) /\ (M(c, d) /\ M(d, e) => M(c, e)) /\ (M(c, d) \/ c = d \/ M(d, c))
  BY MasksAreOrdered
<1>6. (L(c) = L(d) /\ A(d, e) => A(c, e)) /\ (L(d) = L(e) /\ A(c, d) => A(c, e))
  <2> HIDE DEF L
  <2> QED  OBVIOUS
<1> HIDE DEF L, A, M
<1> QED  BY <1>3, <1>4, <1>5, <1>6

-----------------------------------------------------------------------------
(* Totals                                                                   *)

IsBasket(b) ==
  /\ b.shops \in Seq(Range(b.shops)) /\ \A i \in DOMAIN b.shops : b.shops[i].subtotal \in Int
  /\ b.shipping \in Int \union {None}

\* The subtotals of some lines of a basket are added.
LEMMA SubtotalsAdd ==
  ASSUME NEW b, IsBasket(b), NEW lines \in SUBSET DOMAIN b.shops
  PROVE  /\ IsFiniteSet(lines)
         /\ Subtotals(b, lines) = SumFunctionOnSet([i \in DOMAIN b.shops |-> b.shops[i].subtotal], lines)
         /\ Subtotals(b, lines) \in Int
<1>1. IsFiniteSet(lines)
  <2>1. DOMAIN b.shops = 1..Len(b.shops) /\ Len(b.shops) \in Nat
    BY DEF IsBasket
  <2>2. IsFiniteSet(DOMAIN b.shops)
    BY <2>1, FS_Interval
  <2> QED  BY <2>2, FS_Subset
<1> DEFINE f == [i \in lines |-> b.shops[i].subtotal]
           g == [i \in DOMAIN b.shops |-> b.shops[i].subtotal]
<1>2. \A i \in lines : f[i] \in Int /\ g[i] = f[i]
  BY DEF IsBasket
<1>3. Subtotals(b, lines) = SumFunctionOnSet(f, lines)
  BY DEF Subtotals, SumFunction
<1> HIDE DEF f, g
<1>4. SumFunctionOnSet(f, lines) = SumFunctionOnSet(g, lines)
  BY <1>1, <1>2, SumOfTheSame
<1>5. SumFunctionOnSet(f, lines) \in Int
  BY <1>1, <1>2, SumGrows
<1> QED  BY <1>1, <1>3, <1>4, <1>5 DEF g

LEMMA PoolsAreNumbers ==
  ASSUME NEW b, IsBasket(b)
  PROVE  Merchandise(b) \in Int /\ Shipping(b) \in Int
<1>1. Merchandise(b) \in Int
  BY SubtotalsAdd DEF Merchandise
<1>2. Shipping(b) \in Int
  BY DEF Shipping, IsBasket, Stated
<1> QED  BY <1>1, <1>2

LEMMA EstimatesAreNumbers ==
  ASSUME NEW cs, AreCandidates(cs), NEW c \in SUBSET DOMAIN cs
  PROVE  /\ Estimated(cs, c) = SumFunctionOnSet([i \in DOMAIN cs |-> cs[i].estimate], c)
         /\ Estimated(cs, c) \in Nat
<1> DEFINE f == [i \in c |-> cs[i].estimate]
           g == [i \in DOMAIN cs |-> cs[i].estimate]
<1>1. IsFiniteSet(c)
  BY LabelsAreNumbers
<1>2. \A i \in c : f[i] \in Int /\ f[i] \in Nat /\ g[i] = f[i]
  BY DEF AreCandidates
<1>3. Estimated(cs, c) = SumFunctionOnSet(f, c)
  BY DEF Estimated, SumFunction
<1> HIDE DEF f, g
<1>4. SumFunctionOnSet(f, c) = SumFunctionOnSet(g, c)
  BY <1>1, <1>2, SumOfTheSame
<1>5. SumFunctionOnSet(f, c) \in Nat
  BY <1>1, <1>2, SumIsNat
<1> QED  BY <1>3, <1>4, <1>5 DEF g

LEMMA TotalsAreNumbers ==
  ASSUME NEW cs, AreCandidates(cs), NEW b, IsBasket(b), NEW c \in SUBSET DOMAIN cs
  PROVE  ComboTotal(cs, b, c) \in Int
<1> DEFINE s == {i \in c : cs[i].shipping}
<1>1. s \in SUBSET DOMAIN cs /\ c \ s \in SUBSET DOMAIN cs
  OBVIOUS
<1>2. ComboTotal(cs, b, c) = Min2(Estimated(cs, c \ s), Merchandise(b)) + Min2(Estimated(cs, s), Shipping(b))
  BY DEF ComboTotal
<1> HIDE DEF s
<1>3. Estimated(cs, s) \in Nat /\ Estimated(cs, c \ s) \in Nat
  BY <1>1, EstimatesAreNumbers
<1> QED  BY <1>2, <1>3, PoolsAreNumbers DEF Min2

-----------------------------------------------------------------------------
(* The best combination                                                     *)

LEMMA RanksAreOrdered ==
  ASSUME NEW cs, AreCandidates(cs), NEW b, IsBasket(b),
         NEW c \in SUBSET DOMAIN cs, NEW d \in SUBSET DOMAIN cs, NEW e \in SUBSET DOMAIN cs
  PROVE  /\ ~RanksFirst(cs, b, c, c)
         /\ RanksFirst(cs, b, c, d) /\ RanksFirst(cs, b, d, e) => RanksFirst(cs, b, c, e)
         /\ RanksFirst(cs, b, c, d) \/ c = d \/ RanksFirst(cs, b, d, c)
<1> DEFINE T(s) == ComboTotal(cs, b, s)
           N(s) == Cardinality(s)
           E(s, t) == EnumeratedFirst(cs, s, t)
           R(s, t) == RanksFirst(cs, b, s, t)
<1>1. T(c) \in Int /\ T(d) \in Int /\ T(e) \in Int
  BY TotalsAreNumbers
<1>2. N(c) \in Int /\ N(d) \in Int /\ N(e) \in Int
  BY LabelsAreNumbers
<1>3. \A s, t : R(s, t) <=> T(s) > T(t) \/ (T(s) = T(t) /\ (N(s) < N(t) \/ (N(s) = N(t) /\ E(s, t))))
  BY DEF RanksFirst
<1>4. ~E(c, c)
  BY LabelsAreNumbers, EnumerationIsAnOrder
<1>5. N(c) = N(d) /\ N(d) = N(e) => (E(c, d) /\ E(d, e) => E(c, e))
  BY EnumerationIsAnOrder
<1>6. N(c) = N(d) => E(c, d) \/ c = d \/ E(d, c)
  BY EnumerationIsAnOrder
<1> HIDE DEF T, N, E, R
<1>7. ~R(c, c)
  BY <1>1, <1>2, <1>3, <1>4
<1>8. R(c, d) /\ R(d, e) => R(c, e)
  BY <1>1, <1>2, <1>3, <1>5
<1>9. R(c, d) \/ c = d \/ R(d, c)
  BY <1>1, <1>2, <1>3, <1>6
<1> QED  BY <1>7, <1>8, <1>9 DEF R

\* There is one combination that ranks before all others.
LEMMA BestIsFirst ==
  ASSUME NEW cs, AreCandidates(cs), NEW b, IsBasket(b), NEW combos, combos \subseteq SUBSET DOMAIN cs, combos # {}
  PROVE  /\ Best(cs, b, combos) \in combos
         /\ \A d \in combos \ {Best(cs, b, combos)} : RanksFirst(cs, b, Best(cs, b, combos), d)
         /\ \A c \in combos : (\A d \in combos \ {c} : RanksFirst(cs, b, c, d)) => c = Best(cs, b, combos)
<1> DEFINE R == {p \in combos \X combos : RanksFirst(cs, b, p[1], p[2])}
           Leads(c) == \A d \in combos \ {c} : RanksFirst(cs, b, c, d)
<1>1. IsFiniteSet(combos)
  <2>1. IsFiniteSet(SUBSET DOMAIN cs)
    BY FS_SUBSET DEF AreCandidates
  <2> QED  BY <2>1, FS_Subset
<1>2. \A c, d \in combos : <<c, d>> \in R <=> RanksFirst(cs, b, c, d)
  OBVIOUS
<1> HIDE DEF R
<1>3. /\ \A c \in combos : ~RanksFirst(cs, b, c, c)
      /\ \A c, d, e \in combos : RanksFirst(cs, b, c, d) /\ RanksFirst(cs, b, d, e) => RanksFirst(cs, b, c, e)
      /\ \A c, d \in combos : c # d => RanksFirst(cs, b, c, d) \/ RanksFirst(cs, b, d, c)
  <2>1. \A c, d, e \in combos : /\ ~RanksFirst(cs, b, c, c)
                                /\ RanksFirst(cs, b, c, d) /\ RanksFirst(cs, b, d, e) => RanksFirst(cs, b, c, e)
                                /\ RanksFirst(cs, b, c, d) \/ c = d \/ RanksFirst(cs, b, d, c)
    BY RanksAreOrdered
  <2> QED  BY <2>1
<1>4. Orders2(R, combos)
  BY <1>2, <1>3 DEF Orders2
<1>5. \E c \in combos : Leads(c)
  <2>1. PICK c \in combos : \A d \in combos \ {c} : <<c, d>> \in R
    BY <1>1, <1>4, OneIsFirst
  <2> QED  BY <1>2, <2>1
<1>6. Best(cs, b, combos) \in combos /\ Leads(Best(cs, b, combos))
  BY <1>5 DEF Best
<1>7. ASSUME NEW c \in combos, NEW d \in combos, Leads(c), Leads(d) PROVE c = d
  <2>1. ASSUME c # d PROVE FALSE
    <3>1. RanksFirst(cs, b, c, d) /\ RanksFirst(cs, b, d, c)
      BY <1>7, <2>1
    <3> QED  BY <1>3, <3>1
  <2> QED  BY <2>1
<1> QED  BY <1>6, <1>7

-----------------------------------------------------------------------------
(* The candidates of a plan                                                 *)

LEMMA ShopIsFound ==
  ASSUME NEW b, IsBasket(b), NEW id
  PROVE  LET hits == {i \in DOMAIN b.shops : b.shops[i].id[1] = id[1]}
         IN /\ ShopOf(b, id) \in Nat
            /\ hits = {} => ShopOf(b, id) = 0
            /\ hits # {} => ShopOf(b, id) \in hits /\ ShopOf(b, id) # 0
<1> DEFINE hits == {i \in 1..Len(b.shops) : b.shops[i].id[1] = id[1]}
           k == SelectInSeq(b.shops, LAMBDA s : s.id[1] = id[1])
<1>1. k = IF hits # {} THEN Min(hits) ELSE 0
  BY DEF SelectInSeq
<1>2. Len(b.shops) \in Nat /\ DOMAIN b.shops = 1..Len(b.shops)
  BY DEF IsBasket
<1>3. hits \subseteq Nat \ {0}
  BY <1>2
<1>4. ShopOf(b, id) = k
  BY DEF ShopOf
<1> HIDE DEF hits, k
<1>5. ASSUME hits # {} PROVE k \in hits
  <2>1. PICK m \in hits : \A n \in hits : m <= n
    BY <1>3, <1>5, LeastExists
  <2>2. Min(hits) \in hits
    BY <2>1 DEF Min
  <2> QED  BY <1>1, <1>5, <2>2
<1>6. /\ k \in Nat
      /\ hits = {} => k = 0
      /\ hits # {} => k \in hits /\ k # 0
  BY <1>1, <1>3, <1>5
<1>7. hits = {i \in DOMAIN b.shops : b.shops[i].id[1] = id[1]}
  BY <1>2 DEF hits
<1> QED  BY <1>4, <1>6, <1>7

LEMMA QualifyingIsNumber ==
  ASSUME NEW b, IsBasket(b), NEW v
  PROVE  Qualifying(v, b) \in Int /\ Base(v, b) \in Int
<1>1. Merchandise(b) \in Int /\ Shipping(b) \in Int
  BY PoolsAreNumbers
<1>2. \A tag : CategorySubtotal(b, tag) \in Int
  <2> SUFFICES ASSUME NEW tag PROVE CategorySubtotal(b, tag) \in Int
    OBVIOUS
  <2>1. {i \in DOMAIN b.shops : ContainsIgnoreCase(b.shops[i].tags, tag)} \in SUBSET DOMAIN b.shops
    OBVIOUS
  <2> QED  BY <2>1, SubtotalsAdd DEF CategorySubtotal
<1>3. \A id : ShopOf(b, id) # 0 => b.shops[ShopOf(b, id)].subtotal \in Int
  <2> SUFFICES ASSUME NEW id, ShopOf(b, id) # 0 PROVE b.shops[ShopOf(b, id)].subtotal \in Int
    OBVIOUS
  <2>1. ShopOf(b, id) \in DOMAIN b.shops
    BY ShopIsFound
  <2> QED  BY <2>1 DEF IsBasket
<1>4. Qualifying(v, b) \in Int
  <2>1. CASE v.scope.kind = "Shop"
    BY <1>3, <2>1 DEF Qualifying
  <2>2. CASE v.scope.kind = "Category"
    BY <1>2, <2>2 DEF Qualifying
  <2>3. CASE v.scope.kind \notin {"Shop", "Category"}
    BY <1>1, <2>3 DEF Qualifying
  <2> QED  BY <2>1, <2>2, <2>3
<1>5. Base(v, b) = IF ~TargetsShipping(v) THEN Qualifying(v, b) ELSE Shipping(b)
  BY DEF Base, Shipping
<1> QED  BY <1>1, <1>4, <1>5

LEMMA EstimateIsNat ==
  ASSUME NEW v, IsVoucher(v), NEW applicable \in Int
  PROVE  Estimate(v, applicable) \in Nat
<1> DEFINE rule == DiscountRule(v)
           base == Max2(applicable, 0)
           UpTo(x) == IF Stated(x) THEN Min2(x, base) ELSE base
<1>1. base \in Nat
  BY DEF Max2
<1>2. \A x \in Nat \union {None} : NonNegative(x) = x /\ (Stated(x) <=> x \in Nat)
  BY MoneyIsCounted
<1>3. v.percent \in Nat \union {None} /\ v.cap \in Nat \union {None} /\ v.amount \in Nat \union {None}
  BY DEF IsVoucher
<1>4. EffectiveDiscount(v) \in Nat \union {None}
  <2>1. EffectiveDiscount(v) = IF Stated(v.amount) /\ Stated(v.cap) THEN Min2(v.amount, v.cap)
                               ELSE IF Stated(v.amount) THEN v.amount ELSE v.cap
    BY <1>2, <1>3 DEF EffectiveDiscount
  <2>2. Stated(v.amount) /\ Stated(v.cap) => Min2(v.amount, v.cap) \in Nat
    BY <1>2, <1>3 DEF Min2
  <2> QED  BY <1>3, <2>1, <2>2
<1> HIDE DEF base
<1>5. \A x \in Nat \union {None} : UpTo(x) \in Nat
  BY <1>1, <1>2 DEF Min2
<1> HIDE DEF UpTo
<1>6. CASE rule.kind \in {"Fixed", "FreeShipping"} /\ rule.amount \in Nat \union {None}
  <2>1. Estimate(v, applicable) = UpTo(rule.amount)
    BY <1>6 DEF Estimate, UpTo, base
  <2> QED  BY <1>5, <1>6, <2>1
<1>7. CASE rule.kind = "Percent" /\ rule.percent \in Nat /\ rule.cap \in Nat \union {None}
  <2>1. Estimate(v, applicable) = Min2(Rounded(base * rule.percent, 100), UpTo(rule.cap))
    BY <1>7 DEF Estimate, UpTo, base
  <2>2. base * rule.percent \in Nat
    BY <1>1, <1>7
  <2>3. Rounded(base * rule.percent, 100) \in Nat
    BY <2>2, RoundedIsNat
  <2>4. UpTo(rule.cap) \in Nat
    BY <1>5, <1>7
  <2> QED  BY <2>1, <2>3, <2>4 DEF Min2
<1>8. CASE rule.kind = "Unknown"
  BY <1>8 DEF Estimate
<1>9. CASE Stated(NonNegative(v.percent))
  <2>1. rule = [kind |-> "Percent", percent |-> NonNegative(v.percent), cap |-> NonNegative(v.cap)]
    BY <1>9 DEF DiscountRule
  <2> HIDE DEF rule
  <2>2. rule.kind = "Percent" /\ rule.percent = v.percent /\ rule.cap = v.cap
    <3>1. NonNegative(v.percent) = v.percent /\ NonNegative(v.cap) = v.cap
      BY <1>2, <1>3
    <3> QED  BY <2>1, <3>1
  <2>3. v.percent \in Nat
    BY <1>2, <1>3, <1>9
  <2> QED  BY <1>3, <1>7, <2>2, <2>3
<1>10. CASE ~Stated(NonNegative(v.percent))
  <2>1. \/ rule = [kind |-> "FreeShipping", amount |-> EffectiveDiscount(v)]
        \/ rule = [kind |-> "Fixed", amount |-> EffectiveDiscount(v)]
        \/ rule = [kind |-> "Unknown"]
    BY <1>10 DEF DiscountRule
  <2> HIDE DEF rule
  <2> QED  BY <1>4, <1>6, <1>8, <2>1
<1> QED  BY <1>9, <1>10

GroupKinds == {"Platform", "Shop", "Freeship", "Payment", "Other"}

IsPolicy(p) ==
  /\ {p.maxPlatform, p.maxShopPerShop, p.maxFreeship, p.maxPayment, p.maxOther, p.maxCandidates} \subseteq Nat
  /\ p.maxTotal \in Nat \union {None}

\* Distinct vouchers in some order.
IsOrder(vs, S) ==
  /\ IsFiniteSet(S) /\ S \subseteq PlanVouchers
  /\ vs \in [1..Cardinality(S) -> S] /\ \A i, j \in 1..Cardinality(S) : i # j => vs[i] # vs[j]

\* The slots of what a plan may hold are numbers.
AreGrouped(cs) == \A i \in DOMAIN cs : cs[i].group[1] \in GroupKinds

LEMMA EvaluatedAre ==
  ASSUME NEW S, NEW vs, IsOrder(vs, S), NEW b, IsBasket(b)
  PROVE  /\ DOMAIN Evaluate(vs, b) = {i \in DOMAIN vs : NotApplicable(vs[i], b) = None}
         /\ DOMAIN vs = 1..Cardinality(S) /\ Cardinality(S) \in Nat
         /\ AreCandidates(Evaluate(vs, b)) /\ AreGrouped(Evaluate(vs, b))
<1> DEFINE cs == Evaluate(vs, b)
           D == {i \in DOMAIN vs : NotApplicable(vs[i], b) = None}
<1>1. Cardinality(S) \in Nat /\ DOMAIN vs = 1..Cardinality(S)
  BY FS_CardinalityType DEF IsOrder
<1>2. IsFiniteSet(D) /\ D \subseteq Nat
  <2>1. IsFiniteSet(DOMAIN vs)
    BY <1>1, FS_Interval
  <2>2. D \in SUBSET DOMAIN vs
    OBVIOUS
  <2> HIDE DEF D
  <2>3. IsFiniteSet(D)
    BY <2>1, <2>2, FS_Subset
  <2> QED  BY <1>1, <2>2, <2>3
<1>3. cs = [i \in D |-> [label    |-> vs[i].label,
                         group    |-> StackGroup(vs[i]),
                         estimate |-> Estimate(vs[i], Base(vs[i], b)),
                         shipping |-> TargetsShipping(vs[i]),
                         gaps     |-> CandidateGaps(vs[i], b)]]
  BY DEF Evaluate
<1>4. \A i \in D : vs[i] \in PlanVouchers
  BY <1>1 DEF IsOrder
<1> HIDE DEF D, cs
<1>5. ASSUME NEW i \in D
      PROVE  cs[i].estimate \in Nat /\ cs[i].label \in Int /\ cs[i].group[1] \in GroupKinds
  <2>1. IsVoucher(vs[i]) /\ vs[i].label \in Int
    BY <1>4, ScoredAreVouchers, AdviceAssumption
  <2>2. /\ cs[i].label = vs[i].label /\ cs[i].estimate = Estimate(vs[i], Base(vs[i], b))
        /\ cs[i].group = StackGroup(vs[i])
    BY <1>3
  <2>3. cs[i].estimate \in Nat
    BY <2>1, <2>2, EstimateIsNat, QualifyingIsNumber
  <2>4. StackGroup(vs[i])[1] \in GroupKinds
    BY DEF StackGroup, GroupKinds
  <2> QED  BY <2>1, <2>2, <2>3, <2>4
<1>6. DOMAIN cs = D
  BY <1>3
<1>7. AreCandidates(cs) /\ AreGrouped(cs)
  BY <1>2, <1>5, <1>6 DEF AreCandidates, AreGrouped
<1> QED  BY <1>1, <1>6, <1>7 DEF D, cs

LEMMA SlotsAreNumbers ==
  ASSUME NEW p, IsPolicy(p), NEW g, g[1] \in GroupKinds
  PROVE  Slots(g, p) \in Nat
<1>1. /\ p.maxPlatform \in Nat /\ p.maxShopPerShop \in Nat /\ p.maxFreeship \in Nat
      /\ p.maxPayment \in Nat /\ p.maxOther \in Nat
  BY DEF IsPolicy
<1>2. CASE g[1] = "Platform"
  BY <1>1, <1>2 DEF Slots
<1>3. CASE g[1] = "Shop"
  BY <1>1, <1>3 DEF Slots
<1>4. CASE g[1] = "Freeship"
  BY <1>1, <1>4 DEF Slots
<1>5. CASE g[1] = "Payment"
  BY <1>1, <1>5 DEF Slots
<1>6. CASE g[1] = "Other"
  BY <1>1, <1>6 DEF Slots
<1> QED  BY <1>2, <1>3, <1>4, <1>5, <1>6 DEF GroupKinds

\* No combination at all is one that every policy allows.
LEMMA NothingIsAllowed ==
  ASSUME NEW cs, AreCandidates(cs), NEW p, IsPolicy(p)
  PROVE  /\ {} \in Combinations(cs, p)
         /\ Searched(cs, p) \subseteq DOMAIN cs
         /\ Combinations(cs, p) \subseteq SUBSET DOMAIN cs
<1>1. Stated(p.maxTotal) => Cardinality({}) <= p.maxTotal
  BY FS_EmptySet DEF IsPolicy, Stated
<1>2. PolicyAllows(cs, {}, p)
  BY <1>1 DEF PolicyAllows
<1>3. Searched(cs, p) \subseteq DOMAIN cs
  BY DEF Searched
<1> QED  BY <1>2, <1>3 DEF Combinations

\* What a plan says is about the best combination.
LEMMA AnswerIsBest ==
  ASSUME NEW vs, NEW b, NEW p
  PROVE  LET cs == Evaluate(vs, b)
             best == Best(cs, b, Combinations(cs, p))
             answer == Plan(vs, b, p)
         IN /\ answer.selected = best
            /\ answer.total = ComboTotal(cs, b, best)
            /\ answer.after = Max2(Merchandise(b) + Shipping(b) - ComboTotal(cs, b, best), 0)
            /\ Truncated(cs, p) => "CandidateSetTruncated" \in answer.gaps
<1> DEFINE cs == Evaluate(vs, b)
           combos == Combinations(cs, p)
           best == Best(cs, b, combos)
           among == PlanAmong(cs, b, Searched(cs, p), combos)
           cut == IF Truncated(cs, p) THEN {"CandidateSetTruncated"} ELSE {}
<1>1. among = PlanWith(cs, b, Searched(cs, p), best, combos \ {best})
  BY DEF PlanAmong
<1>2. Plan(vs, b, p) = [among EXCEPT !.gaps = among.gaps \union cut]
  BY DEF Plan, PlanOf
<1> HIDE DEF combos, best, cs, among, cut
<1>3. /\ among.selected = best /\ among.total = ComboTotal(cs, b, best)
      /\ among.after = Max2(Merchandise(b) + Shipping(b) - ComboTotal(cs, b, best), 0)
      /\ {"selected", "total", "after", "gaps"} \subseteq DOMAIN among
  BY <1>1 DEF PlanWith
<1>4. /\ Plan(vs, b, p).selected = among.selected /\ Plan(vs, b, p).total = among.total
      /\ Plan(vs, b, p).after = among.after /\ Plan(vs, b, p).gaps = among.gaps \union cut
  BY <1>2, <1>3
<1> QED  BY <1>3, <1>4 DEF cs, combos, best, cut

\* No allowed combination saves more than the best, and none that holds fewer
\* vouchers saves as much.
LEMMA BestSavesMost ==
  ASSUME NEW cs, AreCandidates(cs), NEW b, IsBasket(b), NEW p, IsPolicy(p)
  PROVE  LET combos == Combinations(cs, p)
             best == Best(cs, b, combos)
         IN /\ best \in combos /\ best \in SUBSET DOMAIN cs
            /\ \A d \in combos : ComboTotal(cs, b, d) <= ComboTotal(cs, b, best)
            /\ \A d \in combos : Cardinality(d) < Cardinality(best) => ComboTotal(cs, b, d) < ComboTotal(cs, b, best)
<1> DEFINE combos == Combinations(cs, p)
           best == Best(cs, b, combos)
<1>1. combos \subseteq SUBSET DOMAIN cs /\ combos # {}
  BY NothingIsAllowed
<1> HIDE DEF combos
<1>2. best \in combos /\ \A d \in combos \ {best} : RanksFirst(cs, b, best, d)
  BY <1>1, BestIsFirst
<1> HIDE DEF best
<1>3. \A d \in combos : ComboTotal(cs, b, d) \in Int /\ Cardinality(d) \in Int
  BY <1>1, TotalsAreNumbers, LabelsAreNumbers
<1>4. ASSUME NEW d \in combos
      PROVE  /\ ComboTotal(cs, b, d) <= ComboTotal(cs, b, best)
             /\ Cardinality(d) < Cardinality(best) => ComboTotal(cs, b, d) < ComboTotal(cs, b, best)
  <2>1. /\ ComboTotal(cs, b, d) \in Int /\ ComboTotal(cs, b, best) \in Int
        /\ Cardinality(d) \in Int /\ Cardinality(best) \in Int
    BY <1>2, <1>3
  <2>2. CASE d = best
    BY <2>1, <2>2
  <2>3. CASE d # best
    <3>1. RanksFirst(cs, b, best, d)
      BY <1>2, <2>3
    <3> QED  BY <2>1, <3>1 DEF RanksFirst
  <2> QED  BY <2>2, <2>3
<1> QED  BY <1>1, <1>2, <1>4 DEF best, combos

LEMMA NothingIsMissed ==
  ASSUME NEW cs, AreCandidates(cs), AreGrouped(cs), NEW p, IsPolicy(p), ~Truncated(cs, p),
         NEW c \in SUBSET DOMAIN cs, \A i, j \in c : i # j => cs[i].group # cs[j].group,
         \A i \in c : Slots(cs[i].group, p) > 0, Stated(p.maxTotal) => Cardinality(c) <= p.maxTotal
  PROVE  c \in Combinations(cs, p)
<1>1. Limit(p) \in Int /\ Cardinality(DOMAIN cs) \in Int /\ Cardinality(DOMAIN cs) <= Limit(p)
  <2>1. Limit(p) \in Int
    BY DEF Limit, Min2, MaxSearchCandidates, IsPolicy
  <2>2. Cardinality(DOMAIN cs) \in Int
    BY FS_CardinalityType DEF AreCandidates
  <2> QED  BY <2>1, <2>2 DEF Truncated
<1>2. Searched(cs, p) = DOMAIN cs
  <2> DEFINE R == BeforePairs(cs)
  <2>1. \A i \in DOMAIN cs : Cardinality(Below(R, DOMAIN cs, i)) \in 0..(Cardinality(DOMAIN cs) - 1)
    BY PairsOrderCandidates, PlacesAreTaken DEF AreCandidates
  <2>2. \A i \in DOMAIN cs : {j \in DOMAIN cs : Before(cs, j, i)} = Below(R, DOMAIN cs, i)
    <3>1. \A i, j \in DOMAIN cs : <<j, i>> \in R <=> Before(cs, j, i)
      BY PairsAreBefore
    <3> QED  BY <3>1 DEF Below
  <2> HIDE DEF R
  <2>3. ASSUME NEW i \in DOMAIN cs PROVE Cardinality({j \in DOMAIN cs : Before(cs, j, i)}) < Limit(p)
    <3> DEFINE k == Cardinality(Below(R, DOMAIN cs, i))
               n == Cardinality(DOMAIN cs)
    <3>1. k \in 0..(n - 1) /\ n \in Int /\ Limit(p) \in Int /\ n <= Limit(p)
      BY <1>1, <2>1
    <3> HIDE DEF k, n
    <3>2. k < Limit(p)
      BY <3>1
    <3> QED  BY <2>2, <3>2 DEF k
  <2> QED  BY <2>3 DEF Searched
<1>3. ASSUME NEW i \in c PROVE Cardinality({j \in c : cs[j].group = cs[i].group}) <= Slots(cs[i].group, p)
  <2>1. {j \in c : cs[j].group = cs[i].group} = {i}
    OBVIOUS
  <2>2. Cardinality({i}) = 1
    BY FS_Singleton
  <2>3. Slots(cs[i].group, p) \in Nat /\ Slots(cs[i].group, p) > 0
    BY SlotsAreNumbers DEF AreGrouped
  <2>4. 1 <= Slots(cs[i].group, p)
    BY <2>3
  <2> QED  BY <2>1, <2>2, <2>4
<1> QED  BY <1>2, <1>3 DEF Combinations, PolicyAllows

LEMMA LessIsAllowed ==
  ASSUME NEW cs, AreCandidates(cs), AreGrouped(cs), NEW p, IsPolicy(p), NEW c \in Combinations(cs, p), NEW i \in c
  PROVE  c \ {i} \in Combinations(cs, p) /\ Cardinality(c \ {i}) < Cardinality(c)
<1> DEFINE d == c \ {i}
<1>1. c \in SUBSET Searched(cs, p) /\ PolicyAllows(cs, c, p) /\ c \in SUBSET DOMAIN cs
  BY NothingIsAllowed DEF Combinations
<1>2. IsFiniteSet(c) /\ Cardinality(c) \in Nat
  BY <1>1, LabelsAreNumbers
<1>3. Cardinality(d) = Cardinality(c) - 1
  BY <1>2, FS_RemoveElement
<1>4. Stated(p.maxTotal) => Cardinality(d) <= p.maxTotal
  <2> DEFINE m == Cardinality(d)
             n == Cardinality(c)
  <2>1. m = n - 1 /\ n \in Nat
    BY <1>2, <1>3
  <2>2. Stated(p.maxTotal) => n <= p.maxTotal /\ p.maxTotal \in Nat
    BY <1>1 DEF PolicyAllows, IsPolicy, Stated
  <2> HIDE DEF m, n
  <2>3. Stated(p.maxTotal) => m <= p.maxTotal
    BY <2>1, <2>2
  <2> QED  BY <2>3 DEF m
<1>5. ASSUME NEW j \in d PROVE Cardinality({k \in d : cs[k].group = cs[j].group}) <= Slots(cs[j].group, p)
  <2> DEFINE A == {k \in c : cs[k].group = cs[j].group}
             B == {k \in d : cs[k].group = cs[j].group}
  <2>1. B \in SUBSET A /\ A \in SUBSET c /\ j \in c
    OBVIOUS
  <2>2. Cardinality(A) <= Slots(cs[j].group, p)
    <3> HIDE DEF d
    <3> QED  BY <1>1, <2>1 DEF PolicyAllows
  <2> HIDE DEF A, B, d
  <2>3. IsFiniteSet(A) /\ IsFiniteSet(B) /\ Cardinality(B) <= Cardinality(A)
    BY <1>2, <2>1, FS_Subset
  <2>4. Cardinality(A) \in Nat /\ Cardinality(B) \in Nat
    BY <2>3, FS_CardinalityType
  <2>5. j \in DOMAIN cs
    BY <1>1 DEF d
  <2>6. Slots(cs[j].group, p) \in Nat
    BY <2>5, SlotsAreNumbers DEF AreGrouped
  <2>7. Cardinality(B) <= Slots(cs[j].group, p)
    BY <2>2, <2>3, <2>4, <2>6
  <2> QED  BY <2>7 DEF B
<1> HIDE DEF d
<1>6. d \in SUBSET Searched(cs, p)
  BY <1>1 DEF d
<1>7. d \in Combinations(cs, p)
  BY <1>4, <1>5, <1>6 DEF Combinations, PolicyAllows
<1> QED  BY <1>2, <1>3, <1>7 DEF d

PlanAsked ==
  question.about = "plan" =>
    \E vs \in Orders, b \in Baskets, policy \in Policies :
      question = [about |-> "plan", vs |-> vs, basket |-> b, policy |-> policy]

LEMMA PlanIsAskedOf ==
  ASSUME PlanAsked, AboutPlan
  PROVE  /\ IsBasket(question.basket) /\ IsPolicy(question.policy)
         /\ \E S : IsOrder(question.vs, S)
<1>1. PICK vs \in Orders, b \in Baskets, policy \in Policies :
        question = [about |-> "plan", vs |-> vs, basket |-> b, policy |-> policy]
  BY Zenon DEF PlanAsked, AboutPlan
<1>2. question.vs = vs /\ question.basket = b /\ question.policy = policy
  BY <1>1
<1>3. IsBasket(b)
  BY AdviceAssumption DEF IsBasket
<1>4. IsPolicy(policy)
  BY AdviceAssumption DEF IsPolicy
<1>5. \E S : IsOrder(vs, S)
  <2>1. PICK S \in SUBSET PlanVouchers : IsFiniteSet(S) /\ vs \in SetToSeqs(S)
    BY DEF Orders
  <2>2. IsOrder(vs, S)
    BY <2>1 DEF SetToSeqs, IsOrder
  <2> QED  BY <2>2
<1> QED  BY <1>2, <1>3, <1>4, <1>5

LEMMA PlansAreBest ==
  ASSUME PlanAsked
  PROVE  BestOrDisclosed
<1> SUFFICES ASSUME AboutPlan, "CandidateSetTruncated" \notin Answer.gaps
             PROVE  MissesNothing(Cands, Answer)
  BY DEF BestOrDisclosed
<1>1. PICK b, p, cs : b = question.basket /\ p = question.policy /\ cs = Cands
  OBVIOUS
<1>2. IsBasket(b) /\ IsPolicy(p) /\ AreCandidates(cs) /\ AreGrouped(cs)
  BY <1>1, PlanIsAskedOf, EvaluatedAre DEF Cands
<1>3. ~Truncated(cs, p) /\ Answer.total = ComboTotal(cs, b, Best(cs, b, Combinations(cs, p)))
  BY <1>1, AnswerIsBest DEF Cands, Answer
<1>4. ASSUME NEW c \in SUBSET DOMAIN cs, \A i, j \in c : i # j => cs[i].group # cs[j].group,
             \A i \in c : Slots(cs[i].group, p) > 0, Stated(p.maxTotal) => Cardinality(c) <= p.maxTotal
      PROVE  ComboTotal(cs, b, c) <= Answer.total
  <2>1. c \in Combinations(cs, p)
    BY <1>2, <1>3, <1>4, NothingIsMissed
  <2> QED  BY <1>2, <1>3, <2>1, BestSavesMost
<1> QED  BY <1>1, <1>4 DEF MissesNothing

LEMMA NoneIsIdle ==
  ASSUME PlanAsked
  PROVE  NoIdleVoucher
<1> SUFFICES ASSUME AboutPlan PROVE EachPays(Cands, Answer)
  BY DEF NoIdleVoucher
<1>1. PICK b, p, cs : b = question.basket /\ p = question.policy /\ cs = Cands
  OBVIOUS
<1>2. IsBasket(b) /\ IsPolicy(p) /\ AreCandidates(cs) /\ AreGrouped(cs)
  BY <1>1, PlanIsAskedOf, EvaluatedAre DEF Cands
<1>3. PICK best : best = Best(cs, b, Combinations(cs, p))
  OBVIOUS
<1>4. Answer.selected = best /\ Answer.total = ComboTotal(cs, b, best)
  BY <1>1, <1>3, AnswerIsBest DEF Cands, Answer
<1>5. best \in Combinations(cs, p)
  BY <1>2, <1>3, BestSavesMost
<1>6. ASSUME NEW i \in best PROVE ComboTotal(cs, b, best \ {i}) < ComboTotal(cs, b, best)
  <2>1. best \ {i} \in Combinations(cs, p) /\ Cardinality(best \ {i}) < Cardinality(best)
    BY <1>2, <1>5, LessIsAllowed
  <2> QED  BY <1>2, <1>3, <2>1, BestSavesMost
<1> QED  BY <1>1, <1>4, <1>6 DEF EachPays

LEMMA SavingsStay ==
  ASSUME PlanAsked
  PROVE  SavingsStayInTheirPool
<1> SUFFICES ASSUME AboutPlan
             PROVE  InPools({i \in Answer.selected : TargetsShipping(question.vs[i])}, Answer)
  BY DEF SavingsStayInTheirPool
<1>1. PICK b, p, cs : b = question.basket /\ p = question.policy /\ cs = Cands
  OBVIOUS
<1>2. IsBasket(b) /\ IsPolicy(p) /\ AreCandidates(cs)
  BY <1>1, PlanIsAskedOf, EvaluatedAre DEF Cands
<1>3. PICK best : best = Best(cs, b, Combinations(cs, p))
  OBVIOUS
<1>4. /\ Answer.selected = best /\ Answer.total = ComboTotal(cs, b, best)
      /\ Answer.after = Max2(Merchandise(b) + Shipping(b) - ComboTotal(cs, b, best), 0)
  BY <1>1, <1>3, AnswerIsBest DEF Cands, Answer
<1>5. best \in SUBSET DOMAIN cs
  BY <1>2, <1>3, BestSavesMost
<1> DEFINE s == {i \in best : cs[i].shipping}
<1>6. {i \in Answer.selected : TargetsShipping(question.vs[i])} = s
  <2>1. \A i \in DOMAIN cs : cs[i].shipping = TargetsShipping(question.vs[i])
    BY <1>1 DEF Cands, Evaluate
  <2> QED  BY <1>4, <1>5, <2>1
<1> DEFINE x == Estimated(cs, best \ s)
           y == Estimated(cs, s)
           m == Merchandise(b)
           h == Shipping(b)
           t == ComboTotal(cs, b, best)
<1>7. t = Min2(x, m) + Min2(y, h)
  BY DEF ComboTotal
<1>8. s \in SUBSET DOMAIN cs /\ best \ s \in SUBSET DOMAIN cs
  BY <1>5
<1>9. (s = {} => y = 0) /\ (s = best => x = 0)
  <2>1. Estimated(cs, {}) = 0
    <3>1. Estimated(cs, {}) = SumFunctionOnSet([i \in DOMAIN cs |-> cs[i].estimate], {})
      BY <1>2, EstimatesAreNumbers
    <3> QED  BY <3>1, FS_EmptySet, SumUnfolds
  <2>2. s = best => best \ s = {}
    OBVIOUS
  <2> HIDE DEF s
  <2> QED  BY <2>1, <2>2
<1> HIDE DEF s
<1>10. x \in Nat /\ y \in Nat /\ m \in Int /\ h \in Int
  BY <1>2, <1>8, EstimatesAreNumbers, PoolsAreNumbers
<1> HIDE DEF x, y, m, h, t
<1>11. /\ s = {} => t <= m
       /\ s = best => t <= h
       /\ Max2(m + h - t, 0) + t = m + h
  BY <1>7, <1>9, <1>10 DEF Min2, Max2
<1> QED  BY <1>1, <1>4, <1>6, <1>11 DEF InPools, m, h, t

LEMMA SumOfOne ==
  ASSUME NEW f, NEW k, f[k] \in Int
  PROVE  SumFunctionOnSet(f, {k}) = f[k]
<1>1. IsFiniteSet({k}) /\ {k} # {}
  BY FS_Singleton
<1>2. SumFunctionOnSet(f, {}) = 0
  BY FS_EmptySet, SumUnfolds
<1>3. PICK x \in {k} : SumFunctionOnSet(f, {k}) = f[x] + SumFunctionOnSet(f, {k} \ {x})
  BY <1>1, SumUnfolds
<1>4. {k} \ {x} = {} /\ x = k
  BY <1>3
<1> QED  BY <1>2, <1>3, <1>4

\* A basket that validates names every shop once.
LEMMA DuplicatesAreTold ==
  ASSUME NEW b, BasketIssues(b) = {}
  PROVE  \A i, j \in DOMAIN b.shops : b.shops[i].id[1] = b.shops[j].id[1] => i = j
<1> DEFINE others == (IF b.shops = << >> THEN {"EmptyBasket"} ELSE {})
                       \union (IF Stated(b.shipping) /\ b.shipping < 0 THEN {"NegativeAmount"} ELSE {})
                       \union (UNION {ShopIssues(s) : s \in ToSet(b.shops)})
           Twice  == \E i, j \in DOMAIN b.shops : i # j /\ b.shops[i].id[1] = b.shops[j].id[1]
<1>1. BasketIssues(b) = others \union (IF Twice THEN {"DuplicateShop"} ELSE {})
  BY Zenon DEF BasketIssues
<1> HIDE DEF others, Twice
<1>2. ~Twice
  BY <1>1
<1> QED  BY <1>2 DEF Twice

LEMMA ShopIsWhole ==
  ASSUME PlanAsked
  PROVE  ShopIsMeasuredWhole
<1> SUFFICES ASSUME AboutPlan, BasketIssues(question.basket) = {}, NEW i \in DOMAIN Cands,
                    question.vs[i].scope.kind = "Shop"
             PROVE  LET v == question.vs[i]
                    IN Qualifying(v, question.basket) =
                         Subtotals(question.basket,
                                   {j \in DOMAIN question.basket.shops : question.basket.shops[j].id[1] = v.scope.of[1]})
  BY DEF ShopIsMeasuredWhole
<1>1. PICK b, v, of : b = question.basket /\ v = question.vs[i] /\ of = v.scope.of
  OBVIOUS
<1>2. IsBasket(b)
  BY <1>1, PlanIsAskedOf
<1> DEFINE hits == {j \in DOMAIN b.shops : b.shops[j].id[1] = of[1]}
           f == [j \in DOMAIN b.shops |-> b.shops[j].subtotal]
<1>3. hits \in SUBSET DOMAIN b.shops
  OBVIOUS
<1>4. Subtotals(b, hits) = SumFunctionOnSet(f, hits) /\ IsFiniteSet(hits)
  BY <1>2, <1>3, SubtotalsAdd
<1>5. \A j \in DOMAIN b.shops : f[j] \in Int /\ f[j] = b.shops[j].subtotal
  BY <1>2 DEF IsBasket
<1>6. \A j, k \in hits : j = k
  BY <1>1, DuplicatesAreTold
<1>7. /\ hits = {} => ShopOf(b, of) = 0
      /\ hits # {} => ShopOf(b, of) \in hits /\ ShopOf(b, of) # 0
  BY <1>2, ShopIsFound
<1>8. /\ ShopOf(b, of) # 0 => Qualifying(v, b) = b.shops[ShopOf(b, of)].subtotal
      /\ ShopOf(b, of) = 0 => Qualifying(v, b) = 0
  BY <1>1 DEF Qualifying
<1> HIDE DEF hits, f
<1>9. CASE hits = {}
  <2>1. SumFunctionOnSet(f, {}) = 0
    BY FS_EmptySet, SumUnfolds
  <2> QED  BY <1>1, <1>4, <1>7, <1>8, <1>9, <2>1 DEF hits
<1>10. CASE hits # {}
  <2>1. PICK k : k = ShopOf(b, of)
    OBVIOUS
  <2>2. hits = {k} /\ k \in DOMAIN b.shops
    BY <1>3, <1>6, <1>7, <1>10, <2>1
  <2>3. SumFunctionOnSet(f, hits) = f[k]
    BY <1>5, <2>2, SumOfOne
  <2>4. Qualifying(v, b) = b.shops[k].subtotal
    BY <1>7, <1>8, <1>10, <2>1
  <2> QED  BY <1>1, <1>4, <1>5, <2>2, <2>3, <2>4 DEF hits
<1> QED  BY <1>9, <1>10

-----------------------------------------------------------------------------
(* The planner and the watch list                                           *)

\* The purchase of one item from one shop.
OneItem(item, s) ==
  /\ item.shops = {s} /\ item.tags # {}
  /\ EffectiveSpend(item) \in Int /\ EffectiveSpend(item) > 0

LEMMA ItemIsBasket ==
  ASSUME NEW item, NEW s, OneItem(item, s)
  PROVE  LET b == AsBasket(item)
         IN /\ b.shops = <<[id |-> s, subtotal |-> EffectiveSpend(item), items |-> << >>, tags |-> item.tags]>>
            /\ b.method = item.method
            /\ IsBasket(b)
            /\ Merchandise(b) = EffectiveSpend(item)
            /\ \A id : ShopOf(b, id) = IF s[1] = id[1] THEN 1 ELSE 0
            /\ \A tag : CategorySubtotal(b, tag) = IF ContainsIgnoreCase(item.tags, tag) THEN EffectiveSpend(item) ELSE 0
<1> DEFINE b == AsBasket(item)
           spend == EffectiveSpend(item)
           line == [id |-> s, subtotal |-> spend, items |-> << >>, tags |-> item.tags]
<1>1. (CHOOSE x \in item.shops : TRUE) = s
  BY DEF OneItem
<1>2. b.shops = <<line>> /\ b.method = item.method /\ b.shipping = None
  BY <1>1 DEF AsBasket
<1> HIDE DEF b
<1>3. DOMAIN b.shops = {1} /\ b.shops[1] = line /\ Range(b.shops) = {line}
  BY <1>2 DEF Range
<1>4. line.subtotal = spend /\ line.id = s /\ line.tags = item.tags
  OBVIOUS
<1> HIDE DEF line
<1>5. spend \in Int
  BY DEF OneItem
<1>6. IsBasket(b)
  BY <1>2, <1>3, <1>4, <1>5 DEF IsBasket
<1>7. Subtotals(b, {}) = 0 /\ Subtotals(b, {1}) = spend
  <2> DEFINE f == [j \in DOMAIN b.shops |-> b.shops[j].subtotal]
  <2>1. {} \in SUBSET DOMAIN b.shops /\ {1} \in SUBSET DOMAIN b.shops
    BY <1>3
  <2>2. Subtotals(b, {}) = SumFunctionOnSet(f, {}) /\ Subtotals(b, {1}) = SumFunctionOnSet(f, {1})
    BY <1>6, <2>1, SubtotalsAdd
  <2>3. f[1] = spend /\ f[1] \in Int
    BY <1>3, <1>4, <1>5
  <2> HIDE DEF f, spend
  <2>4. SumFunctionOnSet(f, {}) = 0
    BY FS_EmptySet, SumUnfolds
  <2>5. SumFunctionOnSet(f, {1}) = f[1]
    BY <2>3, SumOfOne
  <2> QED  BY <2>2, <2>3, <2>4, <2>5
<1>8. Merchandise(b) = spend
  BY <1>3, <1>7 DEF Merchandise
<1>9. ASSUME NEW id PROVE ShopOf(b, id) = IF s[1] = id[1] THEN 1 ELSE 0
  <2>1. {i \in DOMAIN b.shops : b.shops[i].id[1] = id[1]} = IF s[1] = id[1] THEN {1} ELSE {}
    BY <1>3, <1>4
  <2> QED  BY <1>6, <2>1, ShopIsFound
<1>10. ASSUME NEW tag PROVE CategorySubtotal(b, tag) = IF ContainsIgnoreCase(item.tags, tag) THEN spend ELSE 0
  <2>1. {i \in DOMAIN b.shops : ContainsIgnoreCase(b.shops[i].tags, tag)} =
          IF ContainsIgnoreCase(item.tags, tag) THEN {1} ELSE {}
    BY <1>3, <1>4
  <2> QED  BY <1>7, <2>1 DEF CategorySubtotal
<1> QED  BY <1>2, <1>6, <1>8, <1>9, <1>10 DEF b, line

RelevanceAsked ==
  question.about = "relevance" =>
    \E v \in PlanVouchers, item \in WatchItems :
      question = [about |-> "relevance", v |-> v, item |-> item]

LEMMA RelevanceIsAskedOf ==
  ASSUME RelevanceAsked, AboutRelevance
  PROVE  question.v \in PlanVouchers /\ question.item \in WatchItems
<1>1. PICK v \in PlanVouchers, item \in WatchItems :
        question = [about |-> "relevance", v |-> v, item |-> item]
  BY Zenon DEF RelevanceAsked, AboutRelevance
<1>2. question.v = v /\ question.item = item
  BY <1>1
<1> QED  BY <1>2

LEMMA PlannedIsOneItem ==
  ASSUME NEW item \in WatchItems, Planned(item)
  PROVE  \E s : OneItem(item, s)
<1>1. IsFiniteSet(item.shops) /\ item.target \in Int \union {None} /\ item.planned \in Int \union {None}
  BY AdviceAssumption
<1>2. \E s : item.shops = {s}
  BY <1>1, FS_Singleton DEF Planned
<1>3. EffectiveSpend(item) \in Int
  BY <1>1 DEF Planned, EffectiveSpend, Stated
<1> QED  BY <1>2, <1>3 DEF OneItem, Planned

\* The three checks of a planned item, and what the planner finds of its basket.
LEMMA ScopeIsCheckedAlike ==
  ASSUME NEW v, NEW item, NEW s, OneItem(item, s)
  PROVE  LET b == AsBasket(item)
             spend == EffectiveSpend(item)
         IN /\ v.scope.kind = "Shop" => (CheckScope(v, item) = "Conflicts" <=> ShopOf(b, v.scope.of) = 0)
            /\ v.scope.kind = "Category" => (CheckScope(v, item) = "Conflicts" <=> Qualifying(v, b) = 0)
            /\ v.scope.kind \notin {"Shop", "Category"} => CheckScope(v, item) # "Conflicts"
            /\ CheckScope(v, item) # "Conflicts" => Qualifying(v, b) = spend
<1> DEFINE b == AsBasket(item)
           spend == EffectiveSpend(item)
           of == v.scope.of
<1>1. /\ b.shops = <<[id |-> s, subtotal |-> spend, items |-> << >>, tags |-> item.tags]>>
      /\ Merchandise(b) = spend
      /\ \A id : ShopOf(b, id) = IF s[1] = id[1] THEN 1 ELSE 0
      /\ \A tag : CategorySubtotal(b, tag) = IF ContainsIgnoreCase(item.tags, tag) THEN spend ELSE 0
  BY ItemIsBasket
<1>2. spend \in Int /\ spend > 0 /\ item.shops = {s} /\ item.tags # {}
  BY DEF OneItem
<1>3. b.shops[1].subtotal = spend
  BY <1>1
<1> HIDE DEF b, spend
<1>4. CASE v.scope.kind = "Shop"
  <2>1. CheckScope(v, item) = IF s[1] = of[1] THEN "Matches" ELSE "Conflicts"
    BY <1>2, <1>4 DEF CheckScope, ContainsIgnoreCase
  <2>2. Qualifying(v, b) = IF s[1] = of[1] THEN spend ELSE 0
    BY <1>1, <1>3, <1>4 DEF Qualifying
  <2>3. ShopOf(b, of) = IF s[1] = of[1] THEN 1 ELSE 0
    BY <1>1
  <2> QED  BY <1>4, <2>1, <2>2, <2>3 DEF b, spend
<1>5. CASE v.scope.kind = "Category"
  <2>1. CheckScope(v, item) = IF ContainsIgnoreCase(item.tags, of) THEN "Matches" ELSE "Conflicts"
    BY <1>2, <1>5 DEF CheckScope
  <2>2. Qualifying(v, b) = IF ContainsIgnoreCase(item.tags, of) THEN spend ELSE 0
    BY <1>1, <1>5 DEF Qualifying
  <2> QED  BY <1>2, <1>5, <2>1, <2>2 DEF b, spend
<1>6. CASE v.scope.kind \notin {"Shop", "Category"}
  <2>1. CheckScope(v, item) \in {"Matches", "Unknown"}
    BY <1>6 DEF CheckScope
  <2>2. Qualifying(v, b) = spend
    BY <1>1, <1>6 DEF Qualifying
  <2> QED  BY <1>6, <2>1, <2>2 DEF b, spend
<1> QED  BY <1>4, <1>5, <1>6

LEMMA PaymentIsChecked ==
  ASSUME NEW v, NEW item
  PROVE  LET method == PaymentMethod(v)
         IN /\ CheckPayment(v, item) = "Conflicts" <=> Stated(method) /\ MatchesMethod(item.method, method) = FALSE
            /\ CheckPayment(v, item) \notin {"Unknown", "Conflicts"} /\ Stated(method) => CheckPayment(v, item) = "Matches"
<1> DEFINE method == PaymentMethod(v)
<1>1. MatchesMethod(item.method, method) \in {TRUE, FALSE, None}
  BY DEF MatchesMethod
<1>2. None # TRUE /\ None # FALSE
  BY AdviceAssumption
<1>3. ~Stated(method) => CheckPayment(v, item) = "NotConstrained"
  BY DEF CheckPayment
<1>4. Stated(method) =>
        CheckPayment(v, item) =
          CASE MatchesMethod(item.method, method) = TRUE  -> "Matches"
            [] MatchesMethod(item.method, method) = FALSE -> "Conflicts"
            [] MatchesMethod(item.method, method) = None  -> "Unknown"
  BY DEF CheckPayment
<1> DEFINE m == MatchesMethod(item.method, method)
<1> HIDE DEF m, method
<1> QED  BY <1>1, <1>2, <1>3, <1>4 DEF m, method

LEMMA AdvisersAgreeAlways ==
  ASSUME RelevanceAsked
  PROVE  AdvisersAgree
<1> SUFFICES ASSUME AboutRelevance, Planned(question.item),
                    NotApplicable(question.v, AsBasket(question.item)) # "TerminalStatus"
             PROVE  /\ (\E i \in 1..3 : Checks(question.v, question.item)[i] = "Conflicts")
                         <=> NotApplicable(question.v, AsBasket(question.item)) # None
                    /\ Stated(Saving(question.v, question.item)) =>
                         Saving(question.v, question.item) =
                           Estimate(question.v, Base(question.v, AsBasket(question.item)))
  BY DEF AdvisersAgree
<1>1. PICK v, item, b : v = question.v /\ item = question.item /\ b = AsBasket(item)
  OBVIOUS
<1>2. PICK s : OneItem(item, s)
  BY <1>1, RelevanceIsAskedOf, PlannedIsOneItem
<1> DEFINE spend == EffectiveSpend(item)
           least == NonNegative(v.min)
           method == PaymentMethod(v)
           kind == v.scope.kind
           scope == CheckScope(v, item)
           payment == CheckPayment(v, item)
           minimum == CheckMinSpend(v, item)
           reason == NotApplicable(v, b)
           whole == Qualifying(v, b)
           shop == ShopOf(b, v.scope.of)
           wrong == Stated(method) /\ MatchesMethod(item.method, method) = FALSE
<1>3. /\ kind = "Shop" => (scope = "Conflicts" <=> shop = 0)
      /\ kind = "Category" => (scope = "Conflicts" <=> whole = 0)
      /\ kind \notin {"Shop", "Category"} => scope # "Conflicts"
      /\ scope # "Conflicts" => whole = spend
  BY <1>1, <1>2, ScopeIsCheckedAlike
<1>4. payment = "Conflicts" <=> wrong
  BY PaymentIsChecked
<1>5. Stated(spend)
  BY <1>2, NumbersAreStated DEF OneItem
<1>6. minimum = "Conflicts" <=> Stated(least) /\ ~(spend >= least)
  BY <1>5 DEF CheckMinSpend
<1>7. (spend >= least <=> ~(spend < least)) \/ ~Stated(least)
  <2>1. spend \in Int
    BY <1>2 DEF OneItem
  <2>2. Stated(least) => least \in Int
    <3>1. v.min \in Nat \union {None}
      BY <1>1, RelevanceIsAskedOf, ScoredAreVouchers DEF IsVoucher
    <3>2. least = v.min /\ (Stated(v.min) <=> v.min \in Nat)
      BY <3>1, MoneyIsCounted
    <3> HIDE DEF least
    <3> QED  BY <3>2
  <2> HIDE DEF spend, least
  <2> QED  BY <2>1, <2>2
<1>8. b.method = item.method
  BY <1>1, <1>2, ItemIsBasket
<1>9. /\ reason # "TerminalStatus"
      /\ reason = CASE v.status \in {"Expired", "Exhausted", "Ineligible"} -> "TerminalStatus"
                    [] wrong -> "PaymentMethodMismatch"
                    [] kind = "Shop" /\ shop = 0 -> "ShopNotInBasket"
                    [] kind = "Category" /\ whole = 0 -> "CategoryNotInBasket"
                    [] Stated(least) /\ whole < least -> "MinSpendNotMet"
                    [] OTHER -> None
  BY <1>1, <1>8 DEF NotApplicable
<1> HIDE DEF spend, least, method, kind, scope, payment, minimum, reason, whole, shop, wrong
<1>10. reason # None <=>
         wrong \/ (kind = "Shop" /\ shop = 0) \/ (kind = "Category" /\ whole = 0) \/ (Stated(least) /\ whole < least)
  BY <1>9, AdviceAssumption
<1>11. reason # None <=> scope = "Conflicts" \/ payment = "Conflicts" \/ minimum = "Conflicts"
  <2>1. CASE scope = "Conflicts"
    BY <1>3, <1>10, <2>1
  <2>2. CASE scope # "Conflicts"
    BY <1>3, <1>4, <1>6, <1>7, <1>10, <2>2
  <2> QED  BY <2>1, <2>2
<1>12. /\ Checks(v, item)[1] = scope /\ Checks(v, item)[2] = payment /\ Checks(v, item)[3] = minimum
       /\ scope \in ToSet(Checks(v, item))
  BY DEF Checks, scope, payment, minimum, ToSet
<1>13. (\E i \in 1..3 : Checks(v, item)[i] = "Conflicts") <=> reason # None
  <2>1. \A i : i \in 1..3 <=> i \in {1, 2, 3}
    OBVIOUS
  <2> QED  BY <1>11, <1>12, <2>1
<1>14. Stated(Saving(v, item)) => Saving(v, item) = Estimate(v, Base(v, b))
  <2> SUFFICES ASSUME Stated(Saving(v, item)) PROVE Saving(v, item) = Estimate(v, Base(v, b))
    OBVIOUS
  <2>1. IsActionable(Level(v, item)) /\ ~TargetsShipping(v) /\ Saving(v, item) = Estimate(v, spend)
    BY DEF Saving, Stated, spend
  <2>2. scope # "Conflicts"
    BY <1>12, <2>1 DEF IsActionable, Level
  <2>3. Base(v, b) = spend
    BY <1>3, <2>1, <2>2 DEF Base, whole
  <2> QED  BY <2>1, <2>3
<1> QED  BY <1>1, <1>13, <1>14 DEF reason

LEMMA LikelyChecked ==
  LikelyIsChecked
<1> SUFFICES ASSUME AboutRelevance, Level(question.v, question.item) = "Likely",
                    NEW gap \in {"PaymentMethodUnverified", "PlannedSpendUnknown", "ScopeUnknown"},
                    gap \in RelevanceGaps(question.v, question.item)
             PROVE  FALSE
  BY DEF LikelyIsChecked
<1>1. PICK v, item : v = question.v /\ item = question.item
  OBVIOUS
<1>2. Level(v, item) = "Likely" /\ gap \in RelevanceGaps(v, item)
  BY <1>1
<1>3. "Conflicts" \notin ToSet(Checks(v, item)) /\ "Unknown" \notin ToSet(Checks(v, item))
  BY <1>2 DEF Level
<1>4. {CheckScope(v, item), CheckPayment(v, item), CheckMinSpend(v, item)} \subseteq ToSet(Checks(v, item))
  <2>1. /\ Checks(v, item)[1] = CheckScope(v, item) /\ Checks(v, item)[2] = CheckPayment(v, item)
        /\ Checks(v, item)[3] = CheckMinSpend(v, item) /\ {1, 2, 3} \subseteq DOMAIN Checks(v, item)
    BY DEF Checks
  <2> QED  BY <2>1 DEF ToSet
<1>5. gap # "ScopeUnknown" \/ gap \notin Unknowns(v)
  <2>1. "ScopeUnknown" \in Unknowns(v) => v.scope.kind = "Unstated"
    BY DEF Unknowns
  <2>2. v.scope.kind = "Unstated" => CheckScope(v, item) = "Unknown"
    BY DEF CheckScope
  <2> QED  BY <1>3, <1>4, <2>1, <2>2
<1>6. gap # "PaymentMethodUnverified" \/ gap \notin Unknowns(v) \/ CheckPayment(v, item) = "Matches"
  <2>1. "PaymentMethodUnverified" \in Unknowns(v) => Stated(PaymentMethod(v))
    BY DEF Unknowns
  <2> QED  BY <1>3, <1>4, <2>1, PaymentIsChecked
<1>7. gap # "PlannedSpendUnknown" \/ gap \notin Unknowns(v)
  BY DEF Unknowns
<1>8. gap \notin EstimateGaps(v, EffectiveSpend(item))
  BY DEF EstimateGaps
<1>9. \/ gap \in Unknowns(v) /\ (gap = "PaymentMethodUnverified" => CheckPayment(v, item) # "Matches")
      \/ gap = "PlannedSpendUnknown" /\ CheckMinSpend(v, item) = "Unknown"
      \/ gap \in EstimateGaps(v, EffectiveSpend(item))
  BY <1>2 DEF RelevanceGaps
<1> QED  BY <1>3, <1>4, <1>5, <1>6, <1>7, <1>8, <1>9

-----------------------------------------------------------------------------
(* The same candidates in another order                                     *)

\* The candidates of ds are those of cs, every i moved to q[i], and no two of
\* them have the same label.
Matched(cs, ds, q) ==
  /\ AreCandidates(cs) /\ AreCandidates(ds)
  /\ q \in [DOMAIN cs -> DOMAIN ds]
  /\ \A i, j \in DOMAIN cs : q[i] = q[j] => i = j
  /\ \A k \in DOMAIN ds : \E i \in DOMAIN cs : q[i] = k
  /\ \A i \in DOMAIN cs : ds[q[i]] = cs[i]
  /\ \A i, j \in DOMAIN cs : cs[i].label = cs[j].label => i = j

Moved(q, c) == {q[i] : i \in c}

LEMMA MovedAre ==
  ASSUME NEW cs, NEW ds, NEW q, Matched(cs, ds, q), NEW c \in SUBSET DOMAIN cs
  PROVE  /\ Moved(q, c) \in SUBSET DOMAIN ds
         /\ \A i \in DOMAIN cs : q[i] \in Moved(q, c) <=> i \in c
         /\ IsFiniteSet(c) /\ Cardinality(Moved(q, c)) = Cardinality(c)
<1> DEFINE f == [i \in c |-> q[i]]
<1>1. Moved(q, c) \in SUBSET DOMAIN ds
  BY DEF Moved, Matched
<1>2. \A i \in DOMAIN cs : q[i] \in Moved(q, c) <=> i \in c
  BY DEF Moved, Matched
<1>3. IsFiniteSet(c)
  BY LabelsAreNumbers DEF Matched
<1>4. f \in Bijection(c, Moved(q, c))
  <2>1. f \in [c -> Moved(q, c)]
    BY DEF Moved
  <2>2. \A i, j \in c : f[i] = f[j] => i = j
    BY DEF Matched
  <2>3. \A k \in Moved(q, c) : \E i \in c : f[i] = k
    BY DEF Moved
  <2> HIDE DEF f
  <2> QED  BY <2>1, <2>2, <2>3 DEF Bijection, Injection, IsInjective, Surjection
<1>5. ExistsBijection(c, Moved(q, c))
  BY <1>4 DEF ExistsBijection
<1>6. Cardinality(Moved(q, c)) = Cardinality(c)
  BY <1>3, <1>5, FS_Bijection
<1> QED  BY <1>1, <1>2, <1>3, <1>6

LEMMA MovedIsOf ==
  ASSUME NEW cs, NEW ds, NEW q, Matched(cs, ds, q), NEW e \in SUBSET DOMAIN ds
  PROVE  \E c \in SUBSET DOMAIN cs : Moved(q, c) = e
<1> DEFINE c == {i \in DOMAIN cs : q[i] \in e}
<1>1. Moved(q, c) = e
  BY DEF Moved, Matched
<1> QED  BY <1>1

\* Every comparison of the moved is the comparison of what was moved.
LEMMA MovedBefore ==
  ASSUME NEW cs, NEW ds, NEW q, Matched(cs, ds, q), NEW i \in DOMAIN cs, NEW j \in DOMAIN cs
  PROVE  Before(ds, q[i], q[j]) <=> Before(cs, i, j)
<1>1. ds[q[i]] = cs[i] /\ ds[q[j]] = cs[j] /\ q[i] \in DOMAIN ds /\ q[j] \in DOMAIN ds
  BY DEF Matched
<1>2. CASE i = j
  <2>1. ~Before(cs, i, i) /\ ~Before(ds, q[i], q[i])
    BY <1>1, CandidatesAreOrdered DEF Matched
  <2> QED  BY <1>2, <2>1
<1>3. CASE i # j
  <2>1. cs[i].label # cs[j].label
    BY <1>3 DEF Matched
  <2> QED  BY <1>1, <2>1 DEF Before
<1> QED  BY <1>2, <1>3

LEMMA MovedEstimate ==
  ASSUME NEW cs, NEW ds, NEW q, Matched(cs, ds, q), NEW c \in SUBSET DOMAIN cs
  PROVE  Estimated(ds, Moved(q, c)) = Estimated(cs, c)
<1> DEFINE f == [i \in DOMAIN cs |-> cs[i].estimate]
           g == [k \in DOMAIN ds |-> ds[k].estimate]
           P == {T \in SUBSET c : SumFunctionOnSet(g, Moved(q, T)) = SumFunctionOnSet(f, T)}
<1>1. Estimated(cs, c) = SumFunctionOnSet(f, c)
  BY EstimatesAreNumbers DEF Matched
<1>2. Estimated(ds, Moved(q, c)) = SumFunctionOnSet(g, Moved(q, c))
  BY MovedAre, EstimatesAreNumbers DEF Matched
<1>3. IsFiniteSet(DOMAIN cs) /\ IsFiniteSet(DOMAIN ds) /\ IsFiniteSet(c)
  BY MovedAre DEF Matched, AreCandidates
<1>4. /\ \A i \in DOMAIN cs : f[i] \in Int /\ q[i] \in DOMAIN ds /\ g[q[i]] = f[i]
      /\ \A k \in DOMAIN ds : g[k] \in Int
  BY DEF Matched, AreCandidates
<1> HIDE DEF f, g
<1>5. {} \in P /\ P \in SUBSET SUBSET c
  <2>1. SumFunctionOnSet(f, {}) = 0 /\ SumFunctionOnSet(g, {}) = 0 /\ Moved(q, {}) = {}
    BY FS_EmptySet, SumUnfolds DEF Moved
  <2> QED  BY <2>1
<1>6. ASSUME NEW T \in P, NEW x \in c \ T PROVE T \union {x} \in P
  <2>1. T \in SUBSET DOMAIN cs /\ x \in DOMAIN cs \ T
    OBVIOUS
  <2>2. SumFunctionOnSet(f, T \union {x}) = f[x] + SumFunctionOnSet(f, T)
    BY <1>3, <1>4, <2>1, SumGrows
  <2>3. Moved(q, T \union {x}) = Moved(q, T) \union {q[x]}
    BY DEF Moved
  <2>4. Moved(q, T) \in SUBSET DOMAIN ds /\ q[x] \in DOMAIN ds \ Moved(q, T)
    BY <1>4, <2>1, MovedAre
  <2>5. SumFunctionOnSet(g, Moved(q, T) \union {q[x]}) = g[q[x]] + SumFunctionOnSet(g, Moved(q, T))
    <3> DEFINE U == Moved(q, T)
               y == q[x]
    <3>1. U \in SUBSET DOMAIN ds /\ y \in DOMAIN ds \ U
      BY <2>4
    <3> HIDE DEF U, y
    <3>2. SumFunctionOnSet(g, U \union {y}) = g[y] + SumFunctionOnSet(g, U)
      BY <1>3, <1>4, <3>1, SumGrows
    <3> QED  BY <3>2 DEF U, y
  <2>6. g[q[x]] = f[x] /\ SumFunctionOnSet(g, Moved(q, T)) = SumFunctionOnSet(f, T)
    BY <1>4, <2>1
  <2> QED  BY <2>2, <2>3, <2>5, <2>6
<1> HIDE DEF P
<1>7. c \in P
  BY <1>3, <1>5, <1>6, GrowsToTheWhole
<1> QED  BY <1>1, <1>2, <1>7 DEF P

LEMMA MovedTotal ==
  ASSUME NEW cs, NEW ds, NEW q, Matched(cs, ds, q), NEW c \in SUBSET DOMAIN cs, NEW b
  PROVE  ComboTotal(ds, b, Moved(q, c)) = ComboTotal(cs, b, c)
<1> DEFINE s == {i \in c : cs[i].shipping}
           t == {k \in Moved(q, c) : ds[k].shipping}
<1>1. t = Moved(q, s) /\ Moved(q, c) \ t = Moved(q, c \ s)
  <2>1. \A i \in c : ds[q[i]] = cs[i]
    BY DEF Matched
  <2>2. t = Moved(q, s)
    BY <2>1 DEF Moved
  <2>3. Moved(q, c) \ t = Moved(q, c \ s)
    BY <2>1 DEF Moved
  <2> QED  BY <2>2, <2>3
<1>2. s \in SUBSET DOMAIN cs /\ c \ s \in SUBSET DOMAIN cs
  OBVIOUS
<1>3. ComboTotal(ds, b, Moved(q, c)) = Min2(Estimated(ds, Moved(q, c) \ t), Merchandise(b)) + Min2(Estimated(ds, t), Shipping(b))
  BY DEF ComboTotal
<1>4. ComboTotal(cs, b, c) = Min2(Estimated(cs, c \ s), Merchandise(b)) + Min2(Estimated(cs, s), Shipping(b))
  BY DEF ComboTotal
<1> HIDE DEF s, t
<1>5. Estimated(ds, Moved(q, s)) = Estimated(cs, s) /\ Estimated(ds, Moved(q, c \ s)) = Estimated(cs, c \ s)
  BY <1>2, MovedEstimate
<1> QED  BY <1>1, <1>3, <1>4, <1>5

\* How many of a combination come before a candidate, and how many share its slot.
Place(cs, c, i) == Cardinality({j \in c : Before(cs, j, i)})
GroupMates(cs, c, i) == Cardinality({j \in c : cs[j].group = cs[i].group})

\* Whoever comes before a candidate is moved with it.
LEMMA MovedPlaces ==
  ASSUME NEW cs, NEW ds, NEW q, Matched(cs, ds, q), NEW c \in SUBSET DOMAIN cs, NEW i \in c
  PROVE  Place(ds, Moved(q, c), q[i]) = Place(cs, c, i) /\ GroupMates(ds, Moved(q, c), q[i]) = GroupMates(cs, c, i)
<1> DEFINE A == {j \in c : Before(cs, j, i)}
           B == {j \in c : cs[j].group = cs[i].group}
<1>1. \A j \in c : Before(ds, q[j], q[i]) <=> Before(cs, j, i)
  BY MovedBefore
<1>2. {k \in Moved(q, c) : Before(ds, k, q[i])} = Moved(q, A)
  BY <1>1 DEF Moved
<1>3. \A j \in c : ds[q[j]] = cs[j]
  BY DEF Matched
<1>4. {k \in Moved(q, c) : ds[k].group = ds[q[i]].group} = Moved(q, B)
  BY <1>3 DEF Moved
<1>5. A \in SUBSET DOMAIN cs /\ B \in SUBSET DOMAIN cs
  OBVIOUS
<1> HIDE DEF A, B
<1>6. Cardinality(Moved(q, A)) = Cardinality(A) /\ Cardinality(Moved(q, B)) = Cardinality(B)
  BY <1>5, MovedAre
<1> QED  BY <1>2, <1>4, <1>6 DEF A, B, Place, GroupMates

\* The candidate at a place.
NthOf(cs, c, k) == CHOOSE i \in c : Place(cs, c, i) = k - 1

LEMMA OneIsAt ==
  ASSUME NEW cs, AreCandidates(cs), NEW c \in SUBSET DOMAIN cs, NEW k \in 1..Cardinality(c)
  PROVE  /\ NthOf(cs, c, k) \in c
         /\ Place(cs, c, NthOf(cs, c, k)) = k - 1
         /\ \A i \in c : Place(cs, c, i) = k - 1 => i = NthOf(cs, c, k)
<1> DEFINE R == BeforePairs(cs)
           On(i) == Place(cs, c, i)
<1>1. IsFiniteSet(c) /\ Orders2(R, c)
  BY LabelsAreNumbers, PairsOrderCandidates
<1>2. \A i \in c : {j \in c : Before(cs, j, i)} = Below(R, c, i)
  <2>1. \A i, j \in c : <<j, i>> \in R <=> Before(cs, j, i)
    BY PairsAreBefore
  <2> QED  BY <2>1 DEF Below
<1> HIDE DEF R
<1>3. /\ \A i \in c : On(i) \in 0..(Cardinality(c) - 1)
      /\ \A i, j \in c : <<i, j>> \in R => On(i) < On(j)
      /\ \E i \in c : On(i) = k - 1
  <2>1. /\ \A i \in c : Cardinality(Below(R, c, i)) \in 0..(Cardinality(c) - 1)
        /\ \A i, j \in c : <<i, j>> \in R => Cardinality(Below(R, c, i)) < Cardinality(Below(R, c, j))
        /\ \E i \in c : Cardinality(Below(R, c, i)) = k - 1
    BY <1>1, PlacesAreTaken
  <2> QED  BY <1>2, <2>1 DEF Place
<1>4. NthOf(cs, c, k) = CHOOSE i \in c : On(i) = k - 1
  BY DEF NthOf
<1> HIDE DEF On
<1>5. NthOf(cs, c, k) \in c /\ On(NthOf(cs, c, k)) = k - 1
  BY <1>3, <1>4
<1>6. ASSUME NEW i \in c, NEW j \in c, On(i) = On(j) PROVE i = j
  <2>1. On(i) \in Int /\ On(j) \in Int
    BY <1>3
  <2>2. ~(On(i) < On(j)) /\ ~(On(j) < On(i))
    BY <1>6, <2>1
  <2>3. <<i, j>> \notin R /\ <<j, i>> \notin R
    BY <1>3, <2>2
  <2> QED  BY <1>1, <2>3 DEF Orders2
<1>7. \A i \in c : On(i) = k - 1 => i = NthOf(cs, c, k)
  BY <1>5, <1>6
<1> QED  BY <1>5, <1>7 DEF On

LEMMA MovedLabels ==
  ASSUME NEW cs, NEW ds, NEW q, Matched(cs, ds, q), NEW c \in SUBSET DOMAIN cs
  PROVE  Labels(ds, Moved(q, c)) = Labels(cs, c)
<1> DEFINE n == Cardinality(c)
           e == Moved(q, c)
<1>1. Cardinality(e) = n /\ e \in SUBSET DOMAIN ds
  BY MovedAre
<1>2. AreCandidates(cs) /\ AreCandidates(ds)
  BY DEF Matched
<1>3. ASSUME NEW k \in 1..n PROVE ds[NthOf(ds, e, k)].label = cs[NthOf(cs, c, k)].label
  <2> DEFINE i == NthOf(cs, c, k)
  <2>1. i \in c /\ Place(cs, c, i) = k - 1
    BY <1>2, OneIsAt
  <2> HIDE DEF i
  <2>2. Place(ds, e, q[i]) = k - 1 /\ q[i] \in e
    <3>1. Place(ds, e, q[i]) = Place(cs, c, i)
      BY <2>1, MovedPlaces
    <3> QED  BY <2>1, <3>1 DEF Moved
  <2>3. q[i] = NthOf(ds, e, k)
    <3>1. k \in 1..Cardinality(e)
      BY <1>1
    <3> HIDE DEF e
    <3> QED  BY <1>1, <1>2, <2>2, <3>1, OneIsAt
  <2>4. ds[q[i]] = cs[i]
    BY <2>1 DEF Matched
  <2> QED  BY <2>3, <2>4 DEF i
<1>4. Labels(cs, c) = [k \in 1..n |-> cs[NthOf(cs, c, k)].label]
  BY DEF Labels, NthOf, Place
<1>5. Labels(ds, e) = [k \in 1..Cardinality(e) |-> ds[NthOf(ds, e, k)].label]
  BY DEF Labels, NthOf, Place
<1> HIDE DEF n, e
<1>6. [k \in 1..n |-> ds[NthOf(ds, e, k)].label] = [k \in 1..n |-> cs[NthOf(cs, c, k)].label]
  BY <1>3
<1> QED  BY <1>1, <1>4, <1>5, <1>6 DEF e

LEMMA MovedRanks ==
  ASSUME NEW cs, NEW ds, NEW q, Matched(cs, ds, q), NEW c \in SUBSET DOMAIN cs, NEW d \in SUBSET DOMAIN cs, NEW b
  PROVE  RanksFirst(ds, b, Moved(q, c), Moved(q, d)) <=> RanksFirst(cs, b, c, d)
<1> DEFINE e == Moved(q, c)
           f == Moved(q, d)
<1>1. Cardinality(e) = Cardinality(c) /\ Cardinality(f) = Cardinality(d)
  BY MovedAre
<1>2. ComboTotal(ds, b, e) = ComboTotal(cs, b, c) /\ ComboTotal(ds, b, f) = ComboTotal(cs, b, d)
  BY MovedTotal
<1>3. Labels(ds, e) = Labels(cs, c) /\ Labels(ds, f) = Labels(cs, d)
  BY MovedLabels
<1>4. MaskFirst(ds, e, f) <=> MaskFirst(cs, c, d)
  <2>1. c \ d \in SUBSET DOMAIN cs /\ d \ c \in SUBSET DOMAIN cs
    OBVIOUS
  <2>2. e \ f = Moved(q, c \ d) /\ f \ e = Moved(q, d \ c)
    BY MovedAre DEF Moved
  <2>3. MaskFirst(ds, e, f) <=> \E k \in Moved(q, d \ c) : \A l \in Moved(q, c \ d) : Before(ds, l, k)
    BY <2>2 DEF MaskFirst
  <2>4. (\E k \in Moved(q, d \ c) : \A l \in Moved(q, c \ d) : Before(ds, l, k))
          <=> \E j \in d \ c : \A i \in c \ d : Before(ds, q[i], q[j])
    BY DEF Moved
  <2>5. \A i, j \in DOMAIN cs : Before(ds, q[i], q[j]) <=> Before(cs, i, j)
    BY MovedBefore
  <2>6. (\E j \in d \ c : \A i \in c \ d : Before(ds, q[i], q[j])) <=> MaskFirst(cs, c, d)
    BY <2>1, <2>5 DEF MaskFirst
  <2> QED  BY <2>3, <2>4, <2>6
<1>5. \A xs, s, t : EnumeratedFirst(xs, s, t) <=>
        LabelsFirst(Labels(xs, s), Labels(xs, t)) \/ (Labels(xs, s) = Labels(xs, t) /\ MaskFirst(xs, s, t))
  BY DEF EnumeratedFirst, LabelsFirst, MaskFirst
<1> HIDE DEF e, f
<1>6. EnumeratedFirst(ds, e, f) <=> EnumeratedFirst(cs, c, d)
  BY <1>3, <1>4, <1>5
<1>7. RanksFirst(ds, b, e, f) <=> RanksFirst(cs, b, c, d)
  BY <1>1, <1>2, <1>6 DEF RanksFirst
<1> QED  BY <1>7 DEF e, f

LEMMA MovedCombinations ==
  ASSUME NEW cs, NEW ds, NEW q, Matched(cs, ds, q), NEW p
  PROVE  \A c \in SUBSET DOMAIN cs : Moved(q, c) \in Combinations(ds, p) <=> c \in Combinations(cs, p)
<1>1. ASSUME NEW i \in DOMAIN cs PROVE q[i] \in Searched(ds, p) <=> i \in Searched(cs, p)
  <2>1. Moved(q, DOMAIN cs) = DOMAIN ds
    <3>1. \A k \in DOMAIN ds : k \in Moved(q, DOMAIN cs)
      BY DEF Moved, Matched
    <3>2. \A j \in DOMAIN cs : q[j] \in DOMAIN ds
      BY DEF Matched
    <3> QED  BY <3>1, <3>2 DEF Moved
  <2>2. Place(ds, DOMAIN ds, q[i]) = Place(cs, DOMAIN cs, i)
    <3>1. DOMAIN cs \in SUBSET DOMAIN cs
      OBVIOUS
    <3>2. Place(ds, Moved(q, DOMAIN cs), q[i]) = Place(cs, DOMAIN cs, i)
      BY <3>1, MovedPlaces
    <3> QED  BY <2>1, <3>2
  <2>3. q[i] \in DOMAIN ds
    BY DEF Matched
  <2> QED  BY <2>2, <2>3 DEF Searched, Place
<1> SUFFICES ASSUME NEW c \in SUBSET DOMAIN cs
             PROVE  Moved(q, c) \in Combinations(ds, p) <=> c \in Combinations(cs, p)
  OBVIOUS
<1>2. Moved(q, c) \in SUBSET Searched(ds, p) <=> c \in SUBSET Searched(cs, p)
  BY <1>1 DEF Moved
<1>3. Cardinality(Moved(q, c)) = Cardinality(c)
  BY MovedAre
<1> DEFINE Fits(xs, s, i) == GroupMates(xs, s, i) <= Slots(xs[i].group, p)
<1>4. \A i \in c : Fits(ds, Moved(q, c), q[i]) <=> Fits(cs, c, i)
  <2> SUFFICES ASSUME NEW i \in c PROVE Fits(ds, Moved(q, c), q[i]) <=> Fits(cs, c, i)
    OBVIOUS
  <2>1. ds[q[i]] = cs[i]
    BY DEF Matched
  <2>2. GroupMates(ds, Moved(q, c), q[i]) = GroupMates(cs, c, i)
    BY MovedPlaces
  <2> QED  BY <2>1, <2>2
<1>5. \A xs, s : PolicyAllows(xs, s, p) <=>
        (Stated(p.maxTotal) => Cardinality(s) <= p.maxTotal) /\ \A i \in s : Fits(xs, s, i)
  BY DEF PolicyAllows, GroupMates
<1> HIDE DEF Fits
<1>6. (\A k \in Moved(q, c) : Fits(ds, Moved(q, c), k)) <=> \A i \in c : Fits(cs, c, i)
  BY <1>4 DEF Moved
<1>7. PolicyAllows(ds, Moved(q, c), p) <=> PolicyAllows(cs, c, p)
  BY <1>3, <1>5, <1>6
<1> QED  BY <1>2, <1>7 DEF Combinations

\* The best combination is moved to the best combination.
LEMMA MovedBest ==
  ASSUME NEW cs, NEW ds, NEW q, Matched(cs, ds, q), NEW p, IsPolicy(p), NEW b, IsBasket(b)
  PROVE  /\ Best(ds, b, Combinations(ds, p)) = Moved(q, Best(cs, b, Combinations(cs, p)))
         /\ Best(cs, b, Combinations(cs, p)) \in SUBSET DOMAIN cs
<1> DEFINE C == Combinations(cs, p)
           D == Combinations(ds, p)
           best == Best(cs, b, C)
<1>1. AreCandidates(cs) /\ AreCandidates(ds)
  BY DEF Matched
<1>2. C \subseteq SUBSET DOMAIN cs /\ C # {} /\ D \subseteq SUBSET DOMAIN ds /\ D # {}
  BY <1>1, NothingIsAllowed
<1>3. \A c \in SUBSET DOMAIN cs : Moved(q, c) \in D <=> c \in C
  BY MovedCombinations
<1> HIDE DEF C, D
<1>4. best \in C /\ \A d \in C \ {best} : RanksFirst(cs, b, best, d)
  BY <1>1, <1>2, BestIsFirst
<1> HIDE DEF best
<1>5. Moved(q, best) \in D /\ best \in SUBSET DOMAIN cs
  BY <1>2, <1>3, <1>4
<1>6. ASSUME NEW e \in D \ {Moved(q, best)} PROVE RanksFirst(ds, b, Moved(q, best), e)
  <2>1. PICK d \in SUBSET DOMAIN cs : Moved(q, d) = e
    <3>1. e \in SUBSET DOMAIN ds
      BY <1>2
    <3> QED  BY <3>1, MovedIsOf
  <2>2. d \in C \ {best}
    BY <1>3, <2>1
  <2>3. RanksFirst(cs, b, best, d)
    BY <1>4, <2>2
  <2> QED  BY <1>5, <2>1, <2>3, MovedRanks
<1>7. Moved(q, best) = Best(ds, b, D)
  BY <1>1, <1>2, <1>5, <1>6, BestIsFirst
<1> QED  BY <1>5, <1>7 DEF C, D, best

\* An order of a set holds all of it.
LEMMA OrdersAreOfAll ==
  ASSUME NEW S, NEW vs, IsOrder(vs, S)
  PROVE  ToSet(vs) = S /\ \A v \in S : \E i \in DOMAIN vs : vs[i] = v
<1> DEFINE n == Cardinality(S)
<1>1. IsFiniteSet(S) /\ n \in Nat /\ vs \in [1..n -> S] /\ \A i, j \in 1..n : i # j => vs[i] # vs[j]
  BY FS_CardinalityType DEF IsOrder
<1>2. Cardinality(1..n) = n
  BY <1>1, FS_Interval
<1> HIDE DEF n
<1>3. vs \in Injection(1..n, S)
  BY <1>1 DEF Injection, IsInjective
<1>4. Cardinality(1..n) = Cardinality(S) <=> vs \in Surjection(1..n, S)
  BY <1>1, <1>3, FS_Injection
<1>5. vs \in Surjection(1..n, S)
  BY <1>2, <1>4 DEF n
<1>6. \A v \in S : \E i \in 1..n : vs[i] = v
  BY <1>5 DEF Surjection
<1>7. DOMAIN vs = 1..n /\ \A i \in 1..n : vs[i] \in S
  BY <1>1
<1> QED  BY <1>6, <1>7 DEF ToSet

\* Where the vouchers of one order are in another.
Places(vs, us, D) == [i \in D |-> CHOOSE k \in DOMAIN us : us[k] = vs[i]]

LEMMA OrdersAreMatched ==
  ASSUME NEW S, NEW vs, NEW us, IsOrder(vs, S), IsOrder(us, S), NEW b, IsBasket(b),
         \A i, j \in DOMAIN vs : vs[i].label = vs[j].label => i = j
  PROVE  LET q == Places(vs, us, DOMAIN Evaluate(vs, b))
         IN /\ Matched(Evaluate(vs, b), Evaluate(us, b), q)
            /\ \A i \in DOMAIN Evaluate(vs, b) : us[q[i]] = vs[i]
<1> DEFINE cs == Evaluate(vs, b)
           ds == Evaluate(us, b)
           q == Places(vs, us, DOMAIN cs)
<1>1. /\ DOMAIN cs = {i \in DOMAIN vs : NotApplicable(vs[i], b) = None}
      /\ DOMAIN ds = {i \in DOMAIN us : NotApplicable(us[i], b) = None}
      /\ AreCandidates(cs) /\ AreCandidates(ds)
  BY EvaluatedAre
<1>2. /\ \A i \in DOMAIN vs : vs[i] \in S
      /\ \A k \in DOMAIN us : us[k] \in S
      /\ \A k, l \in DOMAIN us : us[k] = us[l] => k = l
  BY DEF IsOrder
<1>3. /\ \A v \in S : \E i \in DOMAIN vs : vs[i] = v
      /\ \A v \in S : \E k \in DOMAIN us : us[k] = v
  BY OrdersAreOfAll
<1>4. \A i \in DOMAIN cs :
        cs[i] = [label    |-> vs[i].label,
                 group    |-> StackGroup(vs[i]),
                 estimate |-> Estimate(vs[i], Base(vs[i], b)),
                 shipping |-> TargetsShipping(vs[i]),
                 gaps     |-> CandidateGaps(vs[i], b)]
  BY <1>1 DEF Evaluate
<1>5. \A k \in DOMAIN ds :
        ds[k] = [label    |-> us[k].label,
                 group    |-> StackGroup(us[k]),
                 estimate |-> Estimate(us[k], Base(us[k], b)),
                 shipping |-> TargetsShipping(us[k]),
                 gaps     |-> CandidateGaps(us[k], b)]
  BY <1>1 DEF Evaluate
<1>6. q = [i \in DOMAIN cs |-> CHOOSE k \in DOMAIN us : us[k] = vs[i]]
  BY DEF Places
<1> HIDE DEF cs, ds, q
<1>7. ASSUME NEW i \in DOMAIN cs
      PROVE  us[q[i]] = vs[i] /\ q[i] \in DOMAIN ds
  <2>1. i \in DOMAIN vs /\ NotApplicable(vs[i], b) = None
    BY <1>1
  <2>2. \E k \in DOMAIN us : us[k] = vs[i]
    BY <1>2, <1>3, <2>1
  <2>3. q[i] \in DOMAIN us /\ us[q[i]] = vs[i]
    BY <1>6, <2>2
  <2> QED  BY <1>1, <2>1, <2>3
<1>8. q \in [DOMAIN cs -> DOMAIN ds]
  BY <1>6, <1>7
<1>9. \A i, j \in DOMAIN cs : cs[i].label = cs[j].label => i = j
  <2>1. \A i \in DOMAIN cs : cs[i].label = vs[i].label /\ i \in DOMAIN vs
    BY <1>1, <1>4
  <2> QED  BY <2>1
<1>10. \A i, j \in DOMAIN cs : q[i] = q[j] => i = j
  <2>1. \A i \in DOMAIN cs : i \in DOMAIN vs
    BY <1>1
  <2>2. \A i, j \in DOMAIN cs : q[i] = q[j] => vs[i] = vs[j]
    BY <1>7
  <2> QED  BY <2>1, <2>2
<1>11. ASSUME NEW k \in DOMAIN ds PROVE \E i \in DOMAIN cs : q[i] = k
  <2>1. k \in DOMAIN us /\ NotApplicable(us[k], b) = None
    BY <1>1
  <2>2. PICK i \in DOMAIN vs : vs[i] = us[k]
    BY <1>2, <1>3, <2>1
  <2>3. i \in DOMAIN cs
    BY <1>1, <2>1, <2>2
  <2>4. us[q[i]] = us[k] /\ q[i] \in DOMAIN us
    BY <1>1, <1>7, <2>2, <2>3
  <2>5. q[i] = k
    BY <1>2, <2>1, <2>4
  <2> QED  BY <2>3, <2>5
<1>12. \A i \in DOMAIN cs : ds[q[i]] = cs[i]
  <2> SUFFICES ASSUME NEW i \in DOMAIN cs PROVE ds[q[i]] = cs[i]
    OBVIOUS
  <2>1. PICK k \in DOMAIN ds : k = q[i] /\ us[k] = vs[i]
    BY <1>7
  <2> QED  BY <1>4, <1>5, <2>1
<1>13. Matched(cs, ds, q)
  BY <1>1, <1>8, <1>9, <1>10, <1>11, <1>12 DEF Matched
<1> QED  BY <1>7, <1>13 DEF cs, ds, q

LEMMA OrderNeverMatters ==
  ASSUME PlanAsked
  PROVE  SameForEveryOrder
<1> SUFFICES ASSUME AboutPlan,
                    \A i, j \in DOMAIN question.vs : question.vs[i].label = question.vs[j].label => i = j,
                    NEW us \in SetToSeqs(ToSet(question.vs))
             PROVE  {question.vs[i].label : i \in Answer.selected} =
                      {us[i].label : i \in Plan(us, question.basket, question.policy).selected}
  BY DEF SameForEveryOrder
<1>1. PICK vs, b, p : vs = question.vs /\ b = question.basket /\ p = question.policy
  OBVIOUS
<1>2. PICK S : IsOrder(vs, S)
  BY <1>1, PlanIsAskedOf
<1>3. IsBasket(b) /\ IsPolicy(p)
  BY <1>1, PlanIsAskedOf
<1>4. IsOrder(us, S)
  <2>1. us \in SetToSeqs(S)
    BY <1>1, <1>2, OrdersAreOfAll
  <2> QED  BY <1>2, <2>1 DEF SetToSeqs, IsOrder
<1>5. PICK cs, ds : cs = Evaluate(vs, b) /\ ds = Evaluate(us, b)
  OBVIOUS
<1>6. PICK q : q = Places(vs, us, DOMAIN cs)
  OBVIOUS
<1>7. Matched(cs, ds, q) /\ \A i \in DOMAIN cs : us[q[i]] = vs[i]
  <2>1. \A i, j \in DOMAIN vs : vs[i].label = vs[j].label => i = j
    BY <1>1
  <2> QED  BY <1>2, <1>3, <1>4, <1>5, <1>6, <2>1, OrdersAreMatched
<1>8. PICK best : best = Best(cs, b, Combinations(cs, p))
  OBVIOUS
<1>9. Best(ds, b, Combinations(ds, p)) = Moved(q, best) /\ best \in SUBSET DOMAIN cs
  BY <1>3, <1>7, <1>8, MovedBest
<1>10. Answer.selected = best
  BY <1>1, <1>5, <1>8, AnswerIsBest DEF Answer
<1>11. Plan(us, b, p).selected = Moved(q, best)
  BY <1>5, <1>9, AnswerIsBest
<1>12. {us[k].label : k \in Moved(q, best)} = {vs[i].label : i \in best}
  <2>1. {us[k].label : k \in Moved(q, best)} = {us[q[i]].label : i \in best}
    BY DEF Moved
  <2>2. \A i \in best : us[q[i]] = vs[i]
    BY <1>7, <1>9
  <2>3. \A i \in best : us[q[i]].label = vs[i].label
    BY <2>2
  <2>4. {us[q[i]].label : i \in best} = {vs[i].label : i \in best}
    BY <2>3
  <2> QED  BY <2>1, <2>4
<1> QED  BY <1>1, <1>10, <1>11, <1>12

-----------------------------------------------------------------------------
(* What is asked for advice                                                 *)

AdviceAsked == ScoreAsked /\ RelevanceAsked /\ PlanAsked

AdviceTopics == {"score", "relevance", "plan"}

\* The other steps ask about something else.
LEMMA OtherThanAdvice ==
  ASSUME \/ AskSource \/ AskDiscovery \/ AskTimings \/ AskRunTable
         \/ AskCampaign \/ AskPace \/ AskBudget \/ AskIngest \/ AskCollected \/ AskFed \/ AskStage
         \/ AskCollection \/ AskReplay \/ AskResponse
         \/ AskSend \/ AskMessage \/ AskAlerts \/ AskStart \/ AskDelay \/ AskControl \/ AskCommand
         \/ AskVoucherRow \/ AskAttemptRow \/ AskJobTable
         \/ EvaluateAlerts \/ CallControl \/ TryConsume \/ Observe
  PROVE  question'.about \notin AdviceTopics
BY TopicOf DEF AdviceTopics

LEMMA AdviceAskedFirst == Init => AdviceAsked
BY DEF Init, AdviceAsked, ScoreAsked, RelevanceAsked, PlanAsked

LEMMA AdviceAskedNext == AdviceAsked /\ [Next]_question => AdviceAsked'
<1> SUFFICES ASSUME AdviceAsked, [Next]_question
             PROVE  AdviceAsked'
  OBVIOUS
<1>1. ASSUME question'.about \notin AdviceTopics PROVE AdviceAsked'
  BY <1>1 DEF AdviceTopics, AdviceAsked, ScoreAsked, RelevanceAsked, PlanAsked
<1>2. /\ question'.about # "score" => ScoreAsked'
      /\ question'.about # "relevance" => RelevanceAsked'
      /\ question'.about # "plan" => PlanAsked'
  BY DEF ScoreAsked, RelevanceAsked, PlanAsked
<1>3. CASE AskScore
  <2>1. question'.about = "score"
    BY <1>3 DEF AskScore
  <2>2. ScoreAsked'
    BY <1>3, Zenon DEF AskScore, ScoreAsked
  <2> QED  BY <1>2, <2>1, <2>2 DEF AdviceAsked
<1>4. CASE AskRelevance
  <2>1. question'.about = "relevance"
    BY <1>4 DEF AskRelevance
  <2>2. RelevanceAsked'
    BY <1>4, Zenon DEF AskRelevance, RelevanceAsked
  <2> QED  BY <1>2, <2>1, <2>2 DEF AdviceAsked
<1>5. CASE AskPlan
  <2>1. question'.about = "plan"
    BY <1>5 DEF AskPlan
  <2>2. PlanAsked'
    BY <1>5, Zenon DEF AskPlan, PlanAsked
  <2> QED  BY <1>2, <2>1, <2>2 DEF AdviceAsked
<1>6. CASE UNCHANGED question
  BY <1>6 DEF AdviceAsked, ScoreAsked, RelevanceAsked, PlanAsked
<1> QED
  BY <1>1, <1>3, <1>4, <1>5, <1>6, OtherThanAdvice DEF Next, Ask

\* The owner's advice is sound: better terms never score less and an expired
\* voucher ranks last; a plan saves as much as any applicable combination or
\* says that it was cut short, holds no idle voucher, does not depend on the
\* order of its input, and keeps savings in their pools and shops whole; the
\* watch list and the planner agree about a purchase (ranking/score.rs,
\* planning/optimize.rs, basket.rs, relevance.rs).
THEOREM AdviceIsAlwaysSound == Spec => []AdviceIsSound
<1>1. Spec => []AdviceAsked
  BY AdviceAskedFirst, AdviceAskedNext, PTL DEF Spec
<1>2. AdviceAsked => AdviceIsSound
  <2> SUFFICES ASSUME ScoreAsked, RelevanceAsked, PlanAsked PROVE AdviceIsSound
    BY DEF AdviceAsked
  <2>1. BetterTermsNeverScoreLess /\ ExpiredRanksLast
    BY BetterTermsScoreMore, ExpiredAreLast
  <2>2. BestOrDisclosed /\ NoIdleVoucher /\ SameForEveryOrder
    BY PlansAreBest, NoneIsIdle, OrderNeverMatters
  <2>3. SavingsStayInTheirPool /\ ShopIsMeasuredWhole
    BY SavingsStay, ShopIsWhole
  <2>4. AdvisersAgree /\ LikelyIsChecked
    BY AdvisersAgreeAlways, LikelyChecked
  <2> QED  BY <2>1, <2>2, <2>3, <2>4 DEF AdviceIsSound
<1> QED  BY <1>1, <1>2, PTL

=============================================================================
