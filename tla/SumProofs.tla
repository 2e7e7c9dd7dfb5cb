----------------------------- MODULE SumProofs -----------------------------
(***************************************************************************)
(* Sums over a finite set, as the code takes them with aggregate and       *)
(* reduce: SumFunctionOnSet(f, S) of the community modules is a recursive  *)
(* function over the subsets of S. Induction over S is a minimal           *)
(* counterexample: a set of subsets that is not empty has a smallest one.  *)
(***************************************************************************)
EXTENDS Functions, FiniteSetTheorems, TLAPS

\* The element the recursion takes first.
Chosen(s) == CHOOSE x \in s : TRUE

\* g holds the sums of f over every subset of S.
Sums(g, f, S) ==
    g = [s \in SUBSET S |->
            IF s = {} THEN 0 ELSE f[Chosen(s)] + g[s \ {Chosen(s)}]]

\* The community operator is the value at S of the function of sums.
LEMMA SumDefinition ==
  ASSUME NEW f, NEW S
  PROVE  SumFunctionOnSet(f, S) = (CHOOSE g : Sums(g, f, S))[S]
  BY DEF SumFunctionOnSet, FoldFunctionOnSet, MapThenFoldSet, Sums, Chosen

\* A nonempty set of subsets of a finite set has a smallest one.
LEMMA SmallestSubset ==
  ASSUME NEW S, IsFiniteSet(S), NEW T, T # {}, T \subseteq SUBSET S
  PROVE  \E U \in T : \A V \in T : V \subseteq U => V = U
  <1>1. FiniteSubsetsOf(S) = SUBSET S
    BY FS_FiniteSubsetsOfFinite
  <1>2. IsWellFoundedOn(StrictSubsetOrdering(S), FiniteSubsetsOf(S))
    BY FS_StrictSubsetOrderingWellFounded
  <1>3. IsWellFoundedOn(StrictSubsetOrdering(S), SUBSET S)
    BY <1>1, <1>2
  <1>4. \E U \in T : \A V \in T : <<V, U>> \notin StrictSubsetOrdering(S)
    BY <1>3, WFMin
  <1>5. QED
    BY <1>4 DEF StrictSubsetOrdering

\* The sums over a set do not depend on the set one started from.
LEMMA SumsAgree ==
  ASSUME NEW f, NEW S, NEW R, NEW g, NEW h, IsFiniteSet(S), 
         Sums(g, f, S), Sums(h, f, R)
  PROVE  \A s \in SUBSET S : s \subseteq R => g[s] = h[s]
  <1> DEFINE Differ == {s \in SUBSET S : s \subseteq R /\ g[s] # h[s]}
  <1> SUFFICES ASSUME Differ # {} PROVE FALSE
    OBVIOUS
  <1>1. PICK s \in Differ : \A t \in Differ : t \subseteq s => t = s
    <2>1. Differ \subseteq SUBSET S
      OBVIOUS
    <2> HIDE DEF Differ
    <2>2. QED
      BY <2>1, SmallestSubset
  <1>2. s # {}
    BY <1>1 DEF Sums
  <1>3. Chosen(s) \in s
    BY <1>2 DEF Chosen
  <1>4. g[s \ {Chosen(s)}] = h[s \ {Chosen(s)}]
    BY <1>1, <1>3
  <1>5. g[s] = f[Chosen(s)] + g[s \ {Chosen(s)}]
    BY <1>2, <1>1 DEF Sums
  <1>6. h[s] = f[Chosen(s)] + h[s \ {Chosen(s)}]
    BY <1>2, <1>1 DEF Sums
  <1>7. QED
    BY <1>1, <1>4, <1>5, <1>6

\* The function of sums exists: by sums over smaller sets.
LEMMA SumsExist ==
  ASSUME NEW f, NEW S, IsFiniteSet(S)
  PROVE  \E g : Sums(g, f, S)
  <1> DEFINE Without == {U \in SUBSET S : ~ \E g : Sums(g, f, U)}
  <1> SUFFICES ASSUME Without # {} PROVE FALSE
    OBVIOUS
  <1>1. PICK U \in Without : \A V \in Without : V \subseteq U => V = U
    <2>1. Without \subseteq SUBSET S
      OBVIOUS
    <2> HIDE DEF Without
    <2>2. QED
      BY <2>1, SmallestSubset
  <1> DEFINE sums(s) == CHOOSE g : Sums(g, f, s)
             rest(s) == s \ {Chosen(s)}
             h == [s \in SUBSET U |->
                      IF s = {} THEN 0 ELSE f[Chosen(s)] + sums(rest(s))[rest(s)]]
  <1>2. \A s \in SUBSET U : s # {} => rest(s) \in SUBSET U /\ rest(s) # U
    BY DEF Chosen
  <1>3. \A s \in SUBSET U : s # U => Sums(sums(s), f, s)
    <2> SUFFICES ASSUME NEW s \in SUBSET U, s # U PROVE Sums(sums(s), f, s)
      OBVIOUS
    <2>1. \E g : Sums(g, f, s)
      BY <1>1
    <2>2. QED
      BY <2>1
  <1>4. ASSUME NEW s \in SUBSET U, s # U
        PROVE  h[s] = sums(s)[s]
    <2>1. CASE s = {}
      <3>1. Sums(sums(s), f, s)
        BY <1>3, <1>4
      <3>2. sums(s)[s] = 0
        BY <2>1, <3>1 DEF Sums
      <3>3. QED
        BY <2>1, <3>2
    <2>2. CASE s # {}
      <3>1. /\ Sums(sums(s), f, s) /\ Sums(sums(rest(s)), f, rest(s))
            /\ rest(s) \subseteq s
        BY <1>2, <1>3, <1>4, <2>2
      <3>2. IsFiniteSet(rest(s))
        BY <3>1, FS_Subset
      <3>3. sums(rest(s))[rest(s)] = sums(s)[rest(s)]
        BY <3>1, <3>2, SumsAgree
      <3>4. sums(s)[s] = f[Chosen(s)] + sums(s)[rest(s)]
        BY <2>2, <3>1 DEF Sums
      <3>5. h[s] = f[Chosen(s)] + sums(rest(s))[rest(s)]
        BY <2>2
      <3>6. QED
        BY <3>3, <3>4, <3>5
    <2>3. QED
      BY <2>1, <2>2
  <1>5. Sums(h, f, U)
    <2>1. \A s \in SUBSET U : s # {} => h[rest(s)] = sums(rest(s))[rest(s)]
      BY <1>2, <1>4
    <2>2. ASSUME NEW s \in SUBSET U
          PROVE  h[s] = IF s = {} THEN 0 ELSE f[Chosen(s)] + h[rest(s)]
      <3>1. CASE s = {}
        BY <3>1
      <3>2. CASE s # {}
        <4>1. h[s] = f[Chosen(s)] + sums(rest(s))[rest(s)]
          BY <3>2
        <4>2. h[rest(s)] = sums(rest(s))[rest(s)]
          BY <2>1, <3>2
        <4> HIDE DEF h, sums, rest
        <4>3. QED
          BY <3>2, <4>1, <4>2
      <3>3. QED
        BY <3>1, <3>2
    <2>3. h = [s \in SUBSET U |-> h[s]]
      OBVIOUS
    <2> HIDE DEF h
    <2>4. QED
      BY <2>2, <2>3 DEF Sums
  <1>6. QED
    BY <1>1, <1>5

\* A sum is its first element plus the sum of the others.
LEMMA SumRecursion ==
  ASSUME NEW f, NEW S, IsFiniteSet(S)
  PROVE  SumFunctionOnSet(f, S) =
             IF S = {} THEN 0
             ELSE f[Chosen(S)] + SumFunctionOnSet(f, S \ {Chosen(S)})
  <1> DEFINE g == CHOOSE g : Sums(g, f, S)
             R == S \ {Chosen(S)}
             h == CHOOSE h : Sums(h, f, R)
  <1>1. IsFiniteSet(R) /\ R \subseteq S
    BY FS_Subset
  <1>2. Sums(g, f, S)
    BY SumsExist
  <1>3. Sums(h, f, R)
    BY <1>1, SumsExist
  <1>4. SumFunctionOnSet(f, S) = g[S] /\ SumFunctionOnSet(f, R) = h[R]
    BY SumDefinition
  <1> HIDE DEF g, h
  <1>5. h[R] = g[R]
    BY <1>1, <1>2, <1>3, SumsAgree
  <1>6. g[S] = IF S = {} THEN 0 ELSE f[Chosen(S)] + g[R]
    BY <1>2 DEF Sums
  <1>7. QED
    BY <1>4, <1>5, <1>6

-----------------------------------------------------------------------------
(* What a reader may use *)

\* The empty sum is zero.
LEMMA SumEmpty ==
  ASSUME NEW f
  PROVE  SumFunctionOnSet(f, {}) = 0
  BY SumRecursion, FS_EmptySet

\* A sum of naturals is a natural.
LEMMA SumType ==
  ASSUME NEW f, NEW S, IsFiniteSet(S), \A x \in S : f[x] \in Nat
  PROVE  SumFunctionOnSet(f, S) \in Nat
  <1> DEFINE Untyped == {s \in SUBSET S : SumFunctionOnSet(f, s) \notin Nat}
  <1> SUFFICES ASSUME Untyped # {} PROVE FALSE
    BY DEF Untyped
  <1>1. PICK s \in Untyped : \A t \in Untyped : t \subseteq s => t = s
    <2>1. Untyped \subseteq SUBSET S
      OBVIOUS
    <2> HIDE DEF Untyped
    <2>2. QED
      BY <2>1, SmallestSubset
  <1>2. IsFiniteSet(s)
    BY FS_Subset
  <1>3. s # {}
    BY SumEmpty
  <1>4. Chosen(s) \in s
    BY <1>3 DEF Chosen
  <1>5. SumFunctionOnSet(f, s \ {Chosen(s)}) \in Nat
    BY <1>1, <1>4
  <1>6. QED
    BY <1>2, <1>3, <1>4, <1>5, SumRecursion

\* Any element, not only the first, can be taken out of the sum.
LEMMA SumRemove ==
  ASSUME NEW f, NEW S, IsFiniteSet(S), \A x \in S : f[x] \in Nat, NEW x \in S
  PROVE  SumFunctionOnSet(f, S) = f[x] + SumFunctionOnSet(f, S \ {x})
  <1> DEFINE Sum(s) == SumFunctionOnSet(f, s)
             Wrong == {s \in SUBSET S : \E y \in s : Sum(s) # f[y] + Sum(s \ {y})}
  <1> SUFFICES ASSUME Wrong # {} PROVE FALSE
    BY DEF Wrong
  <1>1. PICK s \in Wrong : \A t \in Wrong : t \subseteq s => t = s
    <2>1. Wrong \subseteq SUBSET S
      OBVIOUS
    <2> HIDE DEF Wrong
    <2>2. QED
      BY <2>1, SmallestSubset
  <1>2. PICK y \in s : Sum(s) # f[y] + Sum(s \ {y})
    BY <1>1
  <1> DEFINE c == Chosen(s)
  <1>3. c \in s
    BY <1>2 DEF Chosen
  <1>4. \A t \in SUBSET s : IsFiniteSet(t) /\ Sum(t) \in Nat
    BY FS_Subset, SumType
  <1>5. Sum(s) = f[c] + Sum(s \ {c})
    BY <1>3, <1>4, SumRecursion
  <1>6. c # y
    BY <1>2, <1>5
  <1>7. Sum(s \ {c}) = f[y] + Sum((s \ {c}) \ {y})
    <2>1. s \ {c} \notin Wrong
      BY <1>1, <1>3
    <2>2. QED
      BY <2>1, <1>6
  <1>8. Sum(s \ {y}) = f[c] + Sum((s \ {y}) \ {c})
    <2>1. s \ {y} \notin Wrong
      BY <1>1, <1>2
    <2>2. QED
      BY <2>1, <1>3, <1>6
  <1>9. (s \ {c}) \ {y} = (s \ {y}) \ {c}
    OBVIOUS
  <1>10. /\ f[c] \in Nat /\ f[y] \in Nat
         /\ Sum((s \ {y}) \ {c}) \in Nat
    BY <1>3, <1>4
  <1> HIDE DEF Sum, c
  <1>11. QED
    BY <1>2, <1>5, <1>7, <1>8, <1>9, <1>10

\* A sum of larger values is larger.
LEMMA SumDominated ==
  ASSUME NEW f, NEW h, NEW S, IsFiniteSet(S),
         \A x \in S : f[x] \in Nat /\ h[x] \in Nat /\ f[x] <= h[x]
  PROVE  SumFunctionOnSet(f, S) <= SumFunctionOnSet(h, S)
  <1> DEFINE F(s) == SumFunctionOnSet(f, s)
             H(s) == SumFunctionOnSet(h, s)
             Wrong == {s \in SUBSET S : ~(F(s) <= H(s))}
  <1> SUFFICES ASSUME Wrong # {} PROVE FALSE
    BY DEF Wrong
  <1>1. PICK s \in Wrong : \A t \in Wrong : t \subseteq s => t = s
    <2>1. Wrong \subseteq SUBSET S
      OBVIOUS
    <2> HIDE DEF Wrong
    <2>2. QED
      BY <2>1, SmallestSubset
  <1>2. s # {}
    BY SumEmpty
  <1>3. PICK x : x \in s
    BY <1>2
  <1>4. \A t \in SUBSET S : IsFiniteSet(t) /\ F(t) \in Nat /\ H(t) \in Nat
    BY FS_Subset, SumType
  <1>5. F(s) = f[x] + F(s \ {x}) /\ H(s) = h[x] + H(s \ {x})
    BY <1>3, <1>4, SumRemove
  <1>6. F(s \ {x}) <= H(s \ {x})
    BY <1>1, <1>3
  <1>7. /\ f[x] \in Nat /\ h[x] \in Nat /\ f[x] <= h[x]
        /\ F(s \ {x}) \in Nat /\ H(s \ {x}) \in Nat /\ ~(F(s) <= H(s))
    BY <1>3, <1>4
  <1> HIDE DEF F, H
  <1>8. QED
    BY <1>5, <1>6, <1>7

\* The sum depends only on the values on the set.
LEMMA SumAgree ==
  ASSUME NEW f, NEW h, NEW S, IsFiniteSet(S),
         \A x \in S : f[x] \in Nat /\ h[x] = f[x]
  PROVE  SumFunctionOnSet(f, S) = SumFunctionOnSet(h, S)
  <1>1. /\ SumFunctionOnSet(f, S) \in Nat /\ SumFunctionOnSet(h, S) \in Nat
    BY SumType
  <1>2. /\ SumFunctionOnSet(f, S) <= SumFunctionOnSet(h, S)
        /\ SumFunctionOnSet(h, S) <= SumFunctionOnSet(f, S)
    BY SumDominated
  <1>3. QED
    BY <1>1, <1>2

\* A sum over fewer elements is smaller.
LEMMA SumSubset ==
  ASSUME NEW f, NEW S, IsFiniteSet(S), \A x \in S : f[x] \in Nat,
         NEW T \in SUBSET S
  PROVE  SumFunctionOnSet(f, T) <= SumFunctionOnSet(f, S)
  <1> DEFINE F(s) == SumFunctionOnSet(f, s)
             Wrong == {s \in SUBSET S : T \subseteq s /\ ~(F(T) <= F(s))}
  <1> SUFFICES ASSUME Wrong # {} PROVE FALSE
    BY DEF Wrong
  <1>1. PICK s \in Wrong : \A t \in Wrong : t \subseteq s => t = s
    <2>1. Wrong \subseteq SUBSET S
      OBVIOUS
    <2> HIDE DEF Wrong
    <2>2. QED
      BY <2>1, SmallestSubset
  <1>2. \A t \in SUBSET S : IsFiniteSet(t) /\ F(t) \in Nat
    BY FS_Subset, SumType
  <1>3. s # T
    BY <1>2
  <1>4. PICK x \in s : x \notin T
    BY <1>3
  <1>5. F(s) = f[x] + F(s \ {x})
    BY <1>2, SumRemove
  <1>6. F(T) <= F(s \ {x})
    BY <1>1, <1>4
  <1>7. /\ f[x] \in Nat /\ F(T) \in Nat /\ F(s \ {x}) \in Nat
        /\ ~(F(T) <= F(s))
    BY <1>2
  <1> HIDE DEF F
  <1>8. QED
    BY <1>5, <1>6, <1>7

\* Sums over disjoint sets add up.
LEMMA SumUnion ==
  ASSUME NEW f, NEW S, NEW T, IsFiniteSet(S), IsFiniteSet(T), S \intersect T = {},
         \A x \in S \union T : f[x] \in Nat
  PROVE  SumFunctionOnSet(f, S \union T) = SumFunctionOnSet(f, S) + SumFunctionOnSet(f, T)
  <1> DEFINE F(s) == SumFunctionOnSet(f, s)
             Wrong == {s \in SUBSET S : F(s \union T) # F(s) + F(T)}
  <1> SUFFICES ASSUME Wrong # {} PROVE FALSE
    BY DEF Wrong
  <1>1. PICK s \in Wrong : \A t \in Wrong : t \subseteq s => t = s
    <2>1. Wrong \subseteq SUBSET S
      OBVIOUS
    <2> HIDE DEF Wrong
    <2>2. QED
      BY <2>1, SmallestSubset
  <1>2. \A t \in SUBSET S : /\ IsFiniteSet(t) /\ F(t) \in Nat
                            /\ IsFiniteSet(t \union T) /\ F(t \union T) \in Nat
    BY FS_Subset, FS_Union, SumType
  <1>3. F(T) \in Nat
    BY SumType
  <1>4. s # {}
    <2>1. F({}) = 0
      BY SumEmpty
    <2>2. {} \union T = T
      OBVIOUS
    <2>3. F({} \union T) = F({}) + F(T)
      BY <1>3, <2>1, <2>2
    <2>4. F(s \union T) # F(s) + F(T)
      OBVIOUS
    <2> HIDE DEF F
    <2>5. QED
      BY <2>3, <2>4
  <1>5. PICK x : x \in s
    BY <1>4
  <1>6. F(s) = f[x] + F(s \ {x})
    BY <1>2, <1>5, SumRemove
  <1>7. (s \union T) \ {x} = (s \ {x}) \union T
    BY <1>5
  <1>8. F(s \union T) = f[x] + F((s \ {x}) \union T)
    BY <1>2, <1>5, <1>7, SumRemove
  <1>9. F((s \ {x}) \union T) = F(s \ {x}) + F(T)
    BY <1>1, <1>5
  <1>10. /\ f[x] \in Nat /\ F(s \ {x}) \in Nat
         /\ F(s \union T) # F(s) + F(T)
    BY <1>2, <1>5
  <1> HIDE DEF F
  <1>11. QED
    BY <1>3, <1>6, <1>8, <1>9, <1>10

\* A sum of ones counts the set.
LEMMA SumOfOnes ==
  ASSUME NEW f, NEW S, IsFiniteSet(S), \A x \in S : f[x] = 1
  PROVE  SumFunctionOnSet(f, S) = Cardinality(S)
  <1> DEFINE F(s) == SumFunctionOnSet(f, s)
             Wrong == {s \in SUBSET S : F(s) # Cardinality(s)}
  <1> SUFFICES ASSUME Wrong # {} PROVE FALSE
    BY DEF Wrong
  <1>1. PICK s \in Wrong : \A t \in Wrong : t \subseteq s => t = s
    <2>1. Wrong \subseteq SUBSET S
      OBVIOUS
    <2> HIDE DEF Wrong
    <2>2. QED
      BY <2>1, SmallestSubset
  <1>2. s # {}
    BY SumEmpty, FS_EmptySet
  <1>3. PICK x : x \in s
    BY <1>2
  <1>4. IsFiniteSet(s)
    BY FS_Subset
  <1>5. F(s) = 1 + F(s \ {x})
    BY <1>3, <1>4, SumRemove
  <1>6. F(s \ {x}) = Cardinality(s \ {x})
    BY <1>1, <1>3
  <1>7. Cardinality(s \ {x}) = Cardinality(s) - 1 /\ Cardinality(s) \in Nat
    BY <1>3, <1>4, FS_RemoveElement, FS_CardinalityType
  <1>8. F(s) # Cardinality(s)
    OBVIOUS
  <1> HIDE DEF F
  <1>9. QED
    BY <1>5, <1>6, <1>7, <1>8

\* With one element more a set counts at most one more.
LEMMA OneMore ==
  ASSUME NEW S, IsFiniteSet(S), NEW x
  PROVE  /\ IsFiniteSet(S \union {x}) /\ Cardinality(S \union {x}) \in Nat
         /\ Cardinality(S \union {x}) <= Cardinality(S) + 1
  <1>1. /\ IsFiniteSet(S \union {x})
        /\ Cardinality(S \union {x}) = Cardinality(S) \/ Cardinality(S \union {x}) = Cardinality(S) + 1
    BY FS_AddElement
  <1>2. QED
    BY <1>1, FS_CardinalityType
=============================================================================
