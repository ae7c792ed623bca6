------------------------------- MODULE Totals -------------------------------
(***************************************************************************)
(* Lemmas about SumFunctionOnSet, the sum of v[x] for x in a finite set S. *)
(* The community modules define it by a recursive function on the subsets  *)
(* of S, which takes out one element after the other in an order that      *)
(* CHOOSE fixes.  That this function exists, that it is the only one and   *)
(* that the order does not matter is shown by looking at a smallest subset *)
(* for which it would fail.                                                *)
(***************************************************************************)
EXTENDS Integers, Functions, FiniteSetTheorems, TLAPS

\* The element that is taken out of s next.
Pick(s) == CHOOSE x \in s : TRUE
Rest(s) == s \ {Pick(s)}

(* The equation of the recursive function, and a function that solves it.   *)
SumsUp(v, g, S) ==
    g = [s \in SUBSET S |-> IF s = {} THEN 0 ELSE v[Pick(s)] + g[Rest(s)]]

PartialSums(v, S) == CHOOSE g : SumsUp(v, g, S)

LEMMA SumOpened ==
    ASSUME NEW v, NEW S
    PROVE  SumFunctionOnSet(v, S) = PartialSums(v, S)[S]
  BY DEF SumFunctionOnSet, FoldFunctionOnSet, MapThenFoldSet, PartialSums, SumsUp, Pick, Rest

(* Among subsets of a finite set there is a smallest one.                   *)
LEMMA SmallestSubset ==
    ASSUME NEW S, IsFiniteSet(S), NEW Bad, Bad \subseteq SUBSET S, Bad # {}
    PROVE  \E T \in Bad : \A U \in SUBSET T : U # T => U \notin Bad
  <1> DEFINE R == StrictSubsetOrdering(S)
  <1>1. IsWellFoundedOn(R, SUBSET S)
    BY FS_StrictSubsetOrderingWellFounded, FS_FiniteSubsetsOfFinite
  <1>2. PICK T \in Bad : \A U \in Bad : ~(<<U, T>> \in R)
    <2> HIDE DEF R
    <2> QED BY <1>1, WFMin
  <1>3. ASSUME NEW U \in SUBSET T, U # T PROVE U \notin Bad
    BY <1>2, <1>3 DEF StrictSubsetOrdering
  <1> QED BY <1>3

(* So there is among naturals.                                              *)
LEMMA LeastNatural ==
    ASSUME NEW T, T \subseteq Nat, T # {}
    PROVE  \E n \in T : \A m \in T : ~(m < n)
  <1>1. PICK n \in T : \A m \in T : <<m, n>> \notin OpToRel(<, Nat)
    BY NatLessThanWellFounded, WFMin
  <1> QED BY <1>1 DEF OpToRel

LEMMA RestIsSmaller ==
    ASSUME NEW S, NEW s \in SUBSET S, s # {}
    PROVE  Pick(s) \in s /\ Rest(s) \in SUBSET s /\ Rest(s) # s /\ Rest(s) \in SUBSET S
  <1>1. Pick(s) \in s BY DEF Pick
  <1> QED BY <1>1 DEF Rest

-----------------------------------------------------------------------------
(* The function exists and is unique.                                       *)
LEMMA SumsUpStep ==
    ASSUME NEW v, NEW g, NEW S, SumsUp(v, g, S), NEW s \in SUBSET S
    PROVE  /\ s = {} => g[s] = 0
           /\ s # {} => g[s] = v[Pick(s)] + g[Rest(s)]
  BY Zenon DEF SumsUp

LEMMA SumsUpUnique ==
    ASSUME NEW v, NEW S, IsFiniteSet(S), NEW R \in SUBSET S, NEW T \in SUBSET R,
           NEW g, NEW h, SumsUp(v, g, S), SumsUp(v, h, R)
    PROVE  g[T] = h[T]
  <1> DEFINE Bad == {s \in SUBSET R : g[s] # h[s]}
  <1> SUFFICES ASSUME Bad # {} PROVE FALSE OBVIOUS
  <1>1. PICK s \in Bad : \A U \in SUBSET s : U # s => U \notin Bad
    <2>1. IsFiniteSet(R) BY FS_Subset
    <2> HIDE DEF Bad
    <2>2. Bad \subseteq SUBSET R BY DEF Bad
    <2> QED BY <2>1, <2>2, SmallestSubset
  <1>2. s \in SUBSET S /\ s \in SUBSET R OBVIOUS
  <1>3. s # {} BY <1>2, SumsUpStep
  <1>4. Rest(s) \in SUBSET s /\ Rest(s) # s BY <1>2, <1>3, RestIsSmaller
  <1>5. g[Rest(s)] = h[Rest(s)] BY <1>1, <1>2, <1>4
  <1>6. g[s] = v[Pick(s)] + g[Rest(s)] BY <1>2, <1>3, SumsUpStep
  <1>7. h[s] = v[Pick(s)] + h[Rest(s)] BY <1>2, <1>3, SumsUpStep
  <1> QED BY <1>5, <1>6, <1>7

LEMMA SumsUpExists ==
    ASSUME NEW v, NEW S, IsFiniteSet(S)
    PROVE  SumsUp(v, PartialSums(v, S), S)
  <1> DEFINE Bad == {T \in SUBSET S : ~SumsUp(v, PartialSums(v, T), T)}
  <1> SUFFICES ASSUME Bad # {} PROVE FALSE OBVIOUS
  <1>1. PICK T \in Bad : \A U \in SUBSET T : U # T => U \notin Bad
    <2> HIDE DEF Bad
    <2>1. Bad \subseteq SUBSET S BY DEF Bad
    <2> QED BY <2>1, SmallestSubset
  <1>2. \A U \in SUBSET T : U # T => SumsUp(v, PartialSums(v, U), U)
    BY <1>1
  <1>3. IsFiniteSet(T) BY <1>1, FS_Subset
  <1> DEFINE at(U) == PartialSums(v, U)[U]
             g == [s \in SUBSET T |-> IF s = {} THEN 0 ELSE v[Pick(s)] + at(Rest(s))]
  <1>4. ASSUME NEW U \in SUBSET T, U # T PROVE g[U] = at(U)
    <2>1. SumsUp(v, PartialSums(v, U), U) BY <1>2, <1>4
    <2>2. CASE U = {} BY <2>1, <2>2, SumsUpStep
    <2>3. CASE U # {}
      <3>1. at(U) = v[Pick(U)] + PartialSums(v, U)[Rest(U)]
        BY <2>1, <2>3, SumsUpStep
      <3>2. Rest(U) \in SUBSET U /\ Rest(U) # U /\ Rest(U) \in SUBSET T
        BY <2>3, RestIsSmaller
      <3>3. SumsUp(v, PartialSums(v, Rest(U)), Rest(U)) BY <1>2, <1>4, <3>2
      <3>4. IsFiniteSet(U) BY <1>3, FS_Subset
      <3>5. PartialSums(v, U)[Rest(U)] = at(Rest(U))
        BY <2>1, <3>2, <3>3, <3>4, SumsUpUnique
      <3> QED BY <2>3, <3>1, <3>5
    <2> QED BY <2>2, <2>3
  <1>5. SumsUp(v, g, T)
    <2>1. ASSUME NEW s \in SUBSET T, s # {} PROVE g[Rest(s)] = at(Rest(s))
      <3>1. Rest(s) \in SUBSET T /\ Rest(s) # T BY <2>1, RestIsSmaller
      <3> HIDE DEF g, at
      <3> QED BY <1>4, <3>1
    <2>2. g = [s \in SUBSET T |-> IF s = {} THEN 0 ELSE v[Pick(s)] + g[Rest(s)]]
      BY <2>1
    <2> QED BY <2>2 DEF SumsUp
  <1>6. SumsUp(v, PartialSums(v, T), T)
    <2> HIDE DEF g
    <2> QED BY <1>5 DEF PartialSums
  <1> QED BY <1>1, <1>6

-----------------------------------------------------------------------------
(* What a sum is.                                                           *)
LEMMA SumOfNone ==
    ASSUME NEW v
    PROVE  SumFunctionOnSet(v, {}) = 0
  BY SumOpened, SumsUpExists, SumsUpStep, FS_EmptySet

LEMMA SumOfSome ==
    ASSUME NEW v, NEW S, IsFiniteSet(S), S # {}
    PROVE  SumFunctionOnSet(v, S) = v[Pick(S)] + SumFunctionOnSet(v, Rest(S))
  <1> DEFINE g == PartialSums(v, S)
             h == PartialSums(v, Rest(S))
  <1>1. Rest(S) \in SUBSET S /\ IsFiniteSet(Rest(S)) BY RestIsSmaller, FS_Subset
  <1>2. SumsUp(v, g, S) /\ SumsUp(v, h, Rest(S)) BY <1>1, SumsUpExists
  <1>3. g[Rest(S)] = h[Rest(S)]
    <2> HIDE DEF g, h
    <2> QED BY <1>1, <1>2, SumsUpUnique
  <1>4. g[S] = v[Pick(S)] + g[Rest(S)]
    <2> HIDE DEF g
    <2> QED BY <1>2, SumsUpStep
  <1> QED BY <1>3, <1>4, SumOpened

LEMMA SumIsNat ==
    ASSUME NEW v, NEW S, IsFiniteSet(S), \A x \in S : v[x] \in Nat
    PROVE  SumFunctionOnSet(v, S) \in Nat
  <1> DEFINE Bad == {T \in SUBSET S : SumFunctionOnSet(v, T) \notin Nat}
  <1> SUFFICES ASSUME Bad # {} PROVE FALSE OBVIOUS
  <1>1. PICK T \in Bad : \A U \in SUBSET T : U # T => U \notin Bad
    <2>1. Bad \subseteq SUBSET S OBVIOUS
    <2> HIDE DEF Bad
    <2> QED BY <2>1, SmallestSubset
  <1>2. T # {}
    <2>1. SumFunctionOnSet(v, T) \notin Nat BY <1>1
    <2> QED BY <2>1, SumOfNone
  <1>3. IsFiniteSet(T) BY <1>1, FS_Subset
  <1>4. Pick(T) \in T /\ Rest(T) \in SUBSET T /\ Rest(T) # T BY <1>2, RestIsSmaller
  <1>5. SumFunctionOnSet(v, Rest(T)) \in Nat BY <1>1, <1>4
  <1>6. SumFunctionOnSet(v, T) = v[Pick(T)] + SumFunctionOnSet(v, Rest(T))
    BY <1>2, <1>3, SumOfSome
  <1>7. v[Pick(T)] \in Nat BY <1>1, <1>4
  <1>8. SumFunctionOnSet(v, T) \in Nat BY <1>5, <1>6, <1>7
  <1> QED BY <1>1, <1>8

\* Whichever element is taken out, the rest sums up to what is left.
LEMMA SumWithout ==
    ASSUME NEW v, NEW S, IsFiniteSet(S), \A x \in S : v[x] \in Nat, NEW y \in S
    PROVE  SumFunctionOnSet(v, S) = v[y] + SumFunctionOnSet(v, S \ {y})
  <1> DEFINE sum(T) == SumFunctionOnSet(v, T)
             Bad == {T \in SUBSET S : \E x \in T : sum(T) # v[x] + sum(T \ {x})}
  <1> SUFFICES ASSUME Bad # {} PROVE FALSE OBVIOUS
  <1>1. PICK T \in Bad : \A U \in SUBSET T : U # T => U \notin Bad
    <2>1. Bad \subseteq SUBSET S OBVIOUS
    <2> HIDE DEF Bad
    <2> QED BY <2>1, SmallestSubset
  <1>2. PICK x \in T : sum(T) # v[x] + sum(T \ {x}) BY <1>1
  <1> DEFINE p == Pick(T)
  <1>3. /\ IsFiniteSet(T) /\ p \in T
        /\ sum(T) = v[p] + sum(T \ {p})
    BY <1>1, <1>2, FS_Subset, RestIsSmaller, SumOfSome DEF Rest
  <1>4. x # p BY <1>2, <1>3
  <1>5. sum(T \ {p}) = v[x] + sum((T \ {p}) \ {x})
    <2>1. T \ {p} \in SUBSET T /\ T \ {p} # T /\ x \in T \ {p} BY <1>3, <1>4
    <2>2. T \ {p} \notin Bad BY <1>1, <2>1
    <2> QED BY <2>1, <2>2
  <1>6. sum(T \ {x}) = v[p] + sum((T \ {x}) \ {p})
    <2>1. T \ {x} \in SUBSET T /\ T \ {x} # T /\ p \in T \ {x} BY <1>3, <1>4
    <2>2. T \ {x} \notin Bad BY <1>1, <2>1
    <2> QED BY <2>1, <2>2
  <1>7. (T \ {x}) \ {p} = (T \ {p}) \ {x} OBVIOUS
  <1>8. v[x] \in Nat /\ v[p] \in Nat BY <1>1, <1>3
  <1>9. sum((T \ {p}) \ {x}) \in Nat
    <2>1. IsFiniteSet((T \ {p}) \ {x}) /\ (T \ {p}) \ {x} \subseteq S BY <1>3, FS_Subset
    <2> QED BY <2>1, SumIsNat
  <1>10. sum(T) = v[p] + (v[x] + sum((T \ {p}) \ {x})) BY <1>3, <1>5
  <1>11. v[x] + sum(T \ {x}) = v[x] + (v[p] + sum((T \ {p}) \ {x})) BY <1>6, <1>7
  <1>12. v[p] + (v[x] + sum((T \ {p}) \ {x})) = v[x] + (v[p] + sum((T \ {p}) \ {x}))
    <2> HIDE DEF sum, p
    <2> QED BY <1>8, <1>9
  <1> QED BY <1>2, <1>10, <1>11, <1>12

LEMMA SumWith ==
    ASSUME NEW v, NEW S, IsFiniteSet(S), NEW y, y \notin S,
           \A x \in S \cup {y} : v[x] \in Nat
    PROVE  SumFunctionOnSet(v, S \cup {y}) = v[y] + SumFunctionOnSet(v, S)
  <1>1. IsFiniteSet(S \cup {y}) BY FS_AddElement
  <1>2. (S \cup {y}) \ {y} = S OBVIOUS
  <1> QED BY <1>1, <1>2, SumWithout

LEMMA SumOfEqual ==
    ASSUME NEW v, NEW w, NEW S, IsFiniteSet(S), \A x \in S : v[x] = w[x]
    PROVE  SumFunctionOnSet(v, S) = SumFunctionOnSet(w, S)
  <1> DEFINE Bad == {T \in SUBSET S : SumFunctionOnSet(v, T) # SumFunctionOnSet(w, T)}
  <1> SUFFICES ASSUME Bad # {} PROVE FALSE OBVIOUS
  <1>1. PICK T \in Bad : \A U \in SUBSET T : U # T => U \notin Bad
    <2>1. Bad \subseteq SUBSET S OBVIOUS
    <2> HIDE DEF Bad
    <2> QED BY <2>1, SmallestSubset
  <1>2. T # {} BY <1>1, SumOfNone
  <1>3. IsFiniteSet(T) /\ Pick(T) \in T /\ Rest(T) \in SUBSET T /\ Rest(T) # T
    BY <1>1, <1>2, FS_Subset, RestIsSmaller
  <1>4. SumFunctionOnSet(v, Rest(T)) = SumFunctionOnSet(w, Rest(T)) BY <1>1, <1>3
  <1>5. v[Pick(T)] = w[Pick(T)] BY <1>1, <1>3
  <1>6. SumFunctionOnSet(v, T) = SumFunctionOnSet(w, T)
    BY <1>2, <1>3, <1>4, <1>5, SumOfSome
  <1> QED BY <1>1, <1>6
=============================================================================
