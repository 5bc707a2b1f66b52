------------------------- MODULE CreditPolicyProofs -------------------------
(***************************************************************************)
(* What the rules of CreditPolicy compute, for every set of buckets and    *)
(* every amount: an allocation takes exactly what it was asked for or all  *)
(* there is, soonest expiry first, and a settlement narrows a hold to      *)
(* exactly its cost.                                                       *)
(*                                                                         *)
(* An amount is a sum over buckets, and the sum of the community modules   *)
(* is a fold: a recursive function that picks the elements of a set in an  *)
(* unknown order.  The first section proves that the order does not matter *)
(* and the laws of sums the ledger's proofs rest on.  Its induction is     *)
(* over the subsets of a finite set, by SetInduction, which states the     *)
(* hypothesis as a family of sets and not as an operator.                  *)
(***************************************************************************)
EXTENDS CreditPolicy, FiniteSetTheorems, TLAPS

-----------------------------------------------------------------------------
(* Induction and sums over finite sets. *)

\* Well-founded induction over the subsets of a finite set: F is the family of
\* those a fact is known of.  (The library states it with an operator P(_).)
LEMMA SetInduction ==
  ASSUME NEW S, IsFiniteSet(S), NEW F,
         \A T \in SUBSET S : (\A U \in SUBSET T : U # T => U \in F) => T \in F
  PROVE  S \in F
<1> SUFFICES ASSUME S \notin F PROVE FALSE
  OBVIOUS
<1> DEFINE Bad == {T \in FiniteSubsetsOf(S) : T \notin F}
<1>1. Bad \subseteq FiniteSubsetsOf(S) /\ Bad # {}
  BY DEF FiniteSubsetsOf
<1>2. PICK T \in Bad : \A U \in Bad : ~ (<<U, T>> \in StrictSubsetOrdering(S))
  <2> HIDE DEF Bad
  <2> QED
    BY <1>1, FS_StrictSubsetOrderingWellFounded, WFMin
<1>3. T \in SUBSET S /\ IsFiniteSet(T) /\ T \notin F
  BY DEF FiniteSubsetsOf
<1>4. ASSUME NEW U \in SUBSET T, U # T
      PROVE  U \in F
  <2>1. U \in FiniteSubsetsOf(S)
    BY <1>3, FS_Subset DEF FiniteSubsetsOf
  <2>2. <<U, T>> \in StrictSubsetOrdering(S)
    BY <1>3, <1>4 DEF StrictSubsetOrdering
  <2> QED
    BY <1>2, <2>1, <2>2
<1> QED
  BY <1>3, <1>4

\* The element the fold of the library takes from a set next.
Pick(s) == CHOOSE x \in s : TRUE

\* g adds f up over each subset of S, as the folds of the library do.
Adds(f, g, S) ==
  \A s \in SUBSET S : g[s] = IF s = {} THEN 0 ELSE f[Pick(s)] + g[s \ {Pick(s)}]

\* A set that is not empty has one.
LEMMA Picked == \A s : s # {} => Pick(s) \in s
BY DEF Pick

\* The function the fold is defined by.
IsTotal(f, g, S) ==
  g = [s \in SUBSET S |-> IF s = {} THEN 0 ELSE f[Pick(s)] + g[s \ {Pick(s)}]]

\* There is one way to add f up.
LEMMA AddsOnce ==
  ASSUME NEW f, NEW S, IsFiniteSet(S), NEW g, NEW h, Adds(f, g, S), Adds(f, h, S)
  PROVE  g[S] = h[S]
<1> DEFINE F == {T \in SUBSET S : g[T] = h[T]}
<1>1. ASSUME NEW T \in SUBSET S, \A U \in SUBSET T : U # T => U \in F
      PROVE  T \in F
  <2>1. CASE T = {}
    BY <2>1 DEF Adds
  <2>2. CASE T # {}
    <3>1. Pick(T) \in T
      BY <2>2, Picked
    <3>2. g[T \ {Pick(T)}] = h[T \ {Pick(T)}]
      BY <1>1, <3>1
    <3> QED
      BY <2>2, <3>2 DEF Adds
  <2> QED
    BY <2>1, <2>2
<1>2. S \in F
  <2> HIDE DEF F
  <2> QED
    BY <1>1, SetInduction
<1> QED
  BY <1>2

\* The sum of a finite set exists: the sums of its proper subsets, which agree
\* on what they share, are put together.
LEMMA AddsExists ==
  ASSUME NEW f, NEW S, IsFiniteSet(S)
  PROVE  \E g : IsTotal(f, g, S)
<1> DEFINE Body(g, s) == IF s = {} THEN 0 ELSE f[Pick(s)] + g[s \ {Pick(s)}]
           Fix(g, T)  == g = [s \in SUBSET T |-> Body(g, s)]
           F          == {T \in SUBSET S : \E g : Fix(g, T)}
<1>1. ASSUME NEW T \in SUBSET S, \A U \in SUBSET T : U # T => U \in F
      PROVE  T \in F
  <2> DEFINE sum(U) == CHOOSE g : Fix(g, U)
  <2>1. \A U \in SUBSET T : U # T => Fix(sum(U), U)
    BY <1>1
  <2> HIDE DEF sum
  <2> DEFINE top == IF T = {} THEN 0 ELSE f[Pick(T)] + sum(T \ {Pick(T)})[T \ {Pick(T)}]
             h   == [s \in SUBSET T |-> IF s = T THEN top ELSE sum(s)[s]]
  <2>2. ASSUME NEW s \in SUBSET T
        PROVE  h[s] = Body(h, s)
    <3>1. CASE s = {}
      <4>1. CASE T = {}
        BY <3>1, <4>1
      <4>2. CASE T # {}
        <5>1. sum(s)[s] = 0
          BY <2>1, <3>1, <4>2
        <5> QED
          BY <3>1, <4>2, <5>1
      <4> QED
        BY <4>1, <4>2
    <3>2. CASE s # {} /\ s = T
      <4>1. Pick(s) \in s /\ s \ {Pick(s)} \in SUBSET T /\ s \ {Pick(s)} # T
        BY <3>2, Picked
      <4> QED
        BY <3>2, <4>1
    <3>3. CASE s # {} /\ s # T
      <4> DEFINE u == s \ {Pick(s)}
      <4>1. Pick(s) \in s /\ u \in SUBSET s /\ u \in SUBSET T /\ u # T
        BY <3>3, Picked
      <4>2. sum(s)[s] = f[Pick(s)] + sum(s)[u]
        BY <2>1, <3>3
      <4>3. Adds(f, sum(s), u) /\ Adds(f, sum(u), u)
        <5>1. Fix(sum(s), s) /\ Fix(sum(u), u)
          BY <2>1, <3>3, <4>1
        <5> HIDE DEF u
        <5>2. \A t \in SUBSET u : sum(s)[t] = Body(sum(s), t) /\ sum(u)[t] = Body(sum(u), t)
          BY <4>1, <5>1
        <5> QED
          BY <5>2 DEF Adds
      <4>4. IsFiniteSet(u)
        BY <4>1, FS_Subset
      <4>5. sum(s)[u] = sum(u)[u]
        BY <4>3, <4>4, AddsOnce
      <4> QED
        BY <3>3, <4>1, <4>2, <4>5
    <3> QED
      BY <3>1, <3>2, <3>3
  <2>3. Fix(h, T)
    BY <2>2
  <2> QED
    BY <2>3
<1>2. S \in F
  <2> HIDE DEF F
  <2> QED
    BY <1>1, SetInduction
<1> QED
  BY <1>2 DEF IsTotal

\* The sum of the model is that one, for all subsets at once.
LEMMA SumAdds ==
  ASSUME NEW f, NEW S, IsFiniteSet(S)
  PROVE  \E g : Adds(f, g, S) /\ \A T \in SUBSET S : SumFunctionOnSet(f, T) = g[T]
<1>1. ASSUME NEW T \in SUBSET S
      PROVE  \E g : IsTotal(f, g, T) /\ SumFunctionOnSet(f, T) = g[T]
  <2>1. SumFunctionOnSet(f, T) = (CHOOSE g : IsTotal(f, g, T))[T]
    BY DEF SumFunctionOnSet, FoldFunctionOnSet, MapThenFoldSet, Pick, IsTotal
  <2>2. IsFiniteSet(T)
    BY FS_Subset
  <2>3. \E g : IsTotal(f, g, T)
    BY <2>2, AddsExists
  <2> QED
    BY <2>1, <2>3
<1>2. PICK g : IsTotal(f, g, S)
  BY AddsExists
<1>3. ASSUME NEW T \in SUBSET S
      PROVE  SumFunctionOnSet(f, T) = g[T]
  <2>1. PICK h : IsTotal(f, h, T) /\ SumFunctionOnSet(f, T) = h[T]
    BY <1>1
  <2>2. Adds(f, h, T) /\ Adds(f, g, T) /\ IsFiniteSet(T)
    BY <1>2, <2>1, FS_Subset DEF Adds, IsTotal
  <2> QED
    BY <2>1, <2>2, AddsOnce
<1>4. Adds(f, g, S)
  BY <1>2 DEF Adds, IsTotal
<1> QED
  BY <1>3, <1>4

\* What the fold computes: the element it picks, and the rest.
LEMMA SumPicks ==
  ASSUME NEW f, NEW S, IsFiniteSet(S)
  PROVE  SumFunctionOnSet(f, S) = IF S = {} THEN 0
                                  ELSE f[Pick(S)] + SumFunctionOnSet(f, S \ {Pick(S)})
<1>1. PICK g : Adds(f, g, S) /\ \A T \in SUBSET S : SumFunctionOnSet(f, T) = g[T]
  BY SumAdds
<1> QED
  BY <1>1 DEF Adds

\* Nothing adds up to nothing.
LEMMA SumEmpty == \A f : SumFunctionOnSet(f, {}) = 0
BY SumPicks, FS_EmptySet

\* Integers add up to an integer.
LEMMA SumInt ==
  ASSUME NEW S, IsFiniteSet(S), NEW f, \A x \in S : f[x] \in Int
  PROVE  SumFunctionOnSet(f, S) \in Int
<1> DEFINE F == {T \in SUBSET S : SumFunctionOnSet(f, T) \in Int}
<1>1. ASSUME NEW T \in SUBSET S, \A U \in SUBSET T : U # T => U \in F
      PROVE  T \in F
  <2>1. IsFiniteSet(T) /\ (T # {} => Pick(T) \in T)
    BY FS_Subset, Picked
  <2>2. SumFunctionOnSet(f, T) = IF T = {} THEN 0
                                 ELSE f[Pick(T)] + SumFunctionOnSet(f, T \ {Pick(T)})
    BY <2>1, SumPicks
  <2>3. ASSUME T # {}
        PROVE  f[Pick(T)] \in Int /\ SumFunctionOnSet(f, T \ {Pick(T)}) \in Int
    <3>1. T \ {Pick(T)} \in F
      BY <1>1, <2>1, <2>3
    <3> QED
      BY <2>1, <2>3, <3>1
  <2> QED
    BY <2>2, <2>3
<1>2. S \in F
  <2> HIDE DEF F
  <2> QED
    BY <1>1, SetInduction
<1> QED
  BY <1>2

\* The order of the picks does not matter.
LEMMA SumRemoves ==
  ASSUME NEW S, IsFiniteSet(S), NEW f, \A x \in S : f[x] \in Int, NEW x \in S
  PROVE  SumFunctionOnSet(f, S) = f[x] + SumFunctionOnSet(f, S \ {x})
<1> DEFINE Sum(T) == SumFunctionOnSet(f, T)
           F == {T \in SUBSET S : \A y \in T : Sum(T) = f[y] + Sum(T \ {y})}
<1>0. \A T \in SUBSET S : IsFiniteSet(T) /\ Sum(T) \in Int
  <2> SUFFICES ASSUME NEW T \in SUBSET S PROVE IsFiniteSet(T) /\ Sum(T) \in Int
    OBVIOUS
  <2>1. IsFiniteSet(T)
    BY FS_Subset
  <2> QED
    BY <2>1, SumInt
<1>1. ASSUME NEW T \in SUBSET S, \A U \in SUBSET T : U # T => U \in F
      PROVE  T \in F
  <2> SUFFICES ASSUME NEW y \in T PROVE Sum(T) = f[y] + Sum(T \ {y})
    OBVIOUS
  <2> DEFINE c == Pick(T)
  <2>1. c \in T /\ Sum(T) = f[c] + Sum(T \ {c})
    BY <1>0, Picked, SumPicks
  <2> HIDE DEF c, Sum
  <2>2. CASE c # y
    <3>1. T \ {c} \in F /\ T \ {y} \in F
      BY <1>1, <2>1
    <3>2. Sum(T \ {c}) = f[y] + Sum((T \ {c}) \ {y})
      BY <2>2, <3>1
    <3>3. Sum(T \ {y}) = f[c] + Sum((T \ {y}) \ {c})
      BY <2>1, <2>2, <3>1
    <3>4. (T \ {y}) \ {c} = (T \ {c}) \ {y}
      OBVIOUS
    <3>5. f[c] \in Int /\ f[y] \in Int /\ Sum((T \ {c}) \ {y}) \in Int
      BY <1>0, <2>1
    <3>6. PICK n \in Int : n = Sum((T \ {c}) \ {y}) /\ n = Sum((T \ {y}) \ {c})
      BY <3>4, <3>5
    <3> QED
      BY <2>1, <3>2, <3>3, <3>5, <3>6
  <2> QED
    BY <2>1, <2>2
<1> HIDE DEF Sum
<1>2. S \in F
  <2> HIDE DEF F
  <2> QED
    BY <1>1, SetInduction
<1> QED
  BY <1>2 DEF Sum

\* A sum depends on the values only.
LEMMA SumCongruent ==
  ASSUME NEW S, IsFiniteSet(S), NEW f, NEW g, \A x \in S : f[x] = g[x]
  PROVE  SumFunctionOnSet(f, S) = SumFunctionOnSet(g, S)
<1> DEFINE F == {T \in SUBSET S : SumFunctionOnSet(f, T) = SumFunctionOnSet(g, T)}
<1>1. ASSUME NEW T \in SUBSET S, \A U \in SUBSET T : U # T => U \in F
      PROVE  T \in F
  <2>1. CASE T = {}
    BY <2>1, SumEmpty
  <2>2. CASE T # {}
    <3>1. IsFiniteSet(T) /\ Pick(T) \in T
      BY <2>2, FS_Subset, Picked
    <3>2. T \ {Pick(T)} \in F
      BY <1>1, <3>1
    <3>3. /\ SumFunctionOnSet(f, T) = f[Pick(T)] + SumFunctionOnSet(f, T \ {Pick(T)})
          /\ SumFunctionOnSet(g, T) = g[Pick(T)] + SumFunctionOnSet(g, T \ {Pick(T)})
      BY <2>2, <3>1, SumPicks
    <3> QED
      BY <3>1, <3>2, <3>3
  <2> QED
    BY <2>1, <2>2
<1>2. S \in F
  <2> HIDE DEF F
  <2> QED
    BY <1>1, SetInduction
<1> QED
  BY <1>2

\* One more element.
LEMMA SumInserts ==
  ASSUME NEW S, IsFiniteSet(S), NEW x, x \notin S, NEW f, \A y \in S \cup {x} : f[y] \in Int
  PROVE  SumFunctionOnSet(f, S \cup {x}) = f[x] + SumFunctionOnSet(f, S)
<1>1. IsFiniteSet(S \cup {x})
  BY FS_AddElement
<1>2. (S \cup {x}) \ {x} = S
  OBVIOUS
<1> QED
  BY <1>1, <1>2, SumRemoves

\* Sums over two sets without a common element.
LEMMA SumUnion ==
  ASSUME NEW S, IsFiniteSet(S), NEW R, IsFiniteSet(R), S \cap R = {},
         NEW f, \A x \in S \cup R : f[x] \in Int
  PROVE  SumFunctionOnSet(f, S \cup R) = SumFunctionOnSet(f, S) + SumFunctionOnSet(f, R)
<1> DEFINE Sum(T) == SumFunctionOnSet(f, T)
           F == {T \in SUBSET R : Sum(S \cup T) = Sum(S) + Sum(T)}
<1>0. Sum(S) \in Int
  BY SumInt
<1>1. ASSUME NEW T \in SUBSET R, \A U \in SUBSET T : U # T => U \in F
      PROVE  T \in F
  <2>1. CASE T = {}
    <3>1. S \cup T = S /\ Sum(T) = 0
      BY <2>1, SumEmpty
    <3> HIDE DEF Sum
    <3>2. Sum(S \cup T) = Sum(S)
      BY <3>1, Zenon
    <3>3. Sum(S \cup T) = Sum(S) + Sum(T)
      BY <1>0, <3>1, <3>2
    <3> QED
      BY <3>3
  <2>2. CASE T # {}
    <3>1. PICK x \in T : TRUE
      BY <2>2
    <3> DEFINE U == T \ {x}
    <3>2. IsFiniteSet(T) /\ IsFiniteSet(U) /\ IsFiniteSet(S \cup U)
      BY FS_Subset, FS_Union
    <3>3. Sum(T) = f[x] + Sum(U)
      BY <3>1, <3>2, SumRemoves
    <3>4. Sum(S \cup T) = f[x] + Sum(S \cup U)
      <4>1. x \notin S \cup U /\ S \cup T = (S \cup U) \cup {x}
        BY <3>1
      <4>2. \A y \in (S \cup U) \cup {x} : f[y] \in Int
        BY <3>1
      <4> HIDE DEF U
      <4> QED
        BY <3>2, <4>1, <4>2, SumInserts
    <3>5. Sum(S \cup U) = Sum(S) + Sum(U)
      BY <1>1, <3>1
    <3>6. f[x] \in Int /\ Sum(U) \in Int
      BY <3>1, <3>2, SumInt
    <3> HIDE DEF U, Sum
    <3>7. Sum(S \cup T) = Sum(S) + Sum(T)
      BY <1>0, <3>3, <3>4, <3>5, <3>6
    <3> QED
      BY <3>7
  <2> QED
    BY <2>1, <2>2
<1>2. R \in F
  <2> HIDE DEF F
  <2> QED
    BY <1>1, SetInduction
<1> QED
  BY <1>2

\* Sums are additive.
LEMMA SumPlus ==
  ASSUME NEW S, IsFiniteSet(S), NEW f, NEW g, NEW h,
         \A x \in S : f[x] \in Int /\ g[x] \in Int /\ h[x] = f[x] + g[x]
  PROVE  SumFunctionOnSet(h, S) = SumFunctionOnSet(f, S) + SumFunctionOnSet(g, S)
<1> DEFINE F == {T \in SUBSET S :
                   SumFunctionOnSet(h, T) = SumFunctionOnSet(f, T) + SumFunctionOnSet(g, T)}
<1>1. ASSUME NEW T \in SUBSET S, \A U \in SUBSET T : U # T => U \in F
      PROVE  T \in F
  <2>1. CASE T = {}
    BY <2>1, SumEmpty
  <2>2. CASE T # {}
    <3>1. PICK x \in T : TRUE
      BY <2>2
    <3>2. IsFiniteSet(T) /\ IsFiniteSet(T \ {x}) /\ \A y \in T : h[y] \in Int
      BY FS_Subset
    <3>3. /\ SumFunctionOnSet(f, T) = f[x] + SumFunctionOnSet(f, T \ {x})
          /\ SumFunctionOnSet(g, T) = g[x] + SumFunctionOnSet(g, T \ {x})
          /\ SumFunctionOnSet(h, T) = h[x] + SumFunctionOnSet(h, T \ {x})
      BY <3>1, <3>2, SumRemoves
    <3>4. SumFunctionOnSet(f, T \ {x}) \in Int /\ SumFunctionOnSet(g, T \ {x}) \in Int
      BY <3>2, SumInt
    <3>5. SumFunctionOnSet(h, T \ {x}) = SumFunctionOnSet(f, T \ {x}) + SumFunctionOnSet(g, T \ {x})
      <4>1. T \ {x} \in F
        BY <1>1, <3>1
      <4> QED
        BY <4>1
    <3> QED
      BY <3>1, <3>3, <3>4, <3>5
  <2> QED
    BY <2>1, <2>2
<1>2. S \in F
  <2> HIDE DEF F
  <2> QED
    BY <1>1, SetInduction
<1> QED
  BY <1>2

\* Sums subtract.
LEMMA SumMinus ==
  ASSUME NEW S, IsFiniteSet(S), NEW f, NEW g, NEW h,
         \A x \in S : f[x] \in Int /\ g[x] \in Int /\ h[x] = f[x] - g[x]
  PROVE  SumFunctionOnSet(h, S) = SumFunctionOnSet(f, S) - SumFunctionOnSet(g, S)
<1>1. \A x \in S : h[x] \in Int /\ f[x] = h[x] + g[x]
  OBVIOUS
<1>2. SumFunctionOnSet(f, S) = SumFunctionOnSet(h, S) + SumFunctionOnSet(g, S)
  BY <1>1, SumPlus
<1>3. SumFunctionOnSet(h, S) \in Int /\ SumFunctionOnSet(g, S) \in Int
  BY <1>1, SumInt
<1> QED
  BY <1>2, <1>3

\* Naturals add up to a natural.
LEMMA SumNat ==
  ASSUME NEW S, IsFiniteSet(S), NEW f, \A x \in S : f[x] \in Nat
  PROVE  SumFunctionOnSet(f, S) \in Nat
<1> DEFINE F == {T \in SUBSET S : SumFunctionOnSet(f, T) \in Nat}
<1>1. ASSUME NEW T \in SUBSET S, \A U \in SUBSET T : U # T => U \in F
      PROVE  T \in F
  <2>1. CASE T = {}
    BY <2>1, SumEmpty
  <2>2. CASE T # {}
    <3>1. PICK x \in T : TRUE
      BY <2>2
    <3>2. IsFiniteSet(T) /\ \A y \in T : f[y] \in Int
      BY FS_Subset
    <3>3. SumFunctionOnSet(f, T) = f[x] + SumFunctionOnSet(f, T \ {x})
      BY <3>1, <3>2, SumRemoves
    <3>4. SumFunctionOnSet(f, T \ {x}) \in Nat
      <4>1. T \ {x} \in F
        BY <1>1, <3>1
      <4> QED
        BY <4>1
    <3> QED
      BY <3>1, <3>3, <3>4
  <2> QED
    BY <2>1, <2>2
<1>2. S \in F
  <2> HIDE DEF F
  <2> QED
    BY <1>1, SetInduction
<1> QED
  BY <1>2

\* Smaller terms, smaller sum.
LEMMA SumBounds ==
  ASSUME NEW S, IsFiniteSet(S), NEW f, NEW g,
         \A x \in S : f[x] \in Int /\ g[x] \in Int /\ f[x] <= g[x]
  PROVE  SumFunctionOnSet(f, S) <= SumFunctionOnSet(g, S)
<1> DEFINE h == [x \in S |-> g[x] - f[x]]
<1>1. \A x \in S : h[x] = g[x] - f[x] /\ h[x] \in Nat
  OBVIOUS
<1> HIDE DEF h
<1>2. SumFunctionOnSet(h, S) = SumFunctionOnSet(g, S) - SumFunctionOnSet(f, S)
  BY <1>1, SumMinus
<1>3. SumFunctionOnSet(h, S) \in Nat
  BY <1>1, SumNat
<1>4. SumFunctionOnSet(f, S) \in Int /\ SumFunctionOnSet(g, S) \in Int
  BY SumInt
<1> QED
  BY <1>2, <1>3, <1>4

\* Fewer naturals, smaller sum.
LEMMA SumSubset ==
  ASSUME NEW S, IsFiniteSet(S), NEW T \in SUBSET S, NEW f, \A x \in S : f[x] \in Nat
  PROVE  SumFunctionOnSet(f, T) <= SumFunctionOnSet(f, S)
<1>1. IsFiniteSet(T) /\ IsFiniteSet(S \ T) /\ T \cap (S \ T) = {} /\ T \cup (S \ T) = S
  BY FS_Subset
<1>2. \A x \in T \cup (S \ T) : f[x] \in Int
  OBVIOUS
<1>3. SumFunctionOnSet(f, S) = SumFunctionOnSet(f, T) + SumFunctionOnSet(f, S \ T)
  BY <1>1, <1>2, SumUnion
<1>4. SumFunctionOnSet(f, T) \in Nat /\ SumFunctionOnSet(f, S \ T) \in Nat
  BY <1>1, SumNat
<1> QED
  BY <1>3, <1>4

\* Zeros add up to zero.
LEMMA SumZero ==
  ASSUME NEW S, IsFiniteSet(S), NEW f, \A x \in S : f[x] = 0
  PROVE  SumFunctionOnSet(f, S) = 0
<1> DEFINE total == SumFunctionOnSet(f, S)
<1>1. \A x \in S : f[x] \in Int /\ f[x] = f[x] + f[x]
  OBVIOUS
<1>2. total = total + total
  BY <1>1, SumPlus
<1>3. total \in Int
  BY <1>1, SumInt
<1> HIDE DEF total
<1>4. total = 0
  BY <1>2, <1>3
<1> QED
  BY <1>4 DEF total

\* What is zero outside a set need not be added up there.
LEMMA SumWithin ==
  ASSUME NEW S, IsFiniteSet(S), NEW T \in SUBSET S, NEW f, \A x \in S : f[x] \in Int,
         \A x \in S \ T : f[x] = 0
  PROVE  SumFunctionOnSet(f, S) = SumFunctionOnSet(f, T)
<1>1. IsFiniteSet(T) /\ IsFiniteSet(S \ T) /\ T \cap (S \ T) = {} /\ T \cup (S \ T) = S
  BY FS_Subset
<1>2. SumFunctionOnSet(f, S) = SumFunctionOnSet(f, T) + SumFunctionOnSet(f, S \ T)
  <2>1. \A x \in T \cup (S \ T) : f[x] \in Int
    OBVIOUS
  <2> QED
    BY <1>1, <2>1, SumUnion
<1>3. SumFunctionOnSet(f, S \ T) = 0 /\ SumFunctionOnSet(f, T) \in Int
  BY <1>1, SumZero, SumInt
<1> QED
  BY <1>2, <1>3

\* Functions that differ at one element.
LEMMA SumChanges ==
  ASSUME NEW S, IsFiniteSet(S), NEW x \in S, NEW f, NEW g,
         \A y \in S : f[y] \in Int /\ g[y] \in Int,
         \A y \in S \ {x} : f[y] = g[y]
  PROVE  SumFunctionOnSet(g, S) = SumFunctionOnSet(f, S) - f[x] + g[x]
<1>1. IsFiniteSet(S \ {x})
  BY FS_Subset
<1>2. SumFunctionOnSet(f, S) = f[x] + SumFunctionOnSet(f, S \ {x})
  BY SumRemoves
<1>3. SumFunctionOnSet(g, S) = g[x] + SumFunctionOnSet(g, S \ {x})
  BY SumRemoves
<1>4. SumFunctionOnSet(f, S \ {x}) = SumFunctionOnSet(g, S \ {x})
  BY <1>1, SumCongruent
<1>5. SumFunctionOnSet(f, S \ {x}) \in Int
  BY <1>1, SumInt
<1> QED
  BY <1>2, <1>3, <1>4, <1>5

\* The function g extends f by the element x.
Extends(f, g, x) ==
  /\ IsFiniteSet(DOMAIN f) /\ x \notin DOMAIN f /\ DOMAIN g = DOMAIN f \cup {x}
  /\ \A y \in DOMAIN g : g[y] \in Int
  /\ \A y \in DOMAIN f : f[y] = g[y]

\* The sum of the extension.
LEMMA SumExtends ==
  ASSUME NEW f, NEW g, NEW x, Extends(f, g, x)
  PROVE  /\ SumFunction(g) = SumFunction(f) + g[x]
         /\ SumFunction(f) \in Int
<1> DEFINE S == DOMAIN f
<1>0. /\ IsFiniteSet(S) /\ x \notin S /\ DOMAIN g = S \cup {x}
      /\ \A y \in S \cup {x} : g[y] \in Int
      /\ \A y \in S : f[y] = g[y]
  BY DEF Extends
<1> HIDE DEF S
<1>1. SumFunctionOnSet(g, S \cup {x}) = g[x] + SumFunctionOnSet(g, S)
  BY <1>0, SumInserts
<1>2. SumFunctionOnSet(f, S) = SumFunctionOnSet(g, S)
  BY <1>0, SumCongruent
<1>3. SumFunctionOnSet(g, S) \in Int /\ g[x] \in Int
  BY <1>0, SumInt
<1>4. SumFunction(f) = SumFunctionOnSet(f, S)
  BY Zenon DEF SumFunction, S
<1>5. SumFunction(g) = SumFunctionOnSet(g, S \cup {x})
  BY <1>0, Zenon DEF SumFunction
<1> QED
  BY <1>1, <1>2, <1>3, <1>4, <1>5

\* The elements h maps S to.
ImageOf(h, S) == {h[x] : x \in S}

\* A sum over the images of distinct elements.
LEMMA SumOverImage ==
  ASSUME NEW S, IsFiniteSet(S), NEW h, \A x, y \in S : h[x] = h[y] => x = y,
         NEW f, NEW g, \A x \in S : f[h[x]] = g[x] /\ g[x] \in Int
  PROVE  /\ IsFiniteSet(ImageOf(h, S))
         /\ SumFunctionOnSet(f, ImageOf(h, S)) = SumFunctionOnSet(g, S)
<1> DEFINE Image(T) == ImageOf(h, T)
           F == {T \in SUBSET S : /\ IsFiniteSet(Image(T))
                                  /\ SumFunctionOnSet(f, Image(T)) = SumFunctionOnSet(g, T)}
<1>1. ASSUME NEW T \in SUBSET S, \A U \in SUBSET T : U # T => U \in F
      PROVE  T \in F
  <2>1. CASE T = {}
    <3>1. Image(T) = {} /\ IsFiniteSet({})
      BY <2>1, FS_EmptySet DEF ImageOf
    <3> QED
      BY <2>1, <3>1, SumEmpty
  <2>2. CASE T # {}
    <3>1. PICK x \in T : TRUE
      BY <2>2
    <3> DEFINE U == T \ {x}
    <3>2. IsFiniteSet(T) /\ IsFiniteSet(U)
      BY FS_Subset
    <3>3. IsFiniteSet(Image(U)) /\ SumFunctionOnSet(f, Image(U)) = SumFunctionOnSet(g, U)
      <4>1. U \in F
        BY <1>1, <3>1
      <4> QED
        BY <4>1
    <3>4. /\ Image(T) = Image(U) \cup {h[x]} /\ h[x] \notin Image(U)
          /\ \A y \in Image(U) \cup {h[x]} : f[y] \in Int
      BY <3>1 DEF ImageOf
    <3>5. SumFunctionOnSet(g, T) = g[x] + SumFunctionOnSet(g, U)
      BY <3>1, <3>2, SumRemoves
    <3> HIDE DEF Image, U
    <3>6. IsFiniteSet(Image(T))
      BY <3>3, <3>4, FS_AddElement
    <3>7. SumFunctionOnSet(f, Image(T)) = f[h[x]] + SumFunctionOnSet(f, Image(U))
      BY <3>3, <3>4, SumInserts
    <3> QED
      BY <3>1, <3>3, <3>5, <3>6, <3>7
  <2> QED
    BY <2>1, <2>2
<1>2. S \in F
  <2> HIDE DEF F
  <2> QED
    BY <1>1, SetInduction
<1> QED
  BY <1>2
-----------------------------------------------------------------------------
(* The spending order and what it takes. *)

\* Bucket rows, as far as the spending order reads them.
AreBuckets(bs) ==
  /\ IsFiniteSet(DOMAIN bs) /\ DOMAIN bs \subseteq Nat
  /\ \A i \in DOMAIN bs : bs[i].expiresAt \in Nat /\ bs[i].grantedAt \in Nat

\* Spending order is a strict total order on the buckets.
LEMMA FifoOrders ==
  ASSUME NEW bs, AreBuckets(bs), NEW i \in DOMAIN bs, NEW j \in DOMAIN bs
  PROVE  /\ ~FifoByExpiry(bs, i, i)
         /\ i # j => FifoByExpiry(bs, i, j) \/ FifoByExpiry(bs, j, i)
         /\ FifoByExpiry(bs, i, j) => ~FifoByExpiry(bs, j, i)
BY DEF AreBuckets, FifoByExpiry, Never

\* What is spent before a bucket is spent before those after it.
LEMMA FifoTransitive ==
  ASSUME NEW bs, AreBuckets(bs),
         NEW i \in DOMAIN bs, NEW j \in DOMAIN bs, NEW k \in DOMAIN bs,
         FifoByExpiry(bs, i, j), FifoByExpiry(bs, j, k)
  PROVE  FifoByExpiry(bs, i, k)
BY DEF AreBuckets, FifoByExpiry, Never

\* m is spent after every other bucket of T.
IsLast(bs, T, m) == m \in T /\ \A j \in T \ {m} : FifoByExpiry(bs, j, m)

\* Some bucket of a set is spent last.
LEMMA LastExists ==
  ASSUME NEW bs, AreBuckets(bs), NEW S \in SUBSET DOMAIN bs, S # {}
  PROVE  \E m \in S : IsLast(bs, S, m)
<1> DEFINE F == {T \in SUBSET S : T # {} => \E m \in T : IsLast(bs, T, m)}
<1>1. ASSUME NEW T \in SUBSET S, \A U \in SUBSET T : U # T => U \in F
      PROVE  T \in F
  <2> SUFFICES ASSUME T # {} PROVE \E m \in T : IsLast(bs, T, m)
    OBVIOUS
  <2>1. PICK x \in T : TRUE
    OBVIOUS
  <2>2. CASE T \ {x} = {}
    BY <2>1, <2>2 DEF IsLast
  <2>3. CASE T \ {x} # {}
    <3>1. T \ {x} \in F
      BY <1>1, <2>1
    <3>2. PICK m \in T \ {x} : IsLast(bs, T \ {x}, m)
      BY <2>3, <3>1
    <3>3. CASE FifoByExpiry(bs, x, m)
      BY <3>2, <3>3 DEF IsLast
    <3>4. CASE ~FifoByExpiry(bs, x, m)
      <4>1. FifoByExpiry(bs, m, x)
        BY <2>1, <3>2, <3>4, FifoOrders
      <4>2. \A j \in T \ {x} : FifoByExpiry(bs, j, x)
        BY <2>1, <3>2, <4>1, FifoTransitive DEF IsLast
      <4> QED
        BY <2>1, <4>2 DEF IsLast
    <3> QED
      BY <3>3, <3>4
  <2> QED
    BY <2>2, <2>3
<1>2. IsFiniteSet(S)
  BY FS_Subset DEF AreBuckets
<1>3. S \in F
  <2> HIDE DEF F
  <2> QED
    BY <1>1, <1>2, SetInduction
<1> QED
  BY <1>3

\* A bucket gives no less than nothing and no more than it has.
LEMMA AllocatesWithin ==
  ASSUME NEW bs, AreBuckets(bs), NEW spendable,
         \A i \in DOMAIN bs : spendable[i] \in Nat, NEW amount \in Int
  PROVE  /\ DOMAIN AllocateFifo(bs, spendable, amount) = DOMAIN bs
         /\ \A i \in DOMAIN bs :
              /\ AllocateFifo(bs, spendable, amount)[i] \in Nat
              /\ AllocateFifo(bs, spendable, amount)[i] <= spendable[i]
<1> SUFFICES ASSUME NEW i \in DOMAIN bs
             PROVE  /\ AllocateFifo(bs, spendable, amount)[i] \in Nat
                    /\ AllocateFifo(bs, spendable, amount)[i] <= spendable[i]
  BY DEF AllocateFifo
<1>1. IsFiniteSet(Ahead(bs, i)) /\ Ahead(bs, i) \subseteq DOMAIN bs
  BY FS_Subset DEF Ahead, AreBuckets
<1>2. SumFunctionOnSet(spendable, Ahead(bs, i)) \in Nat
  BY <1>1, SumNat
<1> QED
  BY <1>2 DEF AllocateFifo

\* A set of buckets that holds, with each, all that are spent before it gives
\* what it has, up to the amount.
LEMMA AllocatesAhead ==
  ASSUME NEW bs, AreBuckets(bs), NEW spendable,
         \A i \in DOMAIN bs : spendable[i] \in Nat, NEW amount \in Nat,
         NEW S \in SUBSET DOMAIN bs, \A i \in S : Ahead(bs, i) \subseteq S
  PROVE  SumFunctionOnSet(AllocateFifo(bs, spendable, amount), S)
           = IF SumFunctionOnSet(spendable, S) < amount
             THEN SumFunctionOnSet(spendable, S) ELSE amount
<1> DEFINE alloc     == AllocateFifo(bs, spendable, amount)
           Closed(T) == \A i \in T : Ahead(bs, i) \subseteq T
           Taken(T)  == SumFunctionOnSet(alloc, T)
           Had(T)    == SumFunctionOnSet(spendable, T)
           F == {T \in SUBSET S : Closed(T) =>
                   Taken(T) = IF Had(T) < amount THEN Had(T) ELSE amount}
<1>0. IsFiniteSet(S)
  BY FS_Subset DEF AreBuckets
<1>1. ASSUME NEW T \in SUBSET S, \A U \in SUBSET T : U # T => U \in F
      PROVE  T \in F
  <2> SUFFICES ASSUME Closed(T)
               PROVE  Taken(T) = IF Had(T) < amount THEN Had(T) ELSE amount
    OBVIOUS
  <2>1. CASE T = {}
    <3>1. Taken(T) = 0 /\ Had(T) = 0
      BY <2>1, SumEmpty
    <3> QED
      BY <3>1
  <2>2. CASE T # {}
    <3>1. PICK m \in T : IsLast(bs, T, m)
      BY <2>2, LastExists
    <3> DEFINE U == T \ {m}
    <3>2. Ahead(bs, m) = U
      <4>1. \A j \in U : j \in Ahead(bs, m)
        BY <3>1 DEF IsLast, Ahead
      <4>2. m \notin Ahead(bs, m)
        BY FifoOrders DEF Ahead
      <4> QED
        BY <4>1, <4>2
    <3>3. Closed(U)
      <4> SUFFICES ASSUME NEW i \in U PROVE m \notin Ahead(bs, i)
        OBVIOUS
      <4>1. FifoByExpiry(bs, i, m)
        BY <3>1 DEF IsLast
      <4> QED
        BY <4>1, FifoOrders DEF Ahead
    <3>4. U \in F
      BY <1>1, <3>1
    <3> HIDE DEF alloc
    <3>5. Taken(U) = IF Had(U) < amount THEN Had(U) ELSE amount
      BY <3>3, <3>4
    <3>6. IsFiniteSet(T) /\ IsFiniteSet(U)
      BY <1>0, FS_Subset
    <3>7. \A i \in DOMAIN bs : alloc[i] \in Int /\ spendable[i] \in Int
      BY AllocatesWithin DEF alloc
    <3>8. Taken(T) = alloc[m] + Taken(U) /\ Had(T) = spendable[m] + Had(U)
      <4>1. \A i \in T : alloc[i] \in Int /\ spendable[i] \in Int
        BY <3>7
      <4> QED
        BY <3>6, <4>1, SumRemoves
    <3>9. Had(U) \in Nat /\ spendable[m] \in Nat
      BY <3>6, SumNat
    <3>10. alloc[m] = IF amount - Had(U) <= 0 THEN 0
                      ELSE IF spendable[m] < amount - Had(U) THEN spendable[m]
                      ELSE amount - Had(U)
      BY <3>2 DEF alloc, AllocateFifo
    <3> HIDE DEF U, Taken, Had
    <3> QED
      BY <3>5, <3>8, <3>9, <3>10
  <2> QED
    BY <2>1, <2>2
<1>2. S \in F
  <2> HIDE DEF F
  <2> QED
    BY <1>0, <1>1, SetInduction
<1> QED
  BY <1>2

\* The spending loop takes the amount it was asked for exactly, or, when the
\* buckets cannot give it, all they have.
THEOREM AllocationIsExact ==
  ASSUME NEW bs, AreBuckets(bs), NEW spendable,
         \A i \in DOMAIN bs : spendable[i] \in Nat, NEW amount \in Nat
  PROVE  AllocationTotal(AllocateFifo(bs, spendable, amount))
           = IF SumFunctionOnSet(spendable, DOMAIN bs) < amount
             THEN SumFunctionOnSet(spendable, DOMAIN bs) ELSE amount
<1>1. \A i \in DOMAIN bs : Ahead(bs, i) \subseteq DOMAIN bs
  BY DEF Ahead
<1>2. DOMAIN AllocateFifo(bs, spendable, amount) = DOMAIN bs
  BY DEF AllocateFifo
<1> QED
  BY <1>1, <1>2, AllocatesAhead DEF AllocationTotal, SumFunction

\* It reaches a bucket only when those ahead of it have given all they had.
THEOREM AllocationIsInOrder ==
  ASSUME NEW bs, AreBuckets(bs), NEW spendable,
         \A i \in DOMAIN bs : spendable[i] \in Nat, NEW amount \in Int,
         NEW b \in DOMAIN bs, AllocateFifo(bs, spendable, amount)[b] > 0,
         NEW a \in Ahead(bs, b)
  PROVE  AllocateFifo(bs, spendable, amount)[a] = spendable[a]
<1> DEFINE Had(T) == SumFunctionOnSet(spendable, T)
<1>1. a \in DOMAIN bs /\ FifoByExpiry(bs, a, b)
  BY DEF Ahead
<1>2. \A T \in SUBSET DOMAIN bs : IsFiniteSet(T) /\ Had(T) \in Nat
  <2> SUFFICES ASSUME NEW T \in SUBSET DOMAIN bs PROVE IsFiniteSet(T) /\ Had(T) \in Nat
    OBVIOUS
  <2>1. IsFiniteSet(T)
    BY FS_Subset DEF AreBuckets
  <2> QED
    BY <2>1, SumNat
<1>3. /\ Ahead(bs, a) \in SUBSET DOMAIN bs /\ Ahead(bs, b) \in SUBSET DOMAIN bs
      /\ a \notin Ahead(bs, a)
  BY <1>1, FifoOrders DEF Ahead
<1>4. Ahead(bs, a) \cup {a} \subseteq Ahead(bs, b)
  <2> SUFFICES ASSUME NEW j \in Ahead(bs, a) PROVE j \in Ahead(bs, b)
    OBVIOUS
  <2>1. j \in DOMAIN bs /\ FifoByExpiry(bs, j, a)
    BY DEF Ahead
  <2> QED
    BY <1>1, <2>1, FifoTransitive DEF Ahead
<1>5. Had(Ahead(bs, a) \cup {a}) = spendable[a] + Had(Ahead(bs, a))
  <2>1. \A y \in Ahead(bs, a) \cup {a} : spendable[y] \in Int
    BY <1>1, <1>3
  <2> QED
    BY <1>2, <1>3, <2>1, SumInserts
<1>6. Had(Ahead(bs, a) \cup {a}) <= Had(Ahead(bs, b))
  <2>1. \A y \in Ahead(bs, b) : spendable[y] \in Nat
    BY <1>3
  <2> QED
    BY <1>2, <1>3, <1>4, <2>1, SumSubset
<1>7. amount - Had(Ahead(bs, b)) > 0
  BY <1>2, <1>3 DEF AllocateFifo
<1>8. AllocateFifo(bs, spendable, amount)[a]
        = IF amount - Had(Ahead(bs, a)) <= 0 THEN 0
          ELSE IF spendable[a] < amount - Had(Ahead(bs, a)) THEN spendable[a]
          ELSE amount - Had(Ahead(bs, a))
  BY <1>1 DEF AllocateFifo
<1>9. Had(Ahead(bs, a)) \in Nat /\ Had(Ahead(bs, b)) \in Nat /\ spendable[a] \in Nat
  BY <1>1, <1>2, <1>3
<1> HIDE DEF Had
<1> QED
  BY <1>5, <1>6, <1>7, <1>8, <1>9

\* When the amount covers all that there is, every bucket gives all it has.
LEMMA AllocatesAll ==
  ASSUME NEW bs, AreBuckets(bs), NEW spendable,
         \A i \in DOMAIN bs : spendable[i] \in Nat, NEW amount \in Nat,
         SumFunctionOnSet(spendable, DOMAIN bs) <= amount, NEW b \in DOMAIN bs
  PROVE  AllocateFifo(bs, spendable, amount)[b] = spendable[b]
<1> DEFINE Had(T) == SumFunctionOnSet(spendable, T)
           A == Ahead(bs, b)
<1>1. A \in SUBSET DOMAIN bs /\ b \notin A /\ A \cup {b} \in SUBSET DOMAIN bs
  BY FifoOrders DEF Ahead
<1>2. AllocateFifo(bs, spendable, amount)[b]
        = IF amount - Had(A) <= 0 THEN 0
          ELSE IF spendable[b] < amount - Had(A) THEN spendable[b] ELSE amount - Had(A)
  BY DEF AllocateFifo
<1> HIDE DEF A
<1>3. IsFiniteSet(DOMAIN bs) /\ IsFiniteSet(A)
  BY <1>1, FS_Subset DEF AreBuckets
<1>4. Had(A \cup {b}) = spendable[b] + Had(A)
  <2>1. \A y \in A \cup {b} : spendable[y] \in Int
    BY <1>1
  <2> QED
    BY <1>1, <1>3, <2>1, SumInserts
<1>5. Had(A \cup {b}) <= Had(DOMAIN bs)
  BY <1>1, <1>3, SumSubset
<1>6. Had(A) \in Nat /\ Had(DOMAIN bs) \in Nat /\ spendable[b] \in Nat
  <2>1. \A y \in A : spendable[y] \in Nat
    BY <1>1
  <2> QED
    BY <1>3, <2>1, SumNat
<1> HIDE DEF Had
<1>7. spendable[b] + Had(A) <= amount
  BY <1>4, <1>5, <1>6 DEF Had
<1> QED
  BY <1>2, <1>6, <1>7

\* A settlement charges a hold exactly its cost, and no bucket more than the
\* hold had frozen in it.
THEOREM NarrowingChargesTheCost ==
  ASSUME NEW bs, AreBuckets(bs), NEW frozen,
         \A i \in DOMAIN bs : frozen[i] \in Nat,
         NEW actual \in Nat, actual <= SumFunctionOnSet(frozen, DOMAIN bs)
  PROVE  /\ DOMAIN NarrowAllocation(bs, frozen, actual) = DOMAIN bs
         /\ AllocationTotal(NarrowAllocation(bs, frozen, actual)) = actual
         /\ \A i \in DOMAIN bs : /\ NarrowAllocation(bs, frozen, actual)[i] \in Nat
                                 /\ NarrowAllocation(bs, frozen, actual)[i] <= frozen[i]
<1>1. SumFunctionOnSet(frozen, DOMAIN bs) \in Nat
  BY SumNat DEF AreBuckets
<1>2. AllocationTotal(NarrowAllocation(bs, frozen, actual)) = actual
  BY <1>1, AllocationIsExact DEF NarrowAllocation
<1> QED
  BY <1>2, AllocatesWithin DEF NarrowAllocation

\* What survives a boundary is part of what was carried over it.
LEMMA RolloverWithin ==
  ASSUME NEW policy \in RolloverPolicies, NEW points \in Nat, NEW allowance \in Nat,
         NEW carried \in Nat
  PROVE  /\ RolloverAmount(policy, points, allowance, carried) \in Nat
         /\ RolloverAmount(policy, points, allowance, carried) <= carried
<1> DEFINE cap == (allowance * points) \div 10000
<1>1. cap \in Nat
  <2>1. allowance * points \in Nat
    OBVIOUS
  <2>2. \A n \in Nat : n \div 10000 \in Nat
    OBVIOUS
  <2> QED
    BY <2>1, <2>2
<1> HIDE DEF cap
<1>2. RolloverAmount(policy, points, allowance, carried)
        = IF carried <= 0 \/ policy = "none" THEN 0
          ELSE IF policy = "full" THEN carried
          ELSE IF points <= 0 THEN 0
          ELSE IF carried < cap THEN carried ELSE cap
  BY DEF RolloverAmount, cap
<1> QED
  BY <1>1, <1>2

\* Carrying less over never keeps more.
LEMMA RolloverMonotone ==
  ASSUME NEW policy \in RolloverPolicies, NEW points \in Nat, NEW allowance \in Nat,
         NEW m \in Nat, NEW n \in Nat, m <= n
  PROVE  RolloverAmount(policy, points, allowance, m)
           <= RolloverAmount(policy, points, allowance, n)
<1> DEFINE cap == (allowance * points) \div 10000
<1>1. cap \in Nat
  <2>1. allowance * points \in Nat
    OBVIOUS
  <2>2. \A k \in Nat : k \div 10000 \in Nat
    OBVIOUS
  <2> QED
    BY <2>1, <2>2
<1> HIDE DEF cap
<1>2. \A k \in Nat : RolloverAmount(policy, points, allowance, k)
        = IF k <= 0 \/ policy = "none" THEN 0
          ELSE IF policy = "full" THEN k
          ELSE IF points <= 0 THEN 0
          ELSE IF k < cap THEN k ELSE cap
  BY DEF RolloverAmount, cap
<1> QED
  BY <1>1, <1>2
=============================================================================
