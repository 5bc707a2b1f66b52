-------------------------- MODULE SpendingLoopProofs --------------------------
(***************************************************************************)
(* The loop of allocateFifo computes the closed form the ledger is         *)
(* modelled with, for every finite set of buckets, all their dates and     *)
(* every amount.                                                           *)
(*                                                                         *)
(* The invariant is about the buckets visited so far.  The sort makes them *)
(* the buckets spent before the one at hand, so what is outstanding is     *)
(* the amount less what they could give, and what each has given is its    *)
(* share.  When the loop ends early, the buckets it did not visit have no  *)
(* share: the visited ones are ahead of them and could give it all.        *)
(***************************************************************************)
EXTENDS SpendingLoop, CreditPolicyProofs

\* The buckets the loop has passed, and what they could give.
Visited == {ordered[k] : k \in 1..(position - 1)}

Had == SumFunctionOnSet(spendable, Visited)

\* What the loop reads, and never writes.
Inputs ==
  /\ bs \in [Ids -> [expiresAt : Nat, grantedAt : Nat]]
  /\ spendable \in [Ids -> Nat]
  /\ amount \in Nat
  /\ ordered \in [1..Cardinality(Ids) -> Ids]
  /\ Sorted(bs, ordered)

LoopInv ==
  /\ Inputs
  /\ position \in 1..(Cardinality(Ids) + 1)
  /\ outstanding = IF Had < amount THEN amount - Had ELSE 0
  /\ allocations \in [Ids -> Nat]
  /\ \A i \in Visited : allocations[i] = AllocateFifo(bs, spendable, amount)[i]
  /\ \A i \in Ids \ Visited : allocations[i] = 0

\* The order lists every bucket once.
LEMMA OrderIsWhole ==
  ASSUME Inputs
  PROVE  /\ Cardinality(Ids) \in Nat
         /\ ordered \in Seq(Ids) /\ Len(ordered) = Cardinality(Ids)
         /\ AreBuckets(bs) /\ DOMAIN bs = Ids
         /\ \A p, q \in 1..Cardinality(Ids) : ordered[p] = ordered[q] => p = q
         /\ \A i \in Ids : \E k \in 1..Cardinality(Ids) : ordered[k] = i
<1> DEFINE n == Cardinality(Ids)
<1>1. IsFiniteSet(Ids) /\ n \in Nat
  BY LoopAssumption, FS_CardinalityType
<1>2. AreBuckets(bs) /\ DOMAIN bs = Ids
  BY LoopAssumption DEF Inputs, AreBuckets
<1>3. ordered \in Seq(Ids) /\ Len(ordered) = n
  BY <1>1 DEF Inputs
<1>4. \A p, q \in 1..n : p < q => ordered[p] # ordered[q]
  <2> SUFFICES ASSUME NEW p \in 1..n, NEW q \in 1..n, p < q PROVE ordered[p] # ordered[q]
    OBVIOUS
  <2>1. FifoByExpiry(bs, ordered[p], ordered[q]) /\ ordered[p] \in DOMAIN bs
    BY <1>2 DEF Inputs, Sorted
  <2> QED
    BY <1>2, <2>1, FifoOrders
<1>5. \A p, q \in 1..n : ordered[p] = ordered[q] => p = q
  BY <1>1, <1>4
<1>6. ordered \in Injection(1..n, Ids)
  BY <1>5 DEF Inputs, Injection, IsInjective
<1>7. Cardinality(1..n) = n
  BY <1>1, FS_Interval
<1>8. ordered \in Surjection(1..n, Ids)
  BY <1>1, <1>6, <1>7, FS_Injection
<1> QED
  BY <1>1, <1>2, <1>3, <1>5, <1>8 DEF Surjection

\* There is an order to begin with: the buckets of every table can be sorted.
LEMMA OrderExists ==
  ASSUME NEW b, AreBuckets(b), NEW S \in SUBSET DOMAIN b
  PROVE  \E s \in [1..Cardinality(S) -> S] : Sorted(b, s)
<1> DEFINE F == {T \in SUBSET S : \E s \in [1..Cardinality(T) -> T] : Sorted(b, s)}
<1>0. IsFiniteSet(S)
  BY FS_Subset DEF AreBuckets
<1>1. ASSUME NEW T \in SUBSET S, \A U \in SUBSET T : U # T => U \in F
      PROVE  \E s \in [1..Cardinality(T) -> T] : Sorted(b, s)
  <2>1. CASE T = {}
    <3>1. 1..Cardinality(T) = {}
      BY <2>1, FS_EmptySet
    <3> DEFINE s == [k \in {} |-> k]
    <3>2. s \in [1..Cardinality(T) -> T]
      BY <3>1
    <3>3. Sorted(b, s)
      BY DEF Sorted
    <3> QED
      BY <3>2, <3>3
  <2>2. CASE T # {}
    <3>1. PICK m \in T : IsLast(b, T, m)
      BY <2>2, LastExists
    <3> DEFINE U == T \ {m}
               n == Cardinality(U)
    <3>2. IsFiniteSet(T)
      BY <1>0, FS_Subset
    <3>3. n \in Nat /\ Cardinality(T) = n + 1
      <4>1. IsFiniteSet(U) /\ Cardinality(U) = Cardinality(T) - 1 /\ Cardinality(T) \in Nat
        BY <3>1, <3>2, FS_RemoveElement, FS_CardinalityType
      <4>2. n \in Nat
        BY <4>1, FS_CardinalityType
      <4> QED
        BY <4>1, <4>2
    <3>4. U \in F
      BY <1>1, <3>1
    <3>5. PICK s \in [1..n -> U] : Sorted(b, s)
      BY <3>4
    <3> DEFINE t == [k \in 1..(n + 1) |-> IF k = n + 1 THEN m ELSE s[k]]
    <3> HIDE DEF n
    <3>6. t \in [1..Cardinality(T) -> T]
      BY <3>1, <3>3, <3>5
    <3>7. ASSUME NEW p \in 1..(n + 1), NEW q \in 1..(n + 1), p < q
          PROVE  FifoByExpiry(b, t[p], t[q])
      <4>1. p \in 1..n /\ t[p] = s[p] /\ s[p] \in U
        BY <3>3, <3>5, <3>7
      <4>2. CASE q = n + 1
        BY <3>1, <4>1, <4>2 DEF IsLast
      <4>3. CASE q # n + 1
        <5>1. q \in 1..n /\ t[q] = s[q]
          BY <3>3, <4>3
        <5> QED
          BY <3>5, <3>7, <4>1, <5>1 DEF Sorted
      <4> QED
        BY <4>2, <4>3
    <3>8. Sorted(b, t)
      BY <3>7 DEF Sorted
    <3> QED
      BY <3>6, <3>8
  <2> QED
    BY <2>1, <2>2
<1>2. S \in F
  <2>1. \A T \in SUBSET S : (\A U \in SUBSET T : U # T => U \in F) => T \in F
    BY <1>1
  <2> HIDE DEF F
  <2> QED
    BY <1>0, <2>1, SetInduction
<1> QED
  BY <1>2

\* The buckets spent before one are those the order lists before it.
LEMMA AheadInOrder ==
  ASSUME Inputs, NEW p \in 1..Cardinality(Ids)
  PROVE  Ahead(bs, ordered[p]) = {ordered[k] : k \in 1..(p - 1)}
<1> DEFINE n == Cardinality(Ids)
<1>1. n \in Nat /\ AreBuckets(bs) /\ DOMAIN bs = Ids
  BY OrderIsWhole
<1>2. ordered[p] \in Ids
  BY DEF Inputs
<1>3. ASSUME NEW k \in 1..(p - 1)
      PROVE  ordered[k] \in Ahead(bs, ordered[p])
  <2>1. k \in 1..n /\ k < p
    BY <1>1
  <2> QED
    BY <1>1, <2>1 DEF Inputs, Sorted, Ahead
<1>4. ASSUME NEW i \in Ahead(bs, ordered[p])
      PROVE  \E k \in 1..(p - 1) : ordered[k] = i
  <2>1. i \in Ids /\ FifoByExpiry(bs, i, ordered[p])
    BY <1>1 DEF Ahead
  <2>2. PICK k \in 1..n : ordered[k] = i
    BY <2>1, OrderIsWhole
  <2>3. k # p
    BY <1>1, <1>2, <2>1, <2>2, FifoOrders
  <2>4. ~(p < k)
    <3>1. p < k => FifoByExpiry(bs, ordered[p], i)
      BY <2>2 DEF Inputs, Sorted
    <3> QED
      BY <1>1, <1>2, <2>1, <3>1, FifoOrders
  <2>5. k \in 1..(p - 1)
    BY <1>1, <2>3, <2>4
  <2> QED
    BY <2>2, <2>5
<1> QED
  BY <1>3, <1>4

\* What the buckets passed could give is a natural.
LEMMA HadNat ==
  ASSUME Inputs, position \in 1..(Cardinality(Ids) + 1)
  PROVE  /\ Visited \subseteq Ids /\ IsFiniteSet(Visited)
         /\ Had \in Nat
<1>1. Cardinality(Ids) \in Nat
  BY OrderIsWhole
<1>2. Visited \subseteq Ids
  BY <1>1 DEF Visited, Inputs
<1>3. IsFiniteSet(Visited)
  BY <1>2, LoopAssumption, FS_Subset
<1>4. \A i \in Visited : spendable[i] \in Nat
  BY <1>2 DEF Inputs
<1> QED
  BY <1>2, <1>3, <1>4, SumNat DEF Had

LEMMA LoopInvInit == LoopInit => LoopInv
<1> SUFFICES ASSUME LoopInit PROVE LoopInv
  OBVIOUS
<1>1. Inputs
  BY LoopAssumption DEF LoopInit, Inputs
<1>2. Visited = {} /\ Had = 0
  <2>1. Visited = {}
    BY DEF LoopInit, Visited
  <2> QED
    BY <2>1, SumEmpty DEF Had
<1>3. Cardinality(Ids) \in Nat
  BY <1>1, OrderIsWhole
<1> QED
  BY <1>1, <1>2, <1>3 DEF LoopInit, LoopInv, Inputs

\* The body of the loop, whether the bucket at hand gives anything or not.
Gives(i) == IF spendable[i] < outstanding THEN spendable[i] ELSE outstanding

LEMMA BodyGives ==
  ASSUME LoopInv, LoopNext
  PROVE  /\ Running /\ UNCHANGED inputs /\ position' = position + 1
         /\ outstanding' = outstanding - Gives(ordered[position])
         /\ allocations' \in [Ids -> Nat]
         /\ allocations'[ordered[position]] = Gives(ordered[position])
         /\ \A i \in Ids \ {ordered[position]} : allocations'[i] = allocations[i]
<1>1. Running /\ UNCHANGED inputs /\ position' = position + 1
  BY DEF LoopNext, Skip, Take
<1>2. /\ position \in 1..Cardinality(Ids) /\ outstanding > 0
      /\ Had \in Nat /\ amount \in Nat
  <2>1. Had \in Nat /\ amount \in Nat
    BY HadNat DEF LoopInv, Inputs
  <2>2. Cardinality(Ids) \in Nat /\ Len(ordered) = Cardinality(Ids)
    BY OrderIsWhole DEF LoopInv
  <2> QED
    BY <1>1, <2>1, <2>2 DEF LoopInv, Running
<1>3. outstanding \in Nat
  BY <1>2 DEF LoopInv
<1>4. PICK i \in Ids : i = ordered[position]
  BY <1>2 DEF LoopInv, Inputs
<1>5. spendable[i] \in Nat
  BY DEF LoopInv, Inputs
<1>6. Gives(i) \in Nat
  BY <1>3, <1>5 DEF Gives
<1>7. CASE Skip
  <2>1. i \notin Visited
    <3>1. \A k \in 1..(position - 1) : k \in 1..Cardinality(Ids) /\ k # position
      BY <1>2, OrderIsWhole DEF LoopInv
    <3> QED
      BY <1>2, <1>4, <3>1, OrderIsWhole DEF LoopInv, Visited
  <2>2. allocations[i] = 0 /\ spendable[i] = 0
    BY <1>4, <1>5, <1>7, <2>1 DEF LoopInv, Skip
  <2>3. Gives(i) = 0
    BY <1>2, <1>3, <2>2 DEF Gives
  <2> QED
    BY <1>1, <1>3, <1>4, <1>7, <2>2, <2>3 DEF Skip, LoopInv
<1>8. CASE Take
  <2>1. /\ allocations' = [allocations EXCEPT ![i] = Gives(i)]
        /\ outstanding' = outstanding - Gives(i)
    BY <1>4, <1>8 DEF Take, Gives
  <2> QED
    BY <1>1, <1>4, <1>6, <2>1 DEF LoopInv
<1> QED
  BY <1>7, <1>8 DEF LoopNext

LEMMA LoopInvStep ==
  ASSUME LoopInv, [LoopNext]_loopVars
  PROVE  LoopInv'
<1>1. CASE UNCHANGED loopVars
  BY <1>1 DEF loopVars, LoopInv, Inputs, Had, Visited
<1>2. CASE LoopNext
  <2> DEFINE n == Cardinality(Ids)
             alloc == AllocateFifo(bs, spendable, amount)
  <2>1. /\ Running /\ UNCHANGED inputs /\ position' = position + 1
        /\ outstanding' = outstanding - Gives(ordered[position])
        /\ allocations' \in [Ids -> Nat]
        /\ allocations'[ordered[position]] = Gives(ordered[position])
        /\ \A j \in Ids \ {ordered[position]} : allocations'[j] = allocations[j]
    BY <1>2, BodyGives
  <2>2. /\ n \in Nat /\ Len(ordered) = n /\ AreBuckets(bs) /\ DOMAIN bs = Ids
        /\ position \in 1..n /\ outstanding > 0 /\ Inputs
    BY <2>1, OrderIsWhole DEF LoopInv, Running
  <2>3. PICK i \in Ids : i = ordered[position]
    BY <2>2 DEF Inputs
  <2>4. Inputs'
    BY <2>1, <2>2 DEF Inputs, inputs
  <2>5. Ahead(bs, i) = Visited
    BY <2>2, <2>3, AheadInOrder DEF Visited
  <2>6. i \notin Visited
    BY <2>2, <2>3, <2>5, FifoOrders DEF Ahead
  <2>7. Visited' = Visited \cup {i}
    <3>1. 1..((position + 1) - 1) = 1..(position - 1) \cup {position}
      BY <2>2
    <3>2. Visited' = {ordered[k] : k \in 1..((position + 1) - 1)}
      BY <2>1 DEF Visited, inputs
    <3> QED
      BY <2>3, <3>1, <3>2 DEF Visited
  <2>8. /\ Had' = spendable[i] + Had /\ Had \in Nat
        /\ spendable[i] \in Nat /\ amount \in Nat
    <3>1. IsFiniteSet(Visited) /\ Had \in Nat /\ Visited \subseteq Ids
      BY HadNat DEF LoopInv
    <3>2. \A j \in Visited \cup {i} : spendable[j] \in Int
      BY <2>2, <3>1 DEF Inputs
    <3>3. SumFunctionOnSet(spendable, Visited \cup {i}) = spendable[i] + Had
      BY <2>6, <3>1, <3>2, SumInserts DEF Had
    <3>4. Had' = SumFunctionOnSet(spendable, Visited \cup {i})
      BY <2>1, <2>7 DEF Had, inputs
    <3> QED
      BY <2>2, <3>1, <3>3, <3>4 DEF Inputs
  <2>9. outstanding = amount - Had /\ Had < amount
    BY <2>2, <2>8 DEF LoopInv
  <2>10. outstanding' = IF Had' < amount' THEN amount' - Had' ELSE 0
    BY <2>1, <2>3, <2>8, <2>9 DEF Gives, inputs
  <2>11. alloc[i] = Gives(i)
    <3>1. alloc[i] = IF amount - Had <= 0 THEN 0
                     ELSE IF spendable[i] < amount - Had THEN spendable[i] ELSE amount - Had
      BY <2>2, <2>5 DEF AllocateFifo, Had
    <3> QED
      BY <2>8, <2>9, <3>1 DEF Gives
  <2>12. UNCHANGED alloc
    BY <2>1 DEF inputs
  <2> HIDE DEF alloc
  <2>13. \A j \in Visited' : allocations'[j] = alloc'[j]
    <3>1. \A j \in Visited : allocations[j] = alloc[j] /\ j # i /\ j \in Ids
      BY <2>6, HadNat DEF LoopInv, alloc
    <3> QED
      BY <2>1, <2>3, <2>7, <2>11, <2>12, <3>1
  <2>14. \A j \in Ids \ Visited' : allocations'[j] = 0
    BY <2>1, <2>3, <2>7 DEF LoopInv
  <2>15. position' \in 1..(n + 1)
    BY <2>1, <2>2
  <2> QED
    BY <2>1, <2>4, <2>10, <2>13, <2>14, <2>15 DEF LoopInv, alloc
<1> QED
  BY <1>1, <1>2

\* When the loop has ended every bucket has given its share.
LEMMA LoopEnds ==
  ASSUME LoopInv, Done
  PROVE  /\ allocations = AllocateFifo(bs, spendable, amount)
         /\ outstanding = Shortfall(allocations, amount)
<1> DEFINE n == Cardinality(Ids)
           alloc == AllocateFifo(bs, spendable, amount)
           All == SumFunctionOnSet(spendable, Ids)
<1>1. /\ n \in Nat /\ Len(ordered) = n /\ AreBuckets(bs) /\ DOMAIN bs = Ids /\ Inputs
      /\ IsFiniteSet(Visited) /\ Visited \subseteq Ids /\ IsFiniteSet(Ids)
      /\ Had \in Nat /\ amount \in Nat /\ \A i \in Ids : spendable[i] \in Nat
  BY OrderIsWhole, HadNat, LoopAssumption DEF LoopInv, Inputs
<1>2. Had <= All /\ All \in Nat
  BY <1>1, SumSubset, SumNat DEF Had
<1>3. \/ position = n + 1
      \/ outstanding = 0 /\ Had >= amount
  BY <1>1 DEF LoopInv, Done, Running
<1>4. position = n + 1 => Visited = Ids
  <2> SUFFICES ASSUME position = n + 1, NEW i \in Ids PROVE i \in Visited
    BY <1>1
  <2>1. 1..n = 1..(position - 1)
    BY <1>1
  <2>2. PICK k \in 1..n : ordered[k] = i
    BY <1>1, OrderIsWhole
  <2> QED
    BY <2>1, <2>2 DEF Visited
<1>5. \A i \in Ids : allocations[i] = alloc[i]
  <2> SUFFICES ASSUME NEW i \in Ids PROVE allocations[i] = alloc[i]
    OBVIOUS
  <2>1. CASE i \in Visited
    BY <2>1 DEF LoopInv
  <2>2. CASE i \notin Visited
    <3>1. Had >= amount /\ allocations[i] = 0
      BY <1>3, <1>4, <2>2 DEF LoopInv
    <3>2. PICK p \in 1..n : ordered[p] = i
      BY <1>1, OrderIsWhole
    <3>3. ~(p <= position - 1)
      BY <2>2, <3>2 DEF Visited
    <3>4. 1..(position - 1) \subseteq 1..(p - 1)
      BY <1>1, <3>3 DEF LoopInv
    <3>5. Visited \subseteq Ahead(bs, i)
      BY <1>1, <3>2, <3>4, AheadInOrder DEF Visited
    <3>6. Ahead(bs, i) \subseteq Ids /\ IsFiniteSet(Ahead(bs, i))
      BY <1>1, FS_Subset DEF Ahead
    <3>7. /\ Had <= SumFunctionOnSet(spendable, Ahead(bs, i))
          /\ SumFunctionOnSet(spendable, Ahead(bs, i)) \in Nat
      BY <1>1, <3>5, <3>6, SumSubset, SumNat DEF Had
    <3>8. alloc[i] = IF amount - SumFunctionOnSet(spendable, Ahead(bs, i)) <= 0 THEN 0
                     ELSE IF spendable[i] < amount - SumFunctionOnSet(spendable, Ahead(bs, i))
                     THEN spendable[i] ELSE amount - SumFunctionOnSet(spendable, Ahead(bs, i))
      BY <1>1 DEF AllocateFifo
    <3> QED
      BY <1>1, <3>1, <3>7, <3>8
  <2> QED
    BY <2>1, <2>2
<1>6. allocations = alloc
  <2>1. allocations \in [Ids -> Nat]
    BY DEF LoopInv
  <2>2. alloc = [i \in Ids |-> alloc[i]]
    BY <1>1 DEF AllocateFifo
  <2> HIDE DEF alloc
  <2> QED
    BY <1>5, <2>1, <2>2
<1>7. AllocationTotal(alloc) = IF All < amount THEN All ELSE amount
  BY <1>1, AllocationIsExact
<1>8. outstanding = amount - AllocationTotal(alloc)
  <2>1. position = n + 1 => Had = All
    BY <1>4 DEF Had
  <2>2. outstanding = IF Had < amount THEN amount - Had ELSE 0
    BY DEF LoopInv
  <2> HIDE DEF All, alloc
  <2> QED
    BY <1>1, <1>2, <1>3, <1>7, <2>1, <2>2
<1> QED
  BY <1>6, <1>8 DEF Shortfall

\* A settlement after the loop: it charges the cost, within what was frozen and
\* in spending order.
LEMMA LoopNarrows ==
  ASSUME LoopInv, Done, NEW actual \in 0..AllocationTotal(allocations)
  PROVE  LET charge == NarrowAllocation(bs, allocations, actual)
         IN  /\ AllocationTotal(charge) = actual
             /\ \A i \in Ids : charge[i] <= allocations[i]
             /\ \A p, q \in 1..Len(ordered) :
                  p < q /\ charge[ordered[q]] > 0 =>
                    charge[ordered[p]] = allocations[ordered[p]]
<1> DEFINE charge == NarrowAllocation(bs, allocations, actual)
<1>1. /\ AreBuckets(bs) /\ DOMAIN bs = Ids /\ Len(ordered) = Cardinality(Ids)
      /\ Inputs /\ IsFiniteSet(Ids) /\ \A i \in Ids : allocations[i] \in Nat
  BY OrderIsWhole, LoopAssumption DEF LoopInv
<1>2. AllocationTotal(allocations) = SumFunctionOnSet(allocations, Ids)
  BY DEF LoopInv, AllocationTotal, SumFunction
<1>3. SumFunctionOnSet(allocations, Ids) \in Nat
  BY <1>1, SumNat
<1>4. actual \in Nat /\ actual <= SumFunctionOnSet(allocations, Ids)
  BY <1>2, <1>3
<1>5. AllocationTotal(charge) = actual /\ \A i \in Ids : charge[i] <= allocations[i]
  BY <1>1, <1>4, NarrowingChargesTheCost
<1>6. ASSUME NEW p \in 1..Len(ordered), NEW q \in 1..Len(ordered),
             p < q, charge[ordered[q]] > 0
      PROVE  charge[ordered[p]] = allocations[ordered[p]]
  <2>1. ordered[p] \in Ids /\ ordered[q] \in Ids /\ FifoByExpiry(bs, ordered[p], ordered[q])
    BY <1>1, <1>6 DEF Inputs, Sorted
  <2>2. ordered[p] \in Ahead(bs, ordered[q])
    BY <1>1, <2>1 DEF Ahead
  <2> QED
    BY <1>1, <1>4, <1>6, <2>1, <2>2, AllocationIsInOrder DEF NarrowAllocation
<1> QED
  BY <1>5, <1>6

\* The invariant of the loop.
THEOREM LoopInvHolds == LoopSpec => []LoopInv
<1>1. LoopInit => LoopInv
  BY LoopInvInit
<1>2. LoopInv /\ [LoopNext]_loopVars => LoopInv'
  BY LoopInvStep
<1> QED
  BY <1>1, <1>2, PTL DEF LoopSpec

\* allocateFifo's loop ends with the closed form of CreditPolicy and returns its
\* shortfall, whatever the buckets, their dates and the amount.
THEOREM LoopIsAllocateFifo == LoopSpec => []LoopComputesAllocation
<1>1. LoopInv => LoopComputesAllocation
  BY LoopEnds DEF LoopComputesAllocation
<1> QED
  BY <1>1, LoopInvHolds, PTL

\* narrowAllocation charges what the loop froze for exactly the cost, bucket by
\* bucket in spending order and never more than the bucket froze.
THEOREM LoopNarrowsExactly == LoopSpec => []NarrowingIsExact
<1>1. LoopInv => NarrowingIsExact
  BY LoopNarrows DEF NarrowingIsExact
<1> QED
  BY <1>1, LoopInvHolds, PTL
=============================================================================
