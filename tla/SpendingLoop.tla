---------------------------- MODULE SpendingLoop ----------------------------
(***************************************************************************)
(* allocateFifo as the code runs it: the buckets are sorted and a loop     *)
(* takes from one after the other until nothing is outstanding.  It is     *)
(* checked to compute CreditPolicy!AllocateFifo, the closed form the       *)
(* ledger is modelled (and proved) with, over every small set of buckets;  *)
(* and so is the narrowing of what it froze.                               *)
(*                                                                         *)
(* Source: packages/entitlements/src/credit-policy.ts.                     *)
(***************************************************************************)
EXTENDS CreditPolicy, Sequences

CONSTANTS Ids,          \* bucket ids
          Expiries,     \* the expiresAt values to try, Never among them
          GrantDates,   \* the grantedAt values to try
          Amounts       \* spendable credits and amounts to take

ASSUME LoopAssumption ==
  /\ Ids \subseteq Nat /\ IsFiniteSet(Ids)
  /\ Expiries \subseteq Nat /\ GrantDates \subseteq Nat /\ Amounts \subseteq Nat

VARIABLES
  bs,            \* the dates of each bucket
  spendable,     \* what each bucket can give
  amount,        \* amountMilliCredits
  ordered,       \* the buckets in spending order
  position,      \* the loop's index into ordered
  outstanding,   \* what is still to be taken
  allocations    \* what was taken from each bucket

inputs == <<bs, spendable, amount, ordered>>
loopVars == <<bs, spendable, amount, ordered, position, outstanding, allocations>>

\* What the sort returns: every bucket after those it is to be spent after.
Sorted(b, s) == \A p, q \in DOMAIN s : p < q => FifoByExpiry(b, s[p], s[q])

LoopInit ==
  /\ bs \in [Ids -> [expiresAt : Expiries, grantedAt : GrantDates]]
  /\ ordered \in [1..Cardinality(Ids) -> Ids] /\ Sorted(bs, ordered)
  /\ spendable \in [Ids -> Amounts]
  /\ amount \in Amounts
  /\ position = 1
  /\ outstanding = amount
  /\ allocations = [i \in Ids |-> 0]

Running == position <= Len(ordered) /\ outstanding > 0

\* A bucket with nothing spendable is passed over.
Skip ==
  /\ Running
  /\ spendable[ordered[position]] <= 0
  /\ position' = position + 1
  /\ UNCHANGED <<inputs, outstanding, allocations>>

\* Mutant: the last bucket gives all it has.
TakeAll ==
  LET i == ordered[position]
  IN  /\ Running
      /\ spendable[i] > 0
      /\ allocations' = [allocations EXCEPT ![i] = spendable[i]]
      /\ outstanding' = outstanding - spendable[i]
      /\ position' = position + 1
      /\ UNCHANGED inputs

\* The loop body.
Take ==
  LET i == ordered[position]
      take == IF spendable[i] < outstanding THEN spendable[i] ELSE outstanding
  IN  /\ Running
      /\ spendable[i] > 0
      /\ allocations' = [allocations EXCEPT ![i] = take]
      /\ outstanding' = outstanding - take
      /\ position' = position + 1
      /\ UNCHANGED inputs

LoopNext == Skip \/ Take

LoopSpec == LoopInit /\ [][LoopNext]_loopVars

Done == ~Running

\* The loop ends with the closed form: each bucket gave what it could of what
\* the buckets before it left, and the shortfall is what nobody could give.
LoopComputesAllocation ==
  Done => /\ allocations = AllocateFifo(bs, spendable, amount)
          /\ outstanding = Shortfall(allocations, amount)

\* Settling for less than a hold charges exactly the cost, from the buckets the
\* hold froze, each within what it froze there; and a bucket gives its whole
\* share before the next in spending order gives anything.
NarrowingIsExact ==
  Done =>
    \A actual \in 0..AllocationTotal(allocations) :
      LET charge == NarrowAllocation(bs, allocations, actual)
      IN  /\ AllocationTotal(charge) = actual
          /\ \A i \in Ids : charge[i] <= allocations[i]
          /\ \A p, q \in 1..Len(ordered) :
               p < q /\ charge[ordered[q]] > 0 =>
                 charge[ordered[p]] = allocations[ordered[p]]
=============================================================================
