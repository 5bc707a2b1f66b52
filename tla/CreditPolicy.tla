---------------------------- MODULE CreditPolicy ----------------------------
(***************************************************************************)
(* The pure rules of the credit ledger: in which order buckets are spent,  *)
(* how an amount is taken from them, how a settlement narrows a frozen     *)
(* hold, how much survives a cycle boundary, and when a grant lapses.      *)
(*                                                                         *)
(* Source: packages/entitlements/src/credit-policy.ts.                     *)
(*                                                                         *)
(* Bucket ids are naturals; amounts are naturals (milli-credits).  A date  *)
(* is a positive natural and Never stands for a null expiresAt.            *)
(***************************************************************************)
EXTENDS Integers, FiniteSets, Functions

Never == 0

\* Mutant: first granted, first spent.
FifoByGrant(bs, i, j) ==
  \/ bs[i].grantedAt < bs[j].grantedAt
  \/ bs[i].grantedAt = bs[j].grantedAt /\ i < j

\* Bucket i is spent before bucket j: dated before undated, then the sooner
\* expiry, then the older grant, then the id.
FifoByExpiry(bs, i, j) ==
  LET x == bs[i].expiresAt
      y == bs[j].expiresAt
  IN  \/ x # Never /\ y = Never
      \/ x # Never /\ y # Never /\ x < y
      \/ /\ x = y
         /\ \/ bs[i].grantedAt < bs[j].grantedAt
            \/ bs[i].grantedAt = bs[j].grantedAt /\ i < j

\* The buckets the spending loop visits before it reaches bucket i.
Ahead(bs, i) == {j \in DOMAIN bs : FifoByExpiry(bs, j, i)}

\* Mutant: the loop stops at the first bucket that gives anything.
AllocateFirst(bs, spendable, amount) ==
  [i \in DOMAIN bs |->
     IF amount <= 0 \/ SumFunctionOnSet(spendable, Ahead(bs, i)) > 0 THEN 0
     ELSE IF spendable[i] < amount THEN spendable[i] ELSE amount]

\* What the loop takes from each bucket.  When it reaches bucket i, its
\* `outstanding` is the amount less everything the buckets ahead could give.
AllocateFifo(bs, spendable, amount) ==
  [i \in DOMAIN bs |->
     LET outstanding == amount - SumFunctionOnSet(spendable, Ahead(bs, i))
     IN  IF outstanding <= 0 THEN 0
         ELSE IF spendable[i] < outstanding THEN spendable[i] ELSE outstanding]

\* Mutant: the whole hold is charged, whatever the cost.
NarrowNothing(bs, frozen, actual) == frozen

\* A frozen allocation, reduced to a smaller total in the same order.
NarrowAllocation(bs, frozen, actual) == AllocateFifo(bs, frozen, actual)

AllocationTotal(alloc) == SumFunction(alloc)

Shortfall(alloc, amount) == amount - AllocationTotal(alloc)

RolloverPolicies == {"none", "capped", "full"}

\* How much of a carried balance survives a cycle boundary.
RolloverAmount(policy, capBasisPoints, allowance, carried) ==
  LET cap == (allowance * capBasisPoints) \div 10000
  IN  IF carried <= 0 \/ policy = "none" THEN 0
      ELSE IF policy = "full" THEN carried
      ELSE IF capBasisPoints <= 0 THEN 0
      ELSE IF carried < cap THEN carried ELSE cap

\* When a bucket granted at t lapses; zero months of validity is never.
ExpiryFor(t, validity) == IF validity <= 0 THEN Never ELSE t + validity
=============================================================================
