---------------------------- MODULE CreditLedger ----------------------------
(***************************************************************************)
(* The credit wallet of one workspace: grants, reserve -> settle/release,  *)
(* the sweep of abandoned reservations, expiry, the cycle reset and the    *)
(* operator's adjustment.                                                  *)
(*                                                                         *)
(* Source: packages/entitlements/src/credit-ledger.ts and credits.ts.      *)
(*                                                                         *)
(* Every mutation is one database transaction that holds the wallet row    *)
(* FOR UPDATE from its first read of the balance to its commit, so it is   *)
(* one action here.  What it does NOT serialise is kept: each transaction  *)
(* reads the clock before it queues for the lock, so it runs with a time   *)
(* up to MaxLag old (ReadTimes), and the order in which transactions take  *)
(* the lock is free.                                                       *)
(*                                                                         *)
(* A transaction the database refuses (a CHECK of the schema, or the       *)
(* unique idempotencyKey of a ledger row) rolls back whole: the action has *)
(* no such step.  A retry whose key is already recorded changes nothing    *)
(* and is a stuttering step.                                               *)
(***************************************************************************)
EXTENDS CreditPolicy

CONSTANTS
  GrantIds,         \* buckets granted directly (packs, trials, promotions)
  CycleIds,         \* cycle boundaries; a cycle's allowance is bucket c
  ReservationIds,   \* idempotency keys of reservations
  AdjustIds,        \* idempotency keys of operator adjustments
  GrantAmounts,     \* amounts a direct grant may have
  Validities,       \* how long a direct grant lives; 0 is for ever
  PlanValidity,     \* how long a plan allowance lives
  Estimates,        \* amounts a reservation may hold
  Adjustments,      \* signed amounts an operator may enter
  CycleInputs,      \* [policy, capBasisPoints, allowance] of a boundary
  Ttl,              \* reservation timeout
  MaxTime,          \* bound on the clock
  MaxLag            \* how long a transaction may wait for the wallet lock

BucketIds == GrantIds \cup CycleIds

ASSUME IdsAssumption ==
  /\ BucketIds \subseteq Nat /\ IsFiniteSet(BucketIds)
  /\ GrantIds \cap CycleIds = {}
  /\ ReservationIds \subseteq Nat /\ IsFiniteSet(ReservationIds)
  /\ AdjustIds \subseteq Nat

ASSUME AmountsAssumption ==
  /\ GrantAmounts \subseteq Nat \ {0} /\ Estimates \subseteq Nat \ {0}
  /\ Validities \subseteq Nat /\ PlanValidity \in Nat
  /\ Adjustments \subseteq Int \ {0}
  /\ CycleInputs \subseteq [policy : RolloverPolicies, capBasisPoints : Nat,
                            allowance : Nat]

ASSUME TimeAssumption ==
  /\ Ttl \in Nat \ {0} /\ MaxTime \in Nat \ {0} /\ MaxLag \in Nat

VARIABLES
  wallet,         \* balance, reserved, lifetimeGranted, lifetimeConsumed
  buckets,        \* CreditGrant rows; amount 0 until the row exists
  reservations,   \* CreditReservation rows; status NONE until the row exists
  ledger,         \* CreditTransaction rows
  now             \* the wall clock

vars == <<wallet, buckets, reservations, ledger, now>>

Statuses == {"NONE", "OPEN", "SETTLED", "RELEASED", "EXPIRED"}

Wallet == [balance : Nat, reserved : Nat,
           lifetimeGranted : Int, lifetimeConsumed : Int]
Bucket == [amount : Nat, remaining : Nat, reserved : Nat,
           expiresAt : Nat, grantedAt : Nat]
Reservation == [status : Statuses, estimate : Nat, settled : Nat,
                allocations : [BucketIds -> Nat], expiresAt : Nat]

Exists(b) == buckets[b].amount > 0
Open == {r \in ReservationIds : reservations[r].status = "OPEN"}

\* A time a transaction that runs now may have read before it got the lock.
ReadTimes == {t \in 1..MaxTime : t <= now /\ now <= t + MaxLag}

\* The deadlines of the model end before its clock does.
WithinHorizon(t) == t < MaxTime

-----------------------------------------------------------------------------
(* The ledger: append-only rows under a unique key. *)

Row(key, amount, after) == [key |-> key, amount |-> amount, after |-> after]
Keys(rows) == {row.key : row \in rows}
Recorded(key) == key \in Keys(ledger)

\* Insert the rows a transaction writes; the unique index refuses a key twice.
Append(rows) ==
  /\ Keys(rows) \cap Keys(ledger) = {}
  /\ ledger' = ledger \cup rows

\* One negative row per bucket something is taken from, in spending order,
\* each with the balance as it stands after it.
Debits(tag, id, bs, take, balance) ==
  {Row(<<tag, id, b>>, -take[b],
       balance - take[b] - SumFunctionOnSet(take, Ahead(bs, b))) :
     b \in {i \in BucketIds : take[i] > 0}}

-----------------------------------------------------------------------------
(* The CHECK constraints on the three tables. *)

BucketsAccepted(bs) ==
  \A b \in BucketIds : /\ 0 <= bs[b].reserved
                       /\ bs[b].reserved <= bs[b].remaining
                       /\ bs[b].remaining <= bs[b].amount
WalletAccepted(w) == w.balance >= 0 /\ w.reserved >= 0
Accepted(w, bs) == WalletAccepted(w) /\ BucketsAccepted(bs)

-----------------------------------------------------------------------------
(* What each transaction does to the rows it updates. *)

Unheld(bs) == [b \in BucketIds |-> bs[b].remaining - bs[b].reserved]

Lapsed(bs, b, t) == bs[b].expiresAt # Never /\ bs[b].expiresAt < t

\* Mutant: what other requests already hold counts as free.
LiveIgnoringHolds(bs, t) ==
  [b \in BucketIds |->
     IF bs[b].expiresAt = Never \/ bs[b].expiresAt > t THEN bs[b].remaining ELSE 0]

\* A hold may use only buckets that have not lapsed.
LiveUnheld(bs, t) ==
  [b \in BucketIds |->
     IF bs[b].expiresAt = Never \/ bs[b].expiresAt > t THEN Unheld(bs)[b] ELSE 0]

Granted(amount, t, validity) ==
  [amount |-> amount, remaining |-> amount, reserved |-> 0,
   expiresAt |-> ExpiryFor(t, validity), grantedAt |-> t]

WalletGranted(w, amount) ==
  [w EXCEPT !.balance = @ + amount, !.lifetimeGranted = @ + amount]

\* Mutant: the hold is stored in place of the earlier ones, not added to them.
HeldAnew(bs, alloc) ==
  [b \in BucketIds |-> [bs[b] EXCEPT !.reserved = IF alloc[b] > 0 THEN alloc[b] ELSE @]]

Held(bs, alloc) ==
  [b \in BucketIds |-> [bs[b] EXCEPT !.reserved = @ + alloc[b]]]

\* Mutant: only the part that was charged stops being held.
UnholdCharged(bs, alloc, charge) ==
  [b \in BucketIds |-> [bs[b] EXCEPT !.reserved = @ - charge[b],
                                     !.remaining = @ - charge[b]]]

\* The hold goes in full; what is charged leaves the bucket with it.
Unhold(bs, alloc, charge) ==
  [b \in BucketIds |-> [bs[b] EXCEPT !.reserved = @ - alloc[b],
                                     !.remaining = @ - charge[b]]]

\* Mutant: the ledger row is written and the bucket left as it was.
NotReduced(bs, take) == bs

Reduced(bs, take) ==
  [b \in BucketIds |-> [bs[b] EXCEPT !.remaining = @ - take[b]]]

Nothing == [b \in BucketIds |-> 0]

-----------------------------------------------------------------------------
Init ==
  /\ wallet = [balance |-> 0, reserved |-> 0,
               lifetimeGranted |-> 0, lifetimeConsumed |-> 0]
  /\ buckets = [b \in BucketIds |->
                  [amount |-> 0, remaining |-> 0, reserved |-> 0,
                   expiresAt |-> Never, grantedAt |-> 0]]
  /\ reservations = [r \in ReservationIds |->
                       [status |-> "NONE", estimate |-> 0, settled |-> 0,
                        allocations |-> Nothing, expiresAt |-> 0]]
  /\ ledger = {}
  /\ now = 1

\* grant: a bucket, its ledger row and the balance in one transaction.
Grant(g, amount, validity, t) ==
  /\ ExpiryFor(t, validity) = Never \/ WithinHorizon(ExpiryFor(t, validity))
  /\ Append({Row(<<"grant", g, 0>>, amount, wallet.balance + amount)})
  /\ buckets' = [buckets EXCEPT ![g] = Granted(amount, t, validity)]
  /\ wallet' = WalletGranted(wallet, amount)
  /\ UNCHANGED <<reservations, now>>

\* reserve: refused unless the wallet AND the live buckets cover the estimate.
Reserve(r, estimate, t) ==
  LET alloc == AllocateFifo(buckets, LiveUnheld(buckets, t), estimate)
  IN  /\ WithinHorizon(now + Ttl)
      /\ reservations[r].status = "NONE"
      /\ wallet.balance - wallet.reserved >= estimate
      /\ Shortfall(alloc, estimate) <= 0
      /\ reservations' = [reservations EXCEPT ![r] =
           [status |-> "OPEN", estimate |-> estimate, settled |-> 0,
            allocations |-> alloc, expiresAt |-> t + Ttl]]
      /\ buckets' = Held(buckets, alloc)
      /\ wallet' = [wallet EXCEPT !.reserved = @ + estimate]
      /\ Append({Row(<<"reserve", r, 0>>, 0, wallet.balance)})
      /\ UNCHANGED now

\* Mutant: the part of the hold that was not charged stays held.
WalletKeepsExcess(w, res, total) ==
  [w EXCEPT !.balance = @ - total, !.reserved = @ - total,
            !.lifetimeConsumed = @ + total]

\* The wallet after a settlement that charges `total`.
WalletSettled(w, res, total) ==
  [w EXCEPT !.balance = @ - total, !.reserved = @ - res.estimate,
            !.lifetimeConsumed = @ + total]

\* settle: charge the actual cost to the buckets the hold froze, and let the
\* rest of the hold go.  A reservation that is not OPEN is left as it is.
Settle(r, actual) ==
  LET res    == reservations[r]
      charge == NarrowAllocation(buckets, res.allocations, actual)
      total  == AllocationTotal(charge)
  IN  /\ res.status = "OPEN"
      /\ actual <= res.estimate
      /\ buckets' = Unhold(buckets, res.allocations, charge)
      /\ wallet' = WalletSettled(wallet, res, total)
      /\ Accepted(wallet', buckets')
      /\ reservations' = [reservations EXCEPT ![r].status = "SETTLED",
                                              ![r].settled = total]
      /\ Append(Debits("settle", r, buckets, charge, wallet.balance))
      /\ UNCHANGED now

\* Mutant: the status is read before the reservation is locked, so a retry
\* closes a reservation that is already terminal.
CloseUnlocked(r, status) ==
  LET res == reservations[r]
  IN  /\ res.status # "NONE"
      /\ buckets' = Unhold(buckets, res.allocations, Nothing)
      /\ wallet' = [wallet EXCEPT !.reserved = @ - res.estimate]
      /\ Accepted(wallet', buckets')
      /\ reservations' = [reservations EXCEPT ![r].status = status]
      /\ UNCHANGED <<ledger, now>>

\* release: the hold goes back whole, with no charge.
Close(r, status) ==
  LET res == reservations[r]
  IN  /\ res.status = "OPEN"
      /\ buckets' = Unhold(buckets, res.allocations, Nothing)
      /\ wallet' = [wallet EXCEPT !.reserved = @ - res.estimate]
      /\ Accepted(wallet', buckets')
      /\ reservations' = [reservations EXCEPT ![r].status = status]
      /\ Append({Row(<<"release", r, 0>>, 0, wallet.balance)})
      /\ UNCHANGED now

Release(r) == Close(r, "RELEASED")

\* One release of the sweep of reservations nobody came back for.
SweepReservation(r, t) ==
  /\ reservations[r].expiresAt < t
  /\ Close(r, "EXPIRED")

\* What an expiry pass takes from each bucket: all that is not held.
WriteOffs(bs, t) ==
  [b \in BucketIds |->
     IF Lapsed(bs, b, t) /\ Unheld(bs)[b] > 0 THEN Unheld(bs)[b] ELSE 0]

\* Mutant: the write-off never reaches the balance.
WalletUndebited(w, total) == w

WalletDebited(w, total) == [w EXCEPT !.balance = @ - total]

\* expireLapsedGrants
ExpireLapsedGrants(t) ==
  LET off == WriteOffs(buckets, t)
  IN  /\ buckets' = Reduced(buckets, off)
      /\ wallet' = WalletDebited(wallet, AllocationTotal(off))
      /\ Accepted(wallet', buckets')
      /\ Append(Debits("expiry", 0, buckets, off, wallet.balance))
      /\ UNCHANGED <<reservations, now>>

\* Mutant: the marker is keyed on the moment of the run.
MarkerByTime(c) == <<"complete", c, now>>

\* The row that says a cycle boundary was applied.
Marker(c) == <<"complete", c, 0>>

\* runCycleReset: expire, forfeit what exceeds the rollover cap and is not
\* held, grant the new allowance, and record the boundary -- one transaction,
\* keyed on the cycle.  The plan grant has a key of its own and is made once;
\* it reads the balance the expiry stored, before the forfeiture is.
RunCycleReset(c, in, t) ==
  LET off     == WriteOffs(buckets, t)
      expired == WalletDebited(wallet, AllocationTotal(off))
      live    == Reduced(buckets, off)
      carried == expired.balance
      keep    == RolloverAmount(in.policy, in.capBasisPoints, in.allowance, carried)
      forfeit == AllocateFifo(live, Unheld(live), carried - keep)
      kept    == Reduced(live, forfeit)
      running == carried - AllocationTotal(forfeit) + in.allowance
      grants  == in.allowance > 0 /\ ~Recorded(<<"grant", c, 0>>)
  IN  /\ ~Recorded(Marker(c))
      /\ ExpiryFor(now, PlanValidity) = Never \/ WithinHorizon(now + PlanValidity)
      /\ Accepted(expired, live)
      /\ buckets' = IF grants
                    THEN [kept EXCEPT ![c] = Granted(in.allowance, now, PlanValidity)]
                    ELSE kept
      /\ wallet' = [WalletGranted(expired, IF grants THEN in.allowance ELSE 0)
                      EXCEPT !.balance = running]
      /\ Accepted(wallet', buckets')
      /\ Append(Debits("expiry", 0, buckets, off, wallet.balance)
                \cup Debits("reset", c, live, forfeit, carried)
                \cup (IF grants
                      THEN {Row(<<"grant", c, 0>>, in.allowance, carried + in.allowance)}
                      ELSE {})
                \cup {Row(Marker(c), 0, running)})
      /\ UNCHANGED <<reservations, now>>

\* CreditService.adjust: the balance moves, the buckets do not.
Adjust(a, delta) ==
  /\ wallet.balance + delta >= 0
  /\ wallet' = IF delta > 0 THEN WalletGranted(wallet, delta)
               ELSE [wallet EXCEPT !.balance = @ + delta, !.lifetimeConsumed = @ - delta]
  /\ Append({Row(<<"adjust", a, 0>>, delta, wallet.balance + delta)})
  /\ UNCHANGED <<buckets, reservations, now>>

Tick ==
  /\ now < MaxTime
  /\ now' = now + 1
  /\ UNCHANGED <<wallet, buckets, reservations, ledger>>

Next ==
  \/ \E g \in GrantIds, n \in GrantAmounts, v \in Validities, t \in ReadTimes :
       Grant(g, n, v, t)
  \/ \E r \in ReservationIds, n \in Estimates, t \in ReadTimes : Reserve(r, n, t)
  \/ \E r \in ReservationIds : \E n \in 0..reservations[r].estimate : Settle(r, n)
  \/ \E r \in ReservationIds : Release(r)
  \/ \E r \in ReservationIds, t \in ReadTimes : SweepReservation(r, t)
  \/ \E t \in ReadTimes : ExpireLapsedGrants(t)
  \/ \E c \in CycleIds, in \in CycleInputs, t \in ReadTimes : RunCycleReset(c, in, t)
  \/ \E a \in AdjustIds, d \in Adjustments : Adjust(a, d)
  \/ Tick

Spec == Init /\ [][Next]_vars

\* The scheduler runs the reservation sweep and the expiry sweep for ever, and
\* time passes; nothing else is promised to happen.
Fairness ==
  /\ WF_vars(Tick)
  /\ \A r \in ReservationIds : WF_vars(SweepReservation(r, now))
  /\ WF_vars(ExpireLapsedGrants(now))

FairSpec == Spec /\ Fairness

-----------------------------------------------------------------------------
(* Properties. *)

\* What a row's key says of the transaction that wrote it.
Tags == {"grant", "reserve", "settle", "release", "expiry", "reset", "complete", "adjust"}

LedgerRow == [key : Tags \X Nat \X Nat, amount : Int, after : Int]

\* Every row of the wallet's tables has its type, and no bucket holds more than
\* it has left or has more left than it was granted: the schema's CHECKs, which
\* a transaction must never have to be refused for.
TypeOK ==
  /\ wallet \in Wallet
  /\ buckets \in [BucketIds -> Bucket]
  /\ reservations \in [ReservationIds -> Reservation]
  /\ \A row \in ledger : row \in LedgerRow
  /\ BucketsAccepted(buckets)
  /\ now \in 1..MaxTime

\* The three places that record a hold agree: a bucket's reserved column is
\* what the OPEN reservations froze in it, and the wallet's is the sum of their
\* estimates.  reserve, settle, release and the sweep each update all three.
HoldsAreBacked ==
  /\ \A b \in BucketIds :
       buckets[b].reserved = SumFunction([r \in Open |-> reservations[r].allocations[b]])
  /\ wallet.reserved = SumFunction([r \in Open |-> reservations[r].estimate])

\* What rows of the ledger add up to.
Replayed(rows) == SumFunction([row \in rows |-> row.amount])

\* The stored balance is the replay of the ledger (CreditService.reconcile
\* finds no drift).
LedgerReplays == wallet.balance = Replayed(ledger)

\* Apart from what operators entered, the balance the customer sees is what the
\* buckets still hold: no grant, charge, expiry or forfeiture moves one and not
\* the other.
Adjusted == Replayed({row \in ledger : row.key[1] = "adjust"})
BalanceIsInBuckets ==
  wallet.balance = SumFunction([b \in BucketIds |-> buckets[b].remaining]) + Adjusted

\* Any OPEN reservation can be settled for any cost up to its estimate, and
\* released, without the database refusing the transaction, whatever expiry
\* pass or cycle reset ran since the hold was taken.
HoldsCanClose ==
  \A r \in Open :
    LET res == reservations[r]
    IN  /\ \A n \in 0..res.estimate :
             LET charge == NarrowAllocation(buckets, res.allocations, n)
             IN  Accepted(WalletSettled(wallet, res, AllocationTotal(charge)),
                          Unhold(buckets, res.allocations, charge))
        /\ Accepted([wallet EXCEPT !.reserved = @ - res.estimate],
                    Unhold(buckets, res.allocations, Nothing))

\* A reservation that was settled, released or swept never changes again: the
\* late settle of a swept request and the late sweep of a settled one are
\* no-ops.
TerminalStays ==
  [][\A r \in ReservationIds :
       reservations[r].status \in {"SETTLED", "RELEASED", "EXPIRED"} =>
         reservations'[r] = reservations[r]]_vars

CycleRows(rows, c) ==
  {row \in rows : row.key[1] \in {"reset", "grant", "complete"} /\ row.key[2] = c}

\* A cycle boundary is applied whole and once: when any of its rows is on the
\* ledger, no later run of the same cycle forfeits from another bucket or
\* grants its allowance again.
BoundaryAppliedOnce ==
  [][\A c \in CycleIds :
       CycleRows(ledger, c) # {} => CycleRows(ledger', c) = CycleRows(ledger, c)]_vars

\* A boundary keeps no more than the plan's rollover policy allows, unless all
\* that is left in the older buckets is held against requests in flight.
BoundaryKeepsTheCap ==
  [][\A c \in CycleIds :
       Recorded(<<"complete", c, 0>>)' /\ ~Recorded(<<"complete", c, 0>>) =>
         LET granted == buckets'[c].amount
             kept    == wallet'.balance - granted
         IN  \E in \in CycleInputs :
               /\ in.allowance = granted
               /\ \/ kept <= RolloverAmount(in.policy, in.capBasisPoints, granted, wallet.balance)
                  \/ \A b \in BucketIds \ {c} : Unheld(buckets')[b] = 0]_vars

\* Bucket a lapses before bucket b does.
Sooner(a, b) ==
  /\ buckets[a].expiresAt # Never
  /\ buckets[b].expiresAt = Never \/ buckets[a].expiresAt < buckets[b].expiresAt

\* A hold takes the credits that would be lost first: it touches a bucket only
\* when every bucket that lapses sooner, and has not lapsed yet, is fully held;
\* and it never touches a bucket that had lapsed.
SoonestExpiryFirst ==
  [][\A r \in ReservationIds :
       reservations[r].status = "NONE" /\ reservations'[r].status = "OPEN" =>
         LET alloc == reservations'[r].allocations
             read  == reservations'[r].expiresAt - Ttl
         IN  \A b \in BucketIds : alloc[b] > 0 =>
               /\ buckets[b].expiresAt = Never \/ buckets[b].expiresAt > read
               /\ \A a \in BucketIds :
                    Sooner(a, b) /\ buckets[a].expiresAt > read =>
                      Unheld(buckets')[a] = 0]_vars

\* A lapsed bucket is written off in the end: what a request held when the first
\* expiry pass ran goes with a later pass, once the request settled or was swept.
LapsedLeaves ==
  \A b \in BucketIds :
    Lapsed(buckets, b, now) /\ buckets[b].remaining > 0 ~> buckets[b].remaining = 0

-----------------------------------------------------------------------------
(* The ledger implements the account. *)

Account == INSTANCE CreditAccount WITH
  HoldIds <- ReservationIds,
  Balances <- Nat,
  balance <- wallet.balance,
  held <- wallet.reserved,
  holds <- [r \in ReservationIds |-> [status |-> reservations[r].status,
                                      amount |-> reservations[r].estimate,
                                      charged |-> reservations[r].settled]]

\* Whatever the buckets do, a caller sees an account: holds are covered by the
\* balance, end once, and no expiry or forfeiture touches what they cover.
LedgerIsAnAccount == Account!AccountSpec
=============================================================================
