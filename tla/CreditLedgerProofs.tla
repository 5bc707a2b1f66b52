------------------------- MODULE CreditLedgerProofs -------------------------
(***************************************************************************)
(* What holds of the credit ledger for every set of buckets, reservations, *)
(* cycles, amounts and times.                                              *)
(*                                                                         *)
(* First come two action properties, about which rows a transaction may    *)
(* write at all: terminal reservations stay, boundaries are applied once.  *)
(*                                                                         *)
(* Then the amounts.  The invariant LedgerInv says that the books agree:   *)
(* a hold is whole in the buckets that back it (HoldsAreWhole), the        *)
(* wallet's column is what the reservations and what the buckets hold      *)
(* (Holds), and the balance is the replay of the ledger and, but for what  *)
(* operators entered, the rest of the buckets (Books).  Each transaction   *)
(* is shown to move all of them by the same amount; the laws of sums are   *)
(* those of CreditPolicyProofs.                                            *)
(*                                                                         *)
(* Last, closing a hold and the account.  The balance covers what is held  *)
(* because the buckets do, as long as operators do not deduct: OnlyGifts   *)
(* is the hypothesis of HoldsAlwaysClose and LedgerImplementsAccount, and  *)
(* CoveredHoldsCanClose says what is left without it.                      *)
(***************************************************************************)
EXTENDS CreditLedger, CreditPolicyProofs

-----------------------------------------------------------------------------
(* Terminal reservations. *)

\* The statuses nothing leaves.
Terminal == {"SETTLED", "RELEASED", "EXPIRED"}

\* How a hold ends without a charge: by its caller, or by the sweep.
Returned == {"RELEASED", "EXPIRED"}

\* The reservations are a table indexed by their keys.
ReservationTable == DOMAIN reservations = ReservationIds

\* Who writes the table: reserve, settle, and the two that close a reservation.
LEMMA ReservationWriters ==
  ASSUME [Next]_vars
  PROVE  \/ \E r \in ReservationIds, n \in Estimates, t \in ReadTimes : Reserve(r, n, t)
         \/ \E r \in ReservationIds : \E n \in 0..reservations[r].estimate : Settle(r, n)
         \/ \E r \in ReservationIds, status \in Returned : Close(r, status)
         \/ UNCHANGED reservations
<1>1. ASSUME NEW g \in GrantIds, NEW n \in GrantAmounts, NEW v \in Validities,
             NEW t \in ReadTimes, Grant(g, n, v, t)
      PROVE  UNCHANGED reservations
  BY <1>1 DEF Grant
<1>2. ASSUME NEW r \in ReservationIds, Release(r)
      PROVE  Close(r, "RELEASED")
  BY <1>2 DEF Release
<1>3. ASSUME NEW r \in ReservationIds, NEW t \in ReadTimes, SweepReservation(r, t)
      PROVE  Close(r, "EXPIRED")
  BY <1>3 DEF SweepReservation
<1>4. ASSUME NEW t \in ReadTimes, ExpireLapsedGrants(t)
      PROVE  UNCHANGED reservations
  BY <1>4 DEF ExpireLapsedGrants
<1>5. ASSUME NEW c \in CycleIds, NEW in \in CycleInputs, NEW t \in ReadTimes,
             RunCycleReset(c, in, t)
      PROVE  UNCHANGED reservations
  BY <1>5 DEF RunCycleReset
<1>6. ASSUME NEW a \in AdjustIds, NEW d \in Adjustments, Adjust(a, d)
      PROVE  UNCHANGED reservations
  BY <1>6 DEF Adjust
<1>7. CASE Tick
  BY <1>7 DEF Tick
<1>8. CASE UNCHANGED vars
  BY <1>8 DEF vars
<1> QED
  BY <1>1, <1>2, <1>3, <1>4, <1>5, <1>6, <1>7, <1>8, Zenon DEF Next, Returned

\* No transaction adds or loses a reservation's row of the table.
LEMMA TableStays ==
  ASSUME ReservationTable, [Next]_vars
  PROVE  ReservationTable'
<1>1. ASSUME NEW r \in ReservationIds, NEW n, NEW t, Reserve(r, n, t)
      PROVE  ReservationTable'
  BY <1>1 DEF Reserve, ReservationTable
<1>2. ASSUME NEW r \in ReservationIds, NEW n, Settle(r, n)
      PROVE  ReservationTable'
  BY <1>2 DEF Settle, ReservationTable
<1>3. ASSUME NEW r \in ReservationIds, NEW status, Close(r, status)
      PROVE  ReservationTable'
  BY <1>3 DEF Close, ReservationTable
<1>4. ASSUME UNCHANGED reservations
      PROVE  ReservationTable'
  BY <1>4 DEF ReservationTable
<1> QED
  BY <1>1, <1>2, <1>3, <1>4, ReservationWriters

\* A step leaves every reservation that is already terminal as it is: only
\* reserve, settle, release and the sweep write the table, the first from NONE
\* and the others from OPEN.
LEMMA TerminalStep ==
  ASSUME ReservationTable, [Next]_vars,
         NEW r \in ReservationIds, reservations[r].status \in Terminal
  PROVE  reservations'[r] = reservations[r]
<1>1. ASSUME NEW q \in ReservationIds, NEW n, NEW t, Reserve(q, n, t)
      PROVE  reservations'[r] = reservations[r]
  <2>1. q # r
    BY <1>1 DEF Reserve, Terminal
  <2> QED
    BY <1>1, <2>1 DEF Reserve, ReservationTable
<1>2. ASSUME NEW q \in ReservationIds, NEW n, Settle(q, n)
      PROVE  reservations'[r] = reservations[r]
  <2>1. q # r
    BY <1>2 DEF Settle, Terminal
  <2> QED
    BY <1>2, <2>1 DEF Settle, ReservationTable
<1>3. ASSUME NEW q \in ReservationIds, NEW status, Close(q, status)
      PROVE  reservations'[r] = reservations[r]
  <2>1. q # r
    BY <1>3 DEF Close, Terminal
  <2> QED
    BY <1>3, <2>1 DEF Close, ReservationTable
<1>4. ASSUME UNCHANGED reservations
      PROVE  reservations'[r] = reservations[r]
  BY <1>4
<1> QED
  BY <1>1, <1>2, <1>3, <1>4, ReservationWriters

\* Whatever the order in which settle, release and the sweep reach a
\* reservation, the first one wins and the others change nothing: the late
\* settle of a swept request and the late sweep of a settled one are no-ops.
THEOREM TerminalReservationsStay == Spec => TerminalStays
<1>1. Init => ReservationTable
  BY DEF Init, ReservationTable
<1>2. ReservationTable /\ [Next]_vars => ReservationTable'
  BY TableStays
<1>3. ReservationTable /\ [Next]_vars =>
        [\A r \in ReservationIds :
           reservations[r].status \in {"SETTLED", "RELEASED", "EXPIRED"} =>
             reservations'[r] = reservations[r]]_vars
  BY TerminalStep DEF Terminal
<1> QED
  BY <1>1, <1>2, <1>3, PTL DEF Spec, TerminalStays

-----------------------------------------------------------------------------
(* Cycle boundaries. *)

\* A boundary that left any row on the ledger left its marker there too.
BoundariesWhole ==
  \A c \in CycleIds : CycleRows(ledger, c) # {} => Recorded(Marker(c))

\* No row among these belongs to the boundary c.
Foreign(rows, c) == CycleRows(rows, c) = {}

\* The rows of a debit carry the tag and the id it was made with.
LEMMA DebitsBear ==
  ASSUME NEW tag, NEW id, NEW bs, NEW take, NEW n,
         NEW row \in Debits(tag, id, bs, take, n)
  PROVE  row.key[1] = tag /\ row.key[2] = id
<1>1. PICK b \in BucketIds :
        row = Row(<<tag, id, b>>, -take[b], n - take[b] - SumFunctionOnSet(take, Ahead(bs, b)))
  BY DEF Debits
<1>2. row.key = <<tag, id, b>>
  BY <1>1 DEF Row
<1> QED
  BY <1>2

\* Debits made under another tag are no boundary's.
LEMMA DebitsForeign ==
  ASSUME NEW c, NEW tag, NEW id, NEW bs, NEW take, NEW n,
         tag \notin {"reset", "grant", "complete"} \/ id # c
  PROVE  Foreign(Debits(tag, id, bs, take, n), c)
<1>1. \A row \in Debits(tag, id, bs, take, n) : row.key[1] = tag /\ row.key[2] = id
  BY DebitsBear
<1> QED
  BY <1>1 DEF Foreign, CycleRows

\* Nor is a single row whose tag or id is another's.
LEMMA RowForeign ==
  ASSUME NEW c, NEW tag, NEW id, NEW amount, NEW after,
         tag \notin {"reset", "grant", "complete"} \/ id # c
  PROVE  Foreign({Row(<<tag, id, 0>>, amount, after)}, c)
<1>1. Row(<<tag, id, 0>>, amount, after).key = <<tag, id, 0>>
  BY DEF Row
<1> QED
  BY <1>1 DEF Foreign, CycleRows

\* Rows that are not the boundary's leave its rows as they were.
LEMMA AppendForeign ==
  ASSUME NEW rows, NEW c, Append(rows), Foreign(rows, c)
  PROVE  CycleRows(ledger', c) = CycleRows(ledger, c)
BY DEF Append, Foreign, CycleRows

\* The ledger is append-only.
LEMMA RecordedStays ==
  ASSUME NEW rows, Append(rows), NEW key, Recorded(key)
  PROVE  Recorded(key)'
BY DEF Append, Recorded, Keys

\* What a run of the cycle reset does to the rows of every boundary: its own
\* had none and gets its marker; the others keep theirs.
LEMMA ResetRows ==
  ASSUME BoundariesWhole, NEW d \in CycleIds, NEW in, NEW t, RunCycleReset(d, in, t)
  PROVE  /\ CycleRows(ledger, d) = {}
         /\ Recorded(Marker(d))'
         /\ \A c \in CycleIds \ {d} : CycleRows(ledger', c) = CycleRows(ledger, c)
         /\ \A key : Recorded(key) => Recorded(key)'
<1> DEFINE off     == WriteOffs(buckets, t)
           expired == WalletDebited(wallet, AllocationTotal(off))
           live    == Reduced(buckets, off)
           carried == expired.balance
           keep    == RolloverAmount(in.policy, in.capBasisPoints, in.allowance, carried)
           forfeit == AllocateFifo(live, Unheld(live), carried - keep)
           running == carried - AllocationTotal(forfeit) + in.allowance
           grants  == in.allowance > 0 /\ ~Recorded(<<"grant", d, 0>>)
           lapsed  == Debits("expiry", 0, buckets, off, wallet.balance)
           lost    == Debits("reset", d, live, forfeit, carried)
           given   == {Row(<<"grant", d, 0>>, in.allowance, carried + in.allowance)}
           marker  == {Row(Marker(d), 0, running)}
           rows    == lapsed \cup lost \cup (IF grants THEN given ELSE {}) \cup marker
<1>1. ~Recorded(Marker(d)) /\ Append(rows)
  BY DEF RunCycleReset
<1> HIDE DEF off, expired, live, carried, keep, forfeit, running, grants
<1>2. CycleRows(ledger, d) = {}
  BY <1>1 DEF BoundariesWhole
<1>3. Recorded(Marker(d))'
  <2>1. Row(Marker(d), 0, running) \in ledger'
    BY <1>1 DEF Append
  <2>2. Row(Marker(d), 0, running).key = Marker(d)
    BY DEF Row
  <2> QED
    BY <2>1, <2>2 DEF Recorded, Keys, Marker
<1>4. ASSUME NEW c \in CycleIds \ {d}
      PROVE  Foreign(rows, c)
  <2>1. Foreign(lapsed, c)
    BY DebitsForeign
  <2>2. Foreign(lost, c)
    BY DebitsForeign
  <2>3. Foreign(given, c)
    BY RowForeign
  <2>4. Foreign(marker, c)
    BY RowForeign DEF Marker
  <2> HIDE DEF lapsed, lost, given, marker
  <2> QED
    BY <2>1, <2>2, <2>3, <2>4 DEF Foreign, CycleRows
<1>5. \A c \in CycleIds \ {d} : CycleRows(ledger', c) = CycleRows(ledger, c)
  BY <1>1, <1>4, AppendForeign
<1>6. \A key : Recorded(key) => Recorded(key)'
  BY <1>1, RecordedStays
<1> QED
  BY <1>2, <1>3, <1>5, <1>6

\* Every other transaction leaves the rows of every boundary alone.
LEMMA OtherRows ==
  ASSUME [Next]_vars, NEW c \in CycleIds,
         ~ \E d \in CycleIds, in \in CycleInputs, t \in ReadTimes : RunCycleReset(d, in, t)
  PROVE  /\ CycleRows(ledger', c) = CycleRows(ledger, c)
         /\ \A key : Recorded(key) => Recorded(key)'
<1> DEFINE Goal == /\ CycleRows(ledger', c) = CycleRows(ledger, c)
                   /\ \A key : Recorded(key) => Recorded(key)'
<1>1. ASSUME NEW rows, Append(rows), Foreign(rows, c)
      PROVE  Goal
  BY <1>1, AppendForeign, RecordedStays
<1>2. ASSUME UNCHANGED ledger
      PROVE  Goal
  BY <1>2 DEF Recorded
<1> HIDE DEF Goal
<1>3. ASSUME NEW g \in GrantIds, NEW n, NEW v, NEW t, Grant(g, n, v, t)
      PROVE  Goal
  <2>1. g # c
    BY IdsAssumption
  <2>2. Foreign({Row(<<"grant", g, 0>>, n, wallet.balance + n)}, c)
    BY <2>1, RowForeign
  <2> QED
    BY <1>1, <1>3, <2>2 DEF Grant
<1>4. ASSUME NEW r \in ReservationIds, NEW n, NEW t, Reserve(r, n, t)
      PROVE  Goal
  <2>1. Foreign({Row(<<"reserve", r, 0>>, 0, wallet.balance)}, c)
    BY RowForeign
  <2> QED
    BY <1>1, <1>4, <2>1 DEF Reserve
<1>5. ASSUME NEW r \in ReservationIds, NEW n, Settle(r, n)
      PROVE  Goal
  <2> DEFINE charge == NarrowAllocation(buckets, reservations[r].allocations, n)
  <2>1. Foreign(Debits("settle", r, buckets, charge, wallet.balance), c)
    BY DebitsForeign
  <2> QED
    BY <1>1, <1>5, <2>1 DEF Settle
<1>6. ASSUME NEW r \in ReservationIds, NEW status, Close(r, status)
      PROVE  Goal
  <2>1. Foreign({Row(<<"release", r, 0>>, 0, wallet.balance)}, c)
    BY RowForeign
  <2> QED
    BY <1>1, <1>6, <2>1 DEF Close
<1>7. ASSUME NEW t, ExpireLapsedGrants(t)
      PROVE  Goal
  <2>1. Foreign(Debits("expiry", 0, buckets, WriteOffs(buckets, t), wallet.balance), c)
    BY DebitsForeign
  <2> QED
    BY <1>1, <1>7, <2>1 DEF ExpireLapsedGrants
<1>8. ASSUME NEW a \in AdjustIds, NEW d, Adjust(a, d)
      PROVE  Goal
  <2>1. Foreign({Row(<<"adjust", a, 0>>, d, wallet.balance + d)}, c)
    BY RowForeign
  <2> QED
    BY <1>1, <1>8, <2>1 DEF Adjust
<1>9. ASSUME Tick
      PROVE  Goal
  BY <1>2, <1>9 DEF Tick
<1>10. ASSUME UNCHANGED vars
      PROVE  Goal
  BY <1>2, <1>10 DEF vars
<1>11. Goal
  BY <1>3, <1>4, <1>5, <1>6, <1>7, <1>8, <1>9, <1>10 DEF Next, Release, SweepReservation
<1> QED
  BY <1>11 DEF Goal

\* The invariant is inductive.
LEMMA BoundariesStayWhole ==
  ASSUME BoundariesWhole, [Next]_vars
  PROVE  BoundariesWhole'
<1> SUFFICES ASSUME NEW c \in CycleIds, CycleRows(ledger', c) # {}
             PROVE  Recorded(Marker(c))'
  BY DEF BoundariesWhole, Marker
<1>1. CASE \E d \in CycleIds, in \in CycleInputs, t \in ReadTimes : RunCycleReset(d, in, t)
  BY <1>1, ResetRows DEF BoundariesWhole
<1>2. CASE ~ \E d \in CycleIds, in \in CycleInputs, t \in ReadTimes : RunCycleReset(d, in, t)
  BY <1>2, OtherRows DEF BoundariesWhole
<1> QED
  BY <1>1, <1>2

\* However often and in whatever order the boundaries are run, beside every
\* other transaction, a boundary whose rows are on the ledger writes no more of
\* them: no second forfeiture and no second allowance.
THEOREM BoundariesAppliedOnce == Spec => BoundaryAppliedOnce
<1>1. Init => BoundariesWhole
  BY DEF Init, BoundariesWhole, CycleRows
<1>2. BoundariesWhole /\ [Next]_vars => BoundariesWhole'
  BY BoundariesStayWhole
<1>3. BoundariesWhole /\ [Next]_vars =>
        [\A c \in CycleIds :
           CycleRows(ledger, c) # {} => CycleRows(ledger', c) = CycleRows(ledger, c)]_vars
  BY ResetRows, OtherRows
<1> QED
  BY <1>1, <1>2, <1>3, PTL DEF Spec, BoundaryAppliedOnce
-----------------------------------------------------------------------------
(* What rows add up to. *)

\* Rows of the table, as many as were ever written.
Rows(rows) == IsFiniteSet(rows) /\ \A row \in rows : row \in LedgerRow

\* Rows that add up to n, none of them an operator's.
Posts(rows, n) ==
  /\ Rows(rows)
  /\ Replayed(rows) = n
  /\ \A row \in rows : row.key[1] # "adjust"

\* Two sets of rows without a common row.
LEMMA ReplayedUnion ==
  ASSUME NEW R, Rows(R), NEW Q, Rows(Q), R \cap Q = {}
  PROVE  /\ Rows(R \cup Q)
         /\ Replayed(R \cup Q) = Replayed(R) + Replayed(Q)
         /\ Replayed(R) \in Int /\ Replayed(Q) \in Int
<1> DEFINE f(T) == [row \in T |-> row.amount]
           all  == f(R \cup Q)
<1>1. \A row \in R \cup Q : all[row] \in Int
  BY DEF Rows, LedgerRow
<1>2. IsFiniteSet(R) /\ IsFiniteSet(Q)
  BY DEF Rows
<1>3. Replayed(R) = SumFunctionOnSet(all, R)
  <2>1. \A row \in R : all[row] = f(R)[row]
    OBVIOUS
  <2> HIDE DEF all
  <2>2. SumFunctionOnSet(all, R) = SumFunctionOnSet(f(R), R)
    BY <1>2, <2>1, SumCongruent
  <2> QED
    BY <2>2 DEF Replayed, SumFunction
<1>4. Replayed(Q) = SumFunctionOnSet(all, Q)
  <2>1. \A row \in Q : all[row] = f(Q)[row]
    OBVIOUS
  <2> HIDE DEF all
  <2>2. SumFunctionOnSet(all, Q) = SumFunctionOnSet(f(Q), Q)
    BY <1>2, <2>1, SumCongruent
  <2> QED
    BY <2>2 DEF Replayed, SumFunction
<1>5. Replayed(R \cup Q) = SumFunctionOnSet(all, R \cup Q)
  BY DEF Replayed, SumFunction
<1>6. Rows(R \cup Q)
  BY FS_Union DEF Rows
<1> HIDE DEF all
<1>7. SumFunctionOnSet(all, R \cup Q) = SumFunctionOnSet(all, R) + SumFunctionOnSet(all, Q)
  BY <1>1, <1>2, SumUnion
<1>8. SumFunctionOnSet(all, R) \in Int /\ SumFunctionOnSet(all, Q) \in Int
  BY <1>1, <1>2, SumInt
<1> QED
  BY <1>3, <1>4, <1>5, <1>6, <1>7, <1>8

\* Rows of one transaction from two sources.
LEMMA PostsUnion ==
  ASSUME NEW R, NEW Q, NEW m, NEW n, Posts(R, m), Posts(Q, n), R \cap Q = {}
  PROVE  Posts(R \cup Q, m + n)
BY ReplayedUnion DEF Posts

\* A transaction may write no row of a kind.
LEMMA PostsNone == Posts({}, 0)
<1>1. Replayed({}) = 0
  BY SumEmpty DEF Replayed, SumFunction
<1> QED
  BY <1>1, FS_EmptySet DEF Posts, Rows

\* A single row.
LEMMA RowPosts ==
  ASSUME NEW tag \in Tags, NEW id \in Nat, NEW amount \in Int, NEW after \in Int
  PROVE  /\ Rows({Row(<<tag, id, 0>>, amount, after)})
         /\ Replayed({Row(<<tag, id, 0>>, amount, after)}) = amount
         /\ tag # "adjust" => Posts({Row(<<tag, id, 0>>, amount, after)}, amount)
<1> DEFINE row == Row(<<tag, id, 0>>, amount, after)
           f   == [w \in {row} |-> w.amount]
<1>1. row \in LedgerRow /\ row.amount = amount /\ row.key[1] = tag
  BY DEF Row, LedgerRow
<1>2. f[row] = amount
  BY <1>1
<1>3. Replayed({row}) = SumFunctionOnSet(f, {row})
  BY DEF Replayed, SumFunction
<1> HIDE DEF row, f
<1>4. IsFiniteSet({row}) /\ IsFiniteSet({}) /\ {row} \ {row} = {}
  BY FS_Singleton, FS_EmptySet
<1>5. SumFunctionOnSet(f, {row}) = f[row] + SumFunctionOnSet(f, {})
  <2>1. \A x \in {row} : f[x] \in Int
    BY <1>2
  <2>2. SumFunctionOnSet(f, {row}) = f[row] + SumFunctionOnSet(f, {row} \ {row})
    BY <1>4, <2>1, SumRemoves
  <2> QED
    BY <1>4, <2>2
<1>6. Replayed({row}) = amount
  BY <1>2, <1>3, <1>5, SumEmpty
<1> QED
  BY <1>1, <1>4, <1>6 DEF Posts, Rows, row

\* Debits add up to what is taken.
LEMMA DebitsPost ==
  ASSUME NEW tag \in Tags \ {"adjust"}, NEW id \in Nat, NEW bs, DOMAIN bs = BucketIds,
         NEW take, \A b \in BucketIds : take[b] \in Nat, NEW n \in Int
  PROVE  Posts(Debits(tag, id, bs, take, n), - SumFunctionOnSet(take, BucketIds))
<1> DEFINE T == {i \in BucketIds : take[i] > 0}
           h == [b \in T |-> Row(<<tag, id, b>>, -take[b],
                                 n - take[b] - SumFunctionOnSet(take, Ahead(bs, b)))]
           D == Debits(tag, id, bs, take, n)
           f == [row \in D |-> row.amount]
           g == [b \in T |-> -take[b]]
           z == [b \in T |-> 0]
<1>1. IsFiniteSet(BucketIds) /\ BucketIds \subseteq Nat /\ IsFiniteSet(T) /\ T \in SUBSET BucketIds
  BY IdsAssumption, FS_Subset
<1>2. D = {h[b] : b \in T}
  BY DEF Debits
<1>3. \A b \in T : /\ h[b].key = <<tag, id, b>> /\ h[b].amount = -take[b]
                   /\ h[b].after = n - take[b] - SumFunctionOnSet(take, Ahead(bs, b))
  BY DEF Row
<1>4. ASSUME NEW b \in T
      PROVE  h[b] \in LedgerRow
  <2>1. IsFiniteSet(Ahead(bs, b)) /\ Ahead(bs, b) \subseteq BucketIds
    BY <1>1, FS_Subset DEF Ahead
  <2>2. SumFunctionOnSet(take, Ahead(bs, b)) \in Nat
    BY <2>1, SumNat
  <2>3. n - take[b] - SumFunctionOnSet(take, Ahead(bs, b)) \in Int /\ -take[b] \in Int
    BY <2>2
  <2>4. <<tag, id, b>> \in Tags \X Nat \X Nat
    BY <1>1
  <2> QED
    BY <2>3, <2>4 DEF Row, LedgerRow
<1>5. \A b \in T : f[h[b]] = g[b] /\ g[b] \in Int
  <2> SUFFICES ASSUME NEW b \in T PROVE f[h[b]] = g[b] /\ g[b] \in Int
    OBVIOUS
  <2> HIDE DEF h, D
  <2>1. h[b] \in D
    BY <1>2
  <2>2. f[h[b]] = h[b].amount
    BY <2>1
  <2> QED
    BY <1>3, <2>2
<1>6. \A a, b \in T : h[a] = h[b] => a = b
  <2> SUFFICES ASSUME NEW a \in T, NEW b \in T, h[a] = h[b] PROVE a = b
    OBVIOUS
  <2>1. <<tag, id, a>> = <<tag, id, b>>
    BY <1>3
  <2> QED
    BY <2>1
<1>7. \A row \in D : row \in LedgerRow /\ row.key[1] # "adjust"
  <2> HIDE DEF h, D, T
  <2> SUFFICES ASSUME NEW row \in D PROVE row \in LedgerRow /\ row.key[1] # "adjust"
    OBVIOUS
  <2>1. PICK b \in T : row = h[b]
    BY <1>2
  <2>2. h[b].key = <<tag, id, b>>
    BY <1>3
  <2> QED
    BY <1>4, <2>1, <2>2
<1>8. \A b \in T : z[b] = 0 /\ g[b] = z[b] - take[b] /\ take[b] \in Int /\ z[b] \in Int
  OBVIOUS
<1>9. \A b \in BucketIds \ T : take[b] = 0
  OBVIOUS
<1>10. Replayed(D) = SumFunctionOnSet(f, D)
  BY DEF Replayed, SumFunction
<1> HIDE DEF T, h, D, f, g, z
<1>11. IsFiniteSet(D) /\ SumFunctionOnSet(f, D) = SumFunctionOnSet(g, T)
  <2>1. /\ IsFiniteSet(ImageOf(h, T))
        /\ SumFunctionOnSet(f, ImageOf(h, T)) = SumFunctionOnSet(g, T)
    <3>1. IsFiniteSet(T)
      BY <1>1
    <3>2. \A a, b \in T : h[a] = h[b] => a = b
      BY <1>6
    <3>3. \A b \in T : f[h[b]] = g[b] /\ g[b] \in Int
      BY <1>5
    <3>4. \A ff, gg : (\A b \in T : ff[h[b]] = gg[b] /\ gg[b] \in Int)
           => IsFiniteSet(ImageOf(h, T)) /\ SumFunctionOnSet(ff, ImageOf(h, T)) = SumFunctionOnSet(gg, T)
      BY <3>1, <3>2, SumOverImage
    <3> QED
      BY <3>3, <3>4
  <2>2. D = ImageOf(h, T)
    BY <1>2 DEF ImageOf
  <2> QED
    BY <2>1, <2>2, Zenon
<1>12. SumFunctionOnSet(g, T) = SumFunctionOnSet(z, T) - SumFunctionOnSet(take, T)
  BY <1>1, <1>8, SumMinus
<1>13. SumFunctionOnSet(z, T) = 0
  BY <1>1, <1>8, SumZero
<1>14. SumFunctionOnSet(take, BucketIds) = SumFunctionOnSet(take, T)
  <2>1. \A b \in BucketIds : take[b] \in Int
    OBVIOUS
  <2> QED
    BY <1>1, <1>9, <2>1, SumWithin
<1>15. SumFunctionOnSet(take, BucketIds) \in Nat
  BY <1>1, SumNat
<1>16. Replayed(D) = - SumFunctionOnSet(take, BucketIds)
  BY <1>10, <1>11, <1>12, <1>13, <1>14, <1>15
<1> QED
  BY <1>7, <1>11, <1>16 DEF Posts, Rows, D

\* A transaction that commits adds its rows to the replay, and to the operators'
\* part of it only what an operator entered.
LEMMA AppendReplays ==
  ASSUME NEW rows, Append(rows), Rows(ledger), Rows(rows)
  PROVE  /\ Rows(ledger')
         /\ Replayed(ledger') = Replayed(ledger) + Replayed(rows)
         /\ (\A row \in rows : row.key[1] # "adjust") => Adjusted' = Adjusted
         /\ (\A row \in rows : row.key[1] = "adjust") => Adjusted' = Adjusted + Replayed(rows)
<1> DEFINE A(R) == {row \in R : row.key[1] = "adjust"}
<1>1. ledger \cap rows = {} /\ ledger' = ledger \cup rows
  BY DEF Append, Keys
<1>2. Rows(ledger') /\ Replayed(ledger') = Replayed(ledger) + Replayed(rows)
  BY <1>1, ReplayedUnion
<1>3. Adjusted = Replayed(A(ledger)) /\ Adjusted' = Replayed(A(ledger'))
  BY DEF Adjusted
<1>4. ASSUME \A row \in rows : row.key[1] # "adjust"
      PROVE  Adjusted' = Adjusted
  <2>1. A(ledger') = A(ledger)
    BY <1>1, <1>4
  <2> QED
    BY <1>3, <2>1
<1>5. ASSUME \A row \in rows : row.key[1] = "adjust"
      PROVE  Adjusted' = Adjusted + Replayed(rows)
  <2>1. A(ledger') = A(ledger) \cup rows /\ A(ledger) \cap rows = {}
    BY <1>1, <1>5
  <2>2. Rows(A(ledger))
    BY FS_Subset DEF Rows
  <2> HIDE DEF A
  <2>3. Replayed(A(ledger) \cup rows) = Replayed(A(ledger)) + Replayed(rows)
    BY <2>1, <2>2, ReplayedUnion
  <2> QED
    BY <1>3, <2>1, <2>3
<1> QED
  BY <1>2, <1>4, <1>5
-----------------------------------------------------------------------------
(* What the updates of the buckets do to the two columns. *)

\* The buckets of a state the schema's CHECKs accept.
BucketRows(bs) == bs \in [BucketIds -> Bucket] /\ BucketsAccepted(bs)

\* The two columns, added up over the buckets.
Left(bs)   == SumFunction([b \in BucketIds |-> bs[b].remaining])
HeldIn(bs) == SumFunction([b \in BucketIds |-> bs[b].reserved])

\* An amount for each bucket.
Amounts(f) == DOMAIN f = BucketIds /\ \A b \in BucketIds : f[b] \in Nat

\* What the proofs use of such buckets, bucket by bucket.
LEMMA BucketFacts ==
  ASSUME NEW bs, BucketRows(bs)
  PROVE  /\ DOMAIN bs = BucketIds /\ AreBuckets(bs) /\ Amounts(Unheld(bs))
         /\ \A b \in BucketIds :
              /\ bs[b] \in Bucket
              /\ bs[b].amount \in Nat /\ bs[b].remaining \in Nat /\ bs[b].reserved \in Nat
              /\ bs[b].reserved <= bs[b].remaining /\ bs[b].remaining <= bs[b].amount
              /\ Unheld(bs)[b] = bs[b].remaining - bs[b].reserved
<1>1. DOMAIN bs = BucketIds
  BY DEF BucketRows
<1>2. \A b \in BucketIds :
        /\ bs[b] \in Bucket
        /\ bs[b].amount \in Nat /\ bs[b].remaining \in Nat /\ bs[b].reserved \in Nat
        /\ bs[b].expiresAt \in Nat /\ bs[b].grantedAt \in Nat
        /\ bs[b].reserved <= bs[b].remaining /\ bs[b].remaining <= bs[b].amount
        /\ Unheld(bs)[b] = bs[b].remaining - bs[b].reserved
  BY DEF BucketRows, BucketsAccepted, Bucket, Unheld
<1>3. AreBuckets(bs)
  BY <1>1, <1>2, IdsAssumption DEF AreBuckets
<1>4. Amounts(Unheld(bs))
  BY <1>2 DEF Amounts, Unheld
<1> QED
  BY <1>1, <1>2, <1>3, <1>4

\* The total of amounts, one for each bucket.
LEMMA TotalIs ==
  ASSUME NEW f, Amounts(f)
  PROVE  /\ AllocationTotal(f) = SumFunctionOnSet(f, BucketIds)
         /\ AllocationTotal(f) \in Nat
BY SumNat, IdsAssumption DEF Amounts, AllocationTotal, SumFunction

\* The buckets hold no more than they have left.
LEMMA ColumnSums ==
  ASSUME NEW bs, BucketRows(bs)
  PROVE  Left(bs) \in Nat /\ HeldIn(bs) \in Nat /\ HeldIn(bs) <= Left(bs)
<1> DEFINE f == [b \in BucketIds |-> bs[b].remaining]
           g == [b \in BucketIds |-> bs[b].reserved]
<1>1. \A b \in BucketIds : f[b] \in Nat /\ g[b] \in Nat /\ g[b] <= f[b]
  BY BucketFacts
<1>2. Left(bs) = SumFunctionOnSet(f, BucketIds) /\ HeldIn(bs) = SumFunctionOnSet(g, BucketIds)
  BY DEF Left, HeldIn, SumFunction
<1> HIDE DEF f, g
<1>3. SumFunctionOnSet(f, BucketIds) \in Nat /\ SumFunctionOnSet(g, BucketIds) \in Nat
  BY <1>1, SumNat, IdsAssumption
<1>4. \A b \in BucketIds : f[b] \in Int /\ g[b] \in Int /\ g[b] <= f[b]
  BY <1>1
<1>5. SumFunctionOnSet(g, BucketIds) <= SumFunctionOnSet(f, BucketIds)
  BY <1>4, SumBounds, IdsAssumption
<1> QED
  BY <1>2, <1>3, <1>5

\* Columns that change by an amount for each bucket.
LEMMA ColumnsMove ==
  ASSUME NEW bs, BucketRows(bs), NEW cs, NEW take, Amounts(take), NEW free, Amounts(free),
         \A b \in BucketIds : /\ cs[b].remaining = bs[b].remaining - take[b]
                              /\ cs[b].reserved = bs[b].reserved - free[b]
  PROVE  /\ Left(cs) = Left(bs) - AllocationTotal(take)
         /\ HeldIn(cs) = HeldIn(bs) - AllocationTotal(free)
<1> DEFINE f == [b \in BucketIds |-> bs[b].remaining]
           g == [b \in BucketIds |-> bs[b].reserved]
           h == [b \in BucketIds |-> cs[b].remaining]
           k == [b \in BucketIds |-> cs[b].reserved]
<1>1. /\ \A b \in BucketIds : f[b] \in Int /\ take[b] \in Int /\ h[b] = f[b] - take[b]
      /\ \A b \in BucketIds : g[b] \in Int /\ free[b] \in Int /\ k[b] = g[b] - free[b]
  BY BucketFacts DEF Amounts
<1>2. /\ Left(bs) = SumFunctionOnSet(f, BucketIds) /\ HeldIn(bs) = SumFunctionOnSet(g, BucketIds)
      /\ Left(cs) = SumFunctionOnSet(h, BucketIds) /\ HeldIn(cs) = SumFunctionOnSet(k, BucketIds)
  BY DEF Left, HeldIn, SumFunction
<1> HIDE DEF f, g, h, k
<1>3. SumFunctionOnSet(h, BucketIds)
        = SumFunctionOnSet(f, BucketIds) - SumFunctionOnSet(take, BucketIds)
  BY <1>1, SumMinus, IdsAssumption
<1>4. SumFunctionOnSet(k, BucketIds)
        = SumFunctionOnSet(g, BucketIds) - SumFunctionOnSet(free, BucketIds)
  BY <1>1, SumMinus, IdsAssumption
<1> QED
  BY <1>2, <1>3, <1>4, TotalIs

\* A release charges nothing.
LEMMA NothingIsNone == Amounts(Nothing) /\ AllocationTotal(Nothing) = 0
<1>1. Amounts(Nothing) /\ \A b \in BucketIds : Nothing[b] = 0
  BY DEF Nothing, Amounts
<1>2. SumFunctionOnSet(Nothing, BucketIds) = 0
  BY <1>1, SumZero, IdsAssumption
<1> QED
  BY <1>1, <1>2, TotalIs

\* The two columns of a row that change.
LEMMA BucketFields ==
  ASSUME NEW x \in Bucket, NEW m \in Nat, NEW n \in Nat
  PROVE  /\ [x EXCEPT !.remaining = m] \in Bucket
         /\ [x EXCEPT !.reserved = n] \in Bucket
         /\ [x EXCEPT !.reserved = n, !.remaining = m] \in Bucket
BY DEF Bucket

\* A write-off or a forfeiture: nothing that is held goes.
LEMMA ReducedColumns ==
  ASSUME NEW bs, BucketRows(bs), NEW take, Amounts(take),
         \A b \in BucketIds : take[b] <= Unheld(bs)[b]
  PROVE  /\ BucketRows(Reduced(bs, take))
         /\ Left(Reduced(bs, take)) = Left(bs) - AllocationTotal(take)
         /\ \A b \in BucketIds :
              /\ Reduced(bs, take)[b].remaining = bs[b].remaining - take[b]
              /\ Reduced(bs, take)[b].reserved = bs[b].reserved
              /\ Reduced(bs, take)[b].amount = bs[b].amount
<1> DEFINE cs == Reduced(bs, take)
<1>1. \A b \in BucketIds :
        /\ cs[b] = [bs[b] EXCEPT !.remaining = @ - take[b]]
        /\ bs[b] \in Bucket
  BY BucketFacts DEF Reduced
<1>2. \A b \in BucketIds :
        /\ cs[b].remaining = bs[b].remaining - take[b]
        /\ cs[b].reserved = bs[b].reserved - Nothing[b]
        /\ cs[b].reserved = bs[b].reserved
        /\ cs[b].amount = bs[b].amount
        /\ cs[b] \in Bucket
  <2> SUFFICES ASSUME NEW b \in BucketIds
               PROVE  /\ cs[b].remaining = bs[b].remaining - take[b]
                      /\ cs[b].reserved = bs[b].reserved - Nothing[b]
                      /\ cs[b].reserved = bs[b].reserved
                      /\ cs[b].amount = bs[b].amount
                      /\ cs[b] \in Bucket
    OBVIOUS
  <2> HIDE DEF cs
  <2>1. take[b] <= bs[b].remaining /\ take[b] \in Nat /\ bs[b].reserved \in Nat
    BY BucketFacts DEF Amounts
  <2>2. Nothing[b] = 0
    BY DEF Nothing
  <2>3. cs[b].remaining = bs[b].remaining - take[b] /\ cs[b].reserved = bs[b].reserved
    BY <1>1 DEF Bucket
  <2>4. cs[b].amount = bs[b].amount
    BY <1>1 DEF Bucket
  <2>5. cs[b].remaining \in Nat /\ cs[b].reserved = bs[b].reserved - Nothing[b]
    BY <2>1, <2>2, <2>3, BucketFacts
  <2>6. cs[b] \in Bucket
    <3>1. bs[b].remaining - take[b] \in Nat
      BY <2>3, <2>5
    <3>2. [bs[b] EXCEPT !.remaining = @ - take[b]] \in Bucket
      BY <1>1, <3>1, BucketFields
    <3> QED
      BY <1>1, <3>2, Zenon
  <2> QED
    BY <2>3, <2>4, <2>5, <2>6
<1>3. BucketRows(cs)
  <2>1. cs \in [BucketIds -> Bucket]
    BY <1>2 DEF Reduced
  <2> HIDE DEF cs
  <2> QED
    BY <1>2, <2>1, BucketFacts DEF BucketRows, BucketsAccepted, Amounts
<1> HIDE DEF cs
<1>4. Left(cs) = Left(bs) - AllocationTotal(take)
  BY <1>2, NothingIsNone, ColumnsMove
<1> QED
  BY <1>2, <1>3, <1>4 DEF cs

\* A hold that the buckets can take.
LEMMA HeldColumns ==
  ASSUME NEW bs, BucketRows(bs), NEW alloc, Amounts(alloc),
         \A b \in BucketIds : alloc[b] <= Unheld(bs)[b]
  PROVE  /\ BucketRows(Held(bs, alloc))
         /\ Left(Held(bs, alloc)) = Left(bs)
         /\ HeldIn(Held(bs, alloc)) = HeldIn(bs) + AllocationTotal(alloc)
         /\ \A b \in BucketIds :
              /\ Held(bs, alloc)[b].remaining = bs[b].remaining
              /\ Held(bs, alloc)[b].reserved = bs[b].reserved + alloc[b]
              /\ Held(bs, alloc)[b].amount = bs[b].amount
<1> DEFINE cs == Held(bs, alloc)
<1>1. \A b \in BucketIds :
        /\ cs[b] = [bs[b] EXCEPT !.reserved = @ + alloc[b]]
        /\ bs[b] \in Bucket
  BY BucketFacts DEF Held
<1>2. \A b \in BucketIds :
        /\ cs[b].remaining = bs[b].remaining
        /\ cs[b].reserved = bs[b].reserved + alloc[b]
        /\ cs[b].amount = bs[b].amount
        /\ cs[b] \in Bucket
        /\ bs[b].remaining = cs[b].remaining - Nothing[b]
        /\ bs[b].reserved = cs[b].reserved - alloc[b]
  <2> SUFFICES ASSUME NEW b \in BucketIds
               PROVE  /\ cs[b].remaining = bs[b].remaining
                      /\ cs[b].reserved = bs[b].reserved + alloc[b]
                      /\ cs[b].amount = bs[b].amount
                      /\ cs[b] \in Bucket
                      /\ bs[b].remaining = cs[b].remaining - Nothing[b]
                      /\ bs[b].reserved = cs[b].reserved - alloc[b]
    OBVIOUS
  <2> HIDE DEF cs
  <2>1. alloc[b] \in Nat /\ bs[b].reserved \in Nat /\ bs[b].remaining \in Nat
    BY BucketFacts DEF Amounts
  <2>2. Nothing[b] = 0
    BY DEF Nothing
  <2>3. cs[b].remaining = bs[b].remaining /\ cs[b].reserved = bs[b].reserved + alloc[b]
    BY <1>1 DEF Bucket
  <2>4. cs[b].amount = bs[b].amount
    BY <1>1 DEF Bucket
  <2>5. /\ cs[b].reserved \in Nat
        /\ bs[b].remaining = cs[b].remaining - Nothing[b]
        /\ bs[b].reserved = cs[b].reserved - alloc[b]
    BY <2>1, <2>2, <2>3
  <2>6. cs[b] \in Bucket
    <3>1. bs[b].reserved + alloc[b] \in Nat
      BY <2>3, <2>5
    <3>2. [bs[b] EXCEPT !.reserved = @ + alloc[b]] \in Bucket
      BY <1>1, <3>1, BucketFields
    <3> QED
      BY <1>1, <3>2, Zenon
  <2> QED
    BY <2>3, <2>4, <2>5, <2>6
<1>3. BucketRows(cs)
  <2>1. cs \in [BucketIds -> Bucket]
    BY <1>2 DEF Held
  <2> HIDE DEF cs
  <2> QED
    BY <1>2, <2>1, BucketFacts DEF BucketRows, BucketsAccepted, Amounts
<1> HIDE DEF cs
<1>4. /\ Left(bs) = Left(cs) - AllocationTotal(Nothing)
      /\ HeldIn(bs) = HeldIn(cs) - AllocationTotal(alloc)
  BY <1>2, <1>3, NothingIsNone, ColumnsMove
<1> QED
  BY <1>2, <1>3, <1>4, NothingIsNone, TotalIs, ColumnSums DEF cs

\* A hold that goes, and what is charged of it.
LEMMA UnholdColumns ==
  ASSUME NEW bs, BucketRows(bs), NEW alloc, Amounts(alloc), NEW charge, Amounts(charge),
         \A b \in BucketIds : alloc[b] <= bs[b].reserved /\ charge[b] <= alloc[b]
  PROVE  /\ BucketRows(Unhold(bs, alloc, charge))
         /\ Left(Unhold(bs, alloc, charge)) = Left(bs) - AllocationTotal(charge)
         /\ HeldIn(Unhold(bs, alloc, charge)) = HeldIn(bs) - AllocationTotal(alloc)
         /\ \A b \in BucketIds :
              /\ Unhold(bs, alloc, charge)[b].remaining = bs[b].remaining - charge[b]
              /\ Unhold(bs, alloc, charge)[b].reserved = bs[b].reserved - alloc[b]
              /\ Unhold(bs, alloc, charge)[b].amount = bs[b].amount
<1> DEFINE cs == Unhold(bs, alloc, charge)
<1>1. \A b \in BucketIds :
        /\ cs[b] = [bs[b] EXCEPT !.reserved = @ - alloc[b], !.remaining = @ - charge[b]]
        /\ bs[b] \in Bucket
  BY BucketFacts DEF Unhold
<1>2. \A b \in BucketIds :
        /\ cs[b].remaining = bs[b].remaining - charge[b]
        /\ cs[b].reserved = bs[b].reserved - alloc[b]
        /\ cs[b].amount = bs[b].amount
        /\ cs[b] \in Bucket
  <2> SUFFICES ASSUME NEW b \in BucketIds
               PROVE  /\ cs[b].remaining = bs[b].remaining - charge[b]
                      /\ cs[b].reserved = bs[b].reserved - alloc[b]
                      /\ cs[b].amount = bs[b].amount
                      /\ cs[b] \in Bucket
    OBVIOUS
  <2> HIDE DEF cs
  <2>1. /\ alloc[b] \in Nat /\ charge[b] \in Nat
        /\ bs[b].reserved \in Nat /\ bs[b].remaining \in Nat
        /\ bs[b].reserved <= bs[b].remaining
    BY BucketFacts DEF Amounts
  <2>2. /\ cs[b].remaining = bs[b].remaining - charge[b]
        /\ cs[b].reserved = bs[b].reserved - alloc[b]
    BY <1>1 DEF Bucket
  <2>3. cs[b].amount = bs[b].amount
    BY <1>1 DEF Bucket
  <2>4. cs[b].remaining \in Nat /\ cs[b].reserved \in Nat
    BY <2>1, <2>2
  <2>5. cs[b] \in Bucket
    <3>1. bs[b].remaining - charge[b] \in Nat /\ bs[b].reserved - alloc[b] \in Nat
      BY <2>2, <2>4
    <3>2. [bs[b] EXCEPT !.reserved = @ - alloc[b], !.remaining = @ - charge[b]] \in Bucket
      BY <1>1, <3>1, BucketFields
    <3> QED
      BY <1>1, <3>2, Zenon
  <2> QED
    BY <2>2, <2>3, <2>5
<1>3. BucketRows(cs)
  <2>1. cs \in [BucketIds -> Bucket]
    BY <1>2 DEF Unhold
  <2> HIDE DEF cs
  <2> QED
    BY <1>2, <2>1, BucketFacts DEF BucketRows, BucketsAccepted, Amounts
<1> HIDE DEF cs
<1>4. /\ Left(cs) = Left(bs) - AllocationTotal(charge)
      /\ HeldIn(cs) = HeldIn(bs) - AllocationTotal(alloc)
  <2>1. \A b \in BucketIds : /\ cs[b].remaining = bs[b].remaining - charge[b]
                             /\ cs[b].reserved = bs[b].reserved - alloc[b]
    BY <1>2
  <2> QED
    BY <2>1, ColumnsMove
<1> QED
  BY <1>2, <1>3, <1>4 DEF cs

\* A fresh grant is a row of the table.
LEMMA GrantedFields ==
  ASSUME NEW n \in Nat, NEW t \in Nat, NEW v \in Nat
  PROVE  /\ Granted(n, t, v) \in Bucket
         /\ Granted(n, t, v).amount = n /\ Granted(n, t, v).remaining = n
         /\ Granted(n, t, v).reserved = 0
BY DEF Granted, Bucket, ExpiryFor, Never

\* A bucket that is granted where there was none.
LEMMA GrantedColumns ==
  ASSUME NEW bs, BucketRows(bs), NEW g \in BucketIds, bs[g].amount = 0,
         NEW n \in Nat, NEW t \in Nat, NEW v \in Nat,
         NEW cs \in [BucketIds -> Bucket], cs[g] = Granted(n, t, v),
         \A b \in BucketIds \ {g} : cs[b] = bs[b]
  PROVE  /\ BucketRows(cs)
         /\ Left(cs) = Left(bs) + n
         /\ \A b \in BucketIds : cs[b].reserved = bs[b].reserved
<1> DEFINE f == [b \in BucketIds |-> bs[b].remaining]
           h == [b \in BucketIds |-> cs[b].remaining]
<1>2. cs[g].amount = n /\ cs[g].remaining = n /\ cs[g].reserved = 0
  BY GrantedFields
<1>3. bs[g].remaining = 0 /\ bs[g].reserved = 0
  BY BucketFacts
<1>4. BucketRows(cs)
  BY <1>2 DEF BucketRows, BucketsAccepted
<1>5. Left(bs) = SumFunctionOnSet(f, BucketIds) /\ Left(cs) = SumFunctionOnSet(h, BucketIds)
  BY DEF Left, SumFunction
<1>6. \A b \in BucketIds : f[b] \in Int /\ h[b] \in Int
  BY <1>4, BucketFacts
<1>7. (\A b \in BucketIds \ {g} : f[b] = h[b]) /\ f[g] = 0 /\ h[g] = n
  BY <1>2, <1>3
<1> HIDE DEF f, h
<1>8. SumFunctionOnSet(h, BucketIds) = SumFunctionOnSet(f, BucketIds) - f[g] + h[g]
  <2>1. \A ff, hh :
          /\ \A b \in BucketIds : ff[b] \in Int /\ hh[b] \in Int
          /\ \A b \in BucketIds \ {g} : ff[b] = hh[b]
          => SumFunctionOnSet(hh, BucketIds) = SumFunctionOnSet(ff, BucketIds) - ff[g] + hh[g]
    <3>1. IsFiniteSet(BucketIds)
      BY IdsAssumption
    <3> QED
      BY <3>1, SumChanges
  <2> QED
    BY <1>6, <1>7, <2>1
<1>9. SumFunctionOnSet(f, BucketIds) \in Int
  BY <1>6, SumInt, IdsAssumption
<1>10. Left(cs) = Left(bs) + n
  BY <1>5, <1>7, <1>8, <1>9
<1>11. \A b \in BucketIds : cs[b].reserved = bs[b].reserved
  BY <1>2, <1>3
<1> QED
  BY <1>4, <1>10, <1>11

-----------------------------------------------------------------------------
(* The invariant of the ledger. *)

\* TypeOK, with the tables finite.
Types ==
  /\ wallet \in Wallet
  /\ BucketRows(buckets)
  /\ reservations \in [ReservationIds -> Reservation]
  /\ Rows(ledger)
  /\ now \in 1..MaxTime

\* The key of a grant is used before its bucket is there.
GrantsRecorded == \A b \in BucketIds : Exists(b) => Recorded(<<"grant", b, 0>>)

\* An open hold is frozen in the buckets to the last credit.
HoldsAreWhole ==
  \A r \in Open : SumFunction(reservations[r].allocations) = reservations[r].estimate

\* What is held, in the three places that record it and in the buckets' total.
Holds ==
  /\ HoldsAreBacked
  /\ HoldsAreWhole
  /\ wallet.reserved = HeldIn(buckets)

\* The balance, in the two other places it can be read from.
Books == LedgerReplays /\ BalanceIsInBuckets

\* The inductive invariant.
LedgerInv == Types /\ GrantsRecorded /\ BoundariesWhole /\ Holds /\ Books

\* Only so many reservations can be open.
LEMMA OpenIsFinite == IsFiniteSet(Open) /\ Open \subseteq ReservationIds
BY IdsAssumption, FS_Subset DEF Open

\* The fields of a reservation.
LEMMA OpenRow ==
  ASSUME Types, NEW r \in ReservationIds
  PROVE  /\ reservations[r].estimate \in Nat /\ Amounts(reservations[r].allocations)
         /\ r \in Open <=> reservations[r].status = "OPEN"
<1>1. reservations[r] \in Reservation
  BY DEF Types
<1>2. reservations[r].estimate \in Nat /\ reservations[r].allocations \in [BucketIds -> Nat]
  BY <1>1 DEF Reservation
<1> QED
  BY <1>2 DEF Amounts, Open

\* A replay is a number.
LEMMA ReplayedInt ==
  ASSUME NEW R, Rows(R)
  PROVE  Replayed(R) \in Int
<1>1. R \cap {} = {} /\ Rows({})
  BY PostsNone DEF Posts
<1> QED
  BY <1>1, ReplayedUnion

\* And so is what operators entered.
LEMMA AdjustedInt ==
  ASSUME Rows(ledger)
  PROVE  Adjusted \in Int
<1>1. Rows({row \in ledger : row.key[1] = "adjust"})
  BY FS_Subset DEF Rows
<1> QED
  BY <1>1, ReplayedInt DEF Adjusted

\* The balance, the buckets and the ledger move by the same amount.
LEMMA BooksMove ==
  ASSUME Types, Books, NEW rows, NEW n, Append(rows), Posts(rows, n),
         wallet'.balance = wallet.balance + n, Left(buckets') = Left(buckets) + n
  PROVE  Rows(ledger') /\ Books'
<1>1. /\ Rows(ledger') /\ Replayed(ledger') = Replayed(ledger) + n
      /\ Adjusted' = Adjusted
  BY AppendReplays DEF Posts, Types
<1>2. Adjusted \in Int /\ Left(buckets) \in Int /\ n \in Int
  BY AdjustedInt, ColumnSums, ReplayedInt DEF Types, Posts
<1>3. wallet.balance = Replayed(ledger) /\ wallet.balance = Left(buckets) + Adjusted
  BY DEF Books, LedgerReplays, BalanceIsInBuckets, Left
<1>4. wallet'.balance = Replayed(ledger') /\ wallet'.balance = Left(buckets') + Adjusted'
  BY <1>1, <1>2, <1>3
<1> QED
  BY <1>1, <1>4 DEF Books, LedgerReplays, BalanceIsInBuckets, Left

\* A transaction that keeps the amounts of the buckets.
LEMMA GrantsStay ==
  ASSUME GrantsRecorded, NEW rows, Append(rows),
         \A b \in BucketIds : buckets'[b].amount = buckets[b].amount
  PROVE  GrantsRecorded'
BY RecordedStays DEF GrantsRecorded, Exists

\* A transaction that leaves the holds alone.
LEMMA HoldsStay ==
  ASSUME Types, Holds, UNCHANGED reservations, wallet'.reserved = wallet.reserved,
         \A b \in BucketIds : buckets'[b].reserved = buckets[b].reserved
  PROVE  Holds'
<1>1. Open' = Open
  BY DEF Open
<1>2. HoldsAreBacked'
  BY <1>1 DEF Holds, HoldsAreBacked
<1>3. HoldsAreWhole'
  BY <1>1 DEF Holds, HoldsAreWhole
<1>4. HeldIn(buckets') = HeldIn(buckets)
  BY DEF HeldIn
<1> QED
  BY <1>2, <1>3, <1>4 DEF Holds

\* A hold that is added to the open ones.
LEMMA HoldBegins ==
  ASSUME Types, Types', Holds, NEW r \in ReservationIds, r \notin Open,
         reservations'[r].status = "OPEN",
         \A q \in ReservationIds \ {r} : reservations'[q] = reservations[q],
         SumFunction(reservations'[r].allocations) = reservations'[r].estimate,
         wallet'.reserved = wallet.reserved + reservations'[r].estimate,
         HeldIn(buckets') = HeldIn(buckets) + reservations'[r].estimate,
         \A b \in BucketIds :
           buckets'[b].reserved = buckets[b].reserved + reservations'[r].allocations[b]
  PROVE  Holds'
<1>1. Open' = Open \cup {r}
  BY DEF Open
<1>2. /\ \A q \in Open \cup {r} : /\ reservations'[q].estimate \in Int
                                  /\ Amounts(reservations'[q].allocations)
      /\ \A q \in Open : reservations'[q] = reservations[q]
  <2>1. \A q \in ReservationIds : /\ reservations'[q].estimate \in Int
                                  /\ Amounts(reservations'[q].allocations)
    <3> SUFFICES ASSUME NEW q \in ReservationIds
                 PROVE  /\ reservations'[q].estimate \in Int
                        /\ Amounts(reservations'[q].allocations)
      OBVIOUS
    <3>1. reservations'[q] \in Reservation
      BY DEF Types
    <3> QED
      BY <3>1 DEF Reservation, Amounts
  <2> QED
    BY <2>1, OpenIsFinite
<1>3. ASSUME NEW b \in BucketIds
      PROVE  buckets'[b].reserved
               = SumFunction([q \in Open' |-> reservations'[q].allocations[b]])
  <2> DEFINE f == [q \in Open |-> reservations[q].allocations[b]]
             g == [q \in Open \cup {r} |-> reservations'[q].allocations[b]]
  <2>1. /\ DOMAIN f = Open /\ DOMAIN g = Open \cup {r}
        /\ \A q \in Open \cup {r} : g[q] \in Int
        /\ \A q \in Open : f[q] = g[q]
    BY <1>2 DEF Amounts
  <2>2. g[r] = reservations'[r].allocations[b] /\ buckets[b].reserved = SumFunction(f)
    BY DEF Holds, HoldsAreBacked
  <2>3. SumFunction(g) = SumFunction([q \in Open' |-> reservations'[q].allocations[b]])
    BY <1>1, Zenon
  <2> HIDE DEF f, g
  <2>4. Extends(f, g, r)
    BY <2>1, OpenIsFinite DEF Extends
  <2>5. SumFunction(g) = SumFunction(f) + g[r]
    BY <2>4, SumExtends
  <2> QED
    BY <2>2, <2>3, <2>5
<1>4. wallet'.reserved = SumFunction([q \in Open' |-> reservations'[q].estimate])
  <2> DEFINE f == [q \in Open |-> reservations[q].estimate]
             g == [q \in Open \cup {r} |-> reservations'[q].estimate]
  <2>1. /\ DOMAIN f = Open /\ DOMAIN g = Open \cup {r}
        /\ \A q \in Open \cup {r} : g[q] \in Int
        /\ \A q \in Open : f[q] = g[q]
    BY <1>2
  <2>2. g[r] = reservations'[r].estimate /\ wallet.reserved = SumFunction(f)
    BY DEF Holds, HoldsAreBacked
  <2>3. SumFunction(g) = SumFunction([q \in Open' |-> reservations'[q].estimate])
    BY <1>1, Zenon
  <2> HIDE DEF f, g
  <2>4. Extends(f, g, r)
    BY <2>1, OpenIsFinite DEF Extends
  <2>5. SumFunction(g) = SumFunction(f) + g[r]
    BY <2>4, SumExtends
  <2> QED
    BY <2>2, <2>3, <2>5
<1>5. HoldsAreWhole'
  BY <1>1, <1>2 DEF Holds, HoldsAreWhole
<1> QED
  BY <1>3, <1>4, <1>5 DEF Holds, HoldsAreBacked

\* A hold that leaves them.
LEMMA HoldEnds ==
  ASSUME Types, Types', Holds, NEW r \in Open,
         reservations'[r].status # "OPEN",
         \A q \in ReservationIds \ {r} : reservations'[q] = reservations[q],
         wallet'.reserved = wallet.reserved - reservations[r].estimate,
         HeldIn(buckets') = HeldIn(buckets) - reservations[r].estimate,
         \A b \in BucketIds :
           buckets'[b].reserved = buckets[b].reserved - reservations[r].allocations[b]
  PROVE  Holds'
<1>1. Open' = Open \ {r} /\ Open = Open' \cup {r} /\ r \notin Open' /\ IsFiniteSet(Open')
  BY OpenIsFinite, FS_Subset DEF Open
<1>2. /\ \A q \in Open : /\ reservations[q].estimate \in Int
                         /\ Amounts(reservations[q].allocations)
      /\ \A q \in Open' : reservations'[q] = reservations[q]
  BY <1>1, OpenIsFinite, OpenRow
<1>3. ASSUME NEW b \in BucketIds
      PROVE  buckets'[b].reserved
               = SumFunction([q \in Open' |-> reservations'[q].allocations[b]])
  <2> DEFINE f == [q \in Open |-> reservations[q].allocations[b]]
             g == [q \in Open' |-> reservations'[q].allocations[b]]
  <2>1. /\ DOMAIN f = Open' \cup {r} /\ DOMAIN g = Open'
        /\ \A q \in Open' \cup {r} : f[q] \in Int
        /\ \A q \in Open' : g[q] = f[q]
    BY <1>1, <1>2 DEF Amounts
  <2>2. f[r] = reservations[r].allocations[b] /\ buckets[b].reserved = SumFunction(f)
    BY DEF Holds, HoldsAreBacked
  <2> HIDE DEF f, g
  <2>3. SumFunction(f) = SumFunction(g) + f[r] /\ SumFunction(g) \in Int
    <3>1. Extends(g, f, r)
      BY <1>1, <2>1 DEF Extends
    <3> QED
      BY <3>1, SumExtends
  <2>4. f[r] \in Int
    BY <2>1
  <2>5. buckets'[b].reserved = SumFunction(g)
    BY <2>2, <2>3, <2>4
  <2> QED
    BY <2>5 DEF g
<1>4. wallet'.reserved = SumFunction([q \in Open' |-> reservations'[q].estimate])
  <2> DEFINE f == [q \in Open |-> reservations[q].estimate]
             g == [q \in Open' |-> reservations'[q].estimate]
  <2>1. /\ DOMAIN f = Open' \cup {r} /\ DOMAIN g = Open'
        /\ \A q \in Open' \cup {r} : f[q] \in Int
        /\ \A q \in Open' : g[q] = f[q]
    BY <1>1, <1>2
  <2>2. f[r] = reservations[r].estimate /\ wallet.reserved = SumFunction(f)
    BY DEF Holds, HoldsAreBacked
  <2> HIDE DEF f, g
  <2>3. SumFunction(f) = SumFunction(g) + f[r] /\ SumFunction(g) \in Int
    <3>1. Extends(g, f, r)
      BY <1>1, <2>1 DEF Extends
    <3> QED
      BY <3>1, SumExtends
  <2>4. f[r] \in Int
    BY <2>1
  <2>5. wallet'.reserved = SumFunction(g)
    BY <2>2, <2>3, <2>4
  <2> QED
    BY <2>5 DEF g
<1>5. HoldsAreWhole'
  BY <1>1, <1>2 DEF Holds, HoldsAreWhole
<1>6. wallet'.reserved = HeldIn(buckets')
  BY DEF Holds
<1> QED
  BY <1>3, <1>4, <1>5, <1>6 DEF Holds, HoldsAreBacked

\* What a hold froze is part of what its buckets hold, and of what the wallet does.
LEMMA HoldIsBacked ==
  ASSUME Types, Holds, NEW r \in Open
  PROVE  /\ reservations[r].estimate <= wallet.reserved
         /\ \A b \in BucketIds : reservations[r].allocations[b] <= buckets[b].reserved
<1>1. IsFiniteSet(Open) /\ {r} \in SUBSET Open /\ IsFiniteSet({}) /\ r \notin {} /\ {} \cup {r} = {r}
  BY OpenIsFinite, FS_EmptySet
<1>2. \A q \in Open : /\ reservations[q].estimate \in Nat
                      /\ Amounts(reservations[q].allocations)
  BY OpenIsFinite, OpenRow
<1>3. ASSUME NEW f, DOMAIN f = Open, \A q \in Open : f[q] \in Nat
      PROVE  f[r] <= SumFunction(f)
  <2>1. SumFunctionOnSet(f, {r}) <= SumFunctionOnSet(f, Open)
    BY <1>1, <1>3, SumSubset
  <2>2. SumFunctionOnSet(f, {r}) = f[r] + SumFunctionOnSet(f, {})
    <3>1. \A y \in {} \cup {r} : f[y] \in Int
      BY <1>3
    <3>2. SumFunctionOnSet(f, {} \cup {r}) = f[r] + SumFunctionOnSet(f, {})
      BY <1>1, <3>1, SumInserts
    <3> QED
      BY <1>1, <3>2, Zenon
  <2>3. SumFunction(f) = SumFunctionOnSet(f, Open)
    BY <1>3, Zenon DEF SumFunction
  <2> QED
    BY <1>3, <2>1, <2>2, <2>3, SumEmpty
<1>4. reservations[r].estimate <= wallet.reserved
  <2> DEFINE f == [q \in Open |-> reservations[q].estimate]
  <2>1. f[r] = reservations[r].estimate /\ wallet.reserved = SumFunction(f)
    BY DEF Holds, HoldsAreBacked
  <2>2. DOMAIN f = Open /\ \A q \in Open : f[q] \in Nat
    BY <1>2
  <2> HIDE DEF f
  <2> QED
    BY <1>3, <2>1, <2>2
<1>5. ASSUME NEW b \in BucketIds
      PROVE  reservations[r].allocations[b] <= buckets[b].reserved
  <2> DEFINE f == [q \in Open |-> reservations[q].allocations[b]]
  <2>1. f[r] = reservations[r].allocations[b] /\ buckets[b].reserved = SumFunction(f)
    BY DEF Holds, HoldsAreBacked
  <2>2. DOMAIN f = Open /\ \A q \in Open : f[q] \in Nat
    BY <1>2 DEF Amounts
  <2> HIDE DEF f
  <2> QED
    BY <1>3, <2>1, <2>2
<1> QED
  BY <1>4, <1>5
-----------------------------------------------------------------------------
(* Every transaction keeps it. *)

\* What each transaction is shown to keep; BoundariesWhole has its own proof.
Kept == Types' /\ GrantsRecorded' /\ Holds' /\ Books'

\* The columns of the wallet.
LEMMA WalletFacts ==
  ASSUME Types
  PROVE  /\ wallet.balance \in Nat /\ wallet.reserved \in Nat
         /\ wallet.lifetimeGranted \in Int /\ wallet.lifetimeConsumed \in Int
BY DEF Types, Wallet

\* A time a transaction reads is a date.
LEMMA ReadTimesNat == \A t \in ReadTimes : t \in Nat \ {0}
BY TimeAssumption DEF ReadTimes

\* A wallet whose columns are these.
LEMMA WalletRow ==
  ASSUME NEW w, NEW b \in Nat, NEW r \in Nat, NEW g \in Int, NEW c \in Int,
         w = [balance |-> b, reserved |-> r, lifetimeGranted |-> g, lifetimeConsumed |-> c]
  PROVE  w \in Wallet /\ w.balance = b /\ w.reserved = r
BY DEF Wallet

\* What a grant, a debit and a settlement leave of the wallet.
LEMMA WalletUpdates ==
  ASSUME Types, NEW w, NEW n \in Int, wallet.balance + n \in Nat,
         \/ w = WalletGranted(wallet, n)
         \/ w = WalletDebited(wallet, -n)
  PROVE  w \in Wallet /\ w.balance = wallet.balance + n /\ w.reserved = wallet.reserved
<1>1. wallet \in Wallet
  BY DEF Types
<1>2. CASE w = WalletGranted(wallet, n)
  <2>1. w = [balance |-> wallet.balance + n, reserved |-> wallet.reserved,
             lifetimeGranted |-> wallet.lifetimeGranted + n,
             lifetimeConsumed |-> wallet.lifetimeConsumed]
    BY <1>1, <1>2 DEF Wallet, WalletGranted
  <2>2. wallet.lifetimeGranted + n \in Int
    BY WalletFacts
  <2> QED
    BY <2>1, <2>2, WalletFacts, WalletRow
<1>3. CASE w = WalletDebited(wallet, -n)
  <2>1. wallet.balance - (-n) = wallet.balance + n
    BY WalletFacts
  <2>2. w = [balance |-> wallet.balance + n, reserved |-> wallet.reserved,
             lifetimeGranted |-> wallet.lifetimeGranted,
             lifetimeConsumed |-> wallet.lifetimeConsumed]
    BY <1>1, <1>3, <2>1 DEF Wallet, WalletDebited
  <2> QED
    BY <2>2, WalletFacts, WalletRow
<1> QED
  BY <1>2, <1>3

\* The columns after a settlement.
LEMMA SettledWallet ==
  ASSUME Types, NEW res, NEW n \in Nat, res.estimate \in Nat,
         NEW w, w = WalletSettled(wallet, res, n)
  PROVE  /\ w.balance = wallet.balance - n
         /\ w.reserved = wallet.reserved - res.estimate
         /\ w.balance \in Nat /\ w.reserved \in Nat => w \in Wallet
<1>1. wallet \in Wallet
  BY DEF Types
<1>2. w = [balance |-> wallet.balance - n, reserved |-> wallet.reserved - res.estimate,
           lifetimeGranted |-> wallet.lifetimeGranted,
           lifetimeConsumed |-> wallet.lifetimeConsumed + n]
  BY <1>1 DEF Wallet, WalletSettled
<1>3. wallet.lifetimeConsumed + n \in Int
  BY WalletFacts
<1> QED
  BY <1>2, <1>3, WalletFacts, WalletRow

\* A grant puts the same amount in a new bucket, the balance and the ledger.
LEMMA GrantKeeps ==
  ASSUME LedgerInv, NEW g \in GrantIds, NEW n \in GrantAmounts, NEW v \in Validities,
         NEW t \in ReadTimes, Grant(g, n, v, t)
  PROVE  Kept
<1> DEFINE rows == {Row(<<"grant", g, 0>>, n, wallet.balance + n)}
<1>1. g \in BucketIds /\ g \in Nat /\ n \in Nat /\ v \in Nat /\ t \in Nat
  BY IdsAssumption, AmountsAssumption, ReadTimesNat DEF BucketIds
<1>2. Types /\ Holds /\ Books /\ GrantsRecorded /\ BucketRows(buckets)
  BY DEF LedgerInv, Types
<1>3. Append(rows) /\ UNCHANGED <<reservations, now>>
  BY DEF Grant
<1>4. <<"grant", g, 0>> \in Keys(rows)
  BY DEF Keys, Row
<1>5. Posts(rows, n)
  BY <1>1, <1>2, WalletFacts, RowPosts DEF Tags
<1>6. /\ buckets' \in [BucketIds -> Bucket] /\ buckets'[g] = Granted(n, t, v)
      /\ \A b \in BucketIds \ {g} : buckets'[b] = buckets[b]
  BY <1>1, <1>2, GrantedFields DEF Grant, BucketRows
<1> HIDE DEF rows
<1>7. ~Recorded(<<"grant", g, 0>>) /\ Recorded(<<"grant", g, 0>>)'
  BY <1>3, <1>4 DEF Append, Recorded, Keys
<1>8. buckets[g].amount = 0
  BY <1>1, <1>2, <1>7, BucketFacts DEF GrantsRecorded, Exists
<1>9. /\ BucketRows(buckets') /\ Left(buckets') = Left(buckets) + n
      /\ \A b \in BucketIds : buckets'[b].reserved = buckets[b].reserved
  BY <1>1, <1>2, <1>6, <1>8, GrantedColumns
<1>10. /\ wallet' \in Wallet /\ wallet'.balance = wallet.balance + n
       /\ wallet'.reserved = wallet.reserved
  <2>1. wallet' = WalletGranted(wallet, n)
    BY DEF Grant
  <2>2. n \in Int /\ wallet.balance + n \in Nat
    BY <1>1, <1>2, WalletFacts
  <2> QED
    BY <1>2, <2>1, <2>2, WalletUpdates
<1>11. Rows(ledger') /\ Books'
  BY <1>2, <1>3, <1>5, <1>9, <1>10, BooksMove
<1>12. Types'
  BY <1>2, <1>3, <1>9, <1>10, <1>11 DEF Types
<1>13. Holds'
  BY <1>2, <1>3, <1>9, <1>10, HoldsStay
<1>14. GrantsRecorded'
  BY <1>2, <1>3, <1>6, <1>7, RecordedStays DEF GrantsRecorded, Exists
<1> QED
  BY <1>11, <1>12, <1>13, <1>14 DEF Kept

\* What a hold may take is free.
LEMMA LiveFacts ==
  ASSUME NEW bs, BucketRows(bs), NEW t
  PROVE  /\ Amounts(LiveUnheld(bs, t))
         /\ \A b \in BucketIds : LiveUnheld(bs, t)[b] <= Unheld(bs)[b]
<1>1. \A b \in BucketIds : /\ Unheld(bs)[b] \in Nat
                           /\ LiveUnheld(bs, t)[b] = Unheld(bs)[b] \/ LiveUnheld(bs, t)[b] = 0
  BY BucketFacts DEF LiveUnheld, Amounts
<1>2. DOMAIN LiveUnheld(bs, t) = BucketIds
  BY DEF LiveUnheld
<1> QED
  BY <1>1, <1>2 DEF Amounts

\* A hold that is granted is whole and fits the buckets.
LEMMA ReserveTakes ==
  ASSUME NEW bs, BucketRows(bs), NEW t, NEW n \in Nat,
         Shortfall(AllocateFifo(bs, LiveUnheld(bs, t), n), n) <= 0
  PROVE  LET alloc == AllocateFifo(bs, LiveUnheld(bs, t), n)
         IN  /\ Amounts(alloc) /\ AllocationTotal(alloc) = n
             /\ \A b \in BucketIds : /\ alloc[b] <= LiveUnheld(bs, t)[b]
                                     /\ alloc[b] <= Unheld(bs)[b]
<1> DEFINE live  == LiveUnheld(bs, t)
           alloc == AllocateFifo(bs, live, n)
<1>1. /\ AreBuckets(bs) /\ DOMAIN bs = BucketIds
      /\ \A b \in DOMAIN bs : live[b] \in Nat /\ live[b] <= Unheld(bs)[b]
      /\ \A b \in DOMAIN bs : Unheld(bs)[b] \in Nat
  BY BucketFacts, LiveFacts DEF Amounts
<1> HIDE DEF live
<1>2. Amounts(alloc) /\ \A b \in BucketIds : alloc[b] <= live[b]
  <2>1. \A b \in DOMAIN bs : live[b] \in Nat
    BY <1>1
  <2>2. /\ DOMAIN alloc = DOMAIN bs
        /\ \A b \in DOMAIN bs : alloc[b] \in Nat /\ alloc[b] <= live[b]
    BY <1>1, <2>1, AllocatesWithin
  <2> HIDE DEF alloc
  <2> QED
    BY <1>1, <2>2 DEF Amounts
<1>3. AllocationTotal(alloc) = IF SumFunctionOnSet(live, DOMAIN bs) < n
                               THEN SumFunctionOnSet(live, DOMAIN bs) ELSE n
  BY <1>1, AllocationIsExact
<1>4. SumFunctionOnSet(live, DOMAIN bs) \in Nat
  BY <1>1, SumNat, IdsAssumption
<1>5. n - AllocationTotal(alloc) <= 0
  BY DEF Shortfall, live
<1>6. AllocationTotal(alloc) = n
  BY <1>3, <1>4, <1>5
<1>7. \A b \in BucketIds : alloc[b] <= Unheld(bs)[b]
  BY <1>1, <1>2 DEF Amounts
<1> QED
  BY <1>2, <1>6, <1>7 DEF live

\* A hold moves the three columns of holds, and no balance.
LEMMA ReserveKeeps ==
  ASSUME LedgerInv, NEW r \in ReservationIds, NEW n \in Estimates, NEW t \in ReadTimes,
         Reserve(r, n, t)
  PROVE  Kept
<1> DEFINE alloc == AllocateFifo(buckets, LiveUnheld(buckets, t), n)
           res   == [status |-> "OPEN", estimate |-> n, settled |-> 0,
                     allocations |-> alloc, expiresAt |-> t + Ttl]
           rows  == {Row(<<"reserve", r, 0>>, 0, wallet.balance)}
<1>1. n \in Nat /\ t \in Nat /\ r \in Nat
  BY IdsAssumption, AmountsAssumption, ReadTimesNat
<1>2. Types /\ Holds /\ Books /\ GrantsRecorded /\ BucketRows(buckets)
  BY DEF LedgerInv, Types
<1>3. /\ reservations[r].status = "NONE"
      /\ Shortfall(alloc, n) <= 0
      /\ reservations' = [reservations EXCEPT ![r] = res]
      /\ buckets' = Held(buckets, alloc)
      /\ wallet' = [wallet EXCEPT !.reserved = @ + n]
      /\ Append(rows) /\ UNCHANGED now
  BY DEF Reserve
<1>4. /\ Amounts(alloc) /\ AllocationTotal(alloc) = n
      /\ \A b \in BucketIds : alloc[b] <= Unheld(buckets)[b]
  BY <1>1, <1>2, <1>3, ReserveTakes
<1>5. Posts(rows, 0)
  BY <1>1, <1>2, WalletFacts, RowPosts DEF Tags
<1>6. alloc \in [BucketIds -> Nat]
  <2>1. alloc = [b \in DOMAIN alloc |-> alloc[b]]
    BY DEF AllocateFifo
  <2> HIDE DEF alloc
  <2> QED
    BY <1>4, <2>1 DEF Amounts
<1> HIDE DEF alloc, rows
<1>7. res \in Reservation
  BY <1>1, <1>6, TimeAssumption DEF Reservation, Statuses
<1>8. /\ BucketRows(buckets') /\ Left(buckets') = Left(buckets)
      /\ HeldIn(buckets') = HeldIn(buckets) + n
      /\ \A b \in BucketIds : /\ buckets'[b].reserved = buckets[b].reserved + alloc[b]
                              /\ buckets'[b].amount = buckets[b].amount
  BY <1>2, <1>3, <1>4, HeldColumns
<1>9. /\ wallet' \in Wallet /\ wallet'.balance = wallet.balance
      /\ wallet'.reserved = wallet.reserved + n
  BY <1>1, <1>2, <1>3 DEF Types, Wallet
<1>10. /\ reservations' \in [ReservationIds -> Reservation]
       /\ reservations'[r] = res
       /\ \A q \in ReservationIds \ {r} : reservations'[q] = reservations[q]
  <2> HIDE DEF res
  <2> QED
    BY <1>2, <1>3, <1>7 DEF Types
<1>11. Rows(ledger') /\ Books'
  <2>1. wallet'.balance = wallet.balance + 0 /\ Left(buckets') = Left(buckets) + 0
    BY <1>2, <1>8, <1>9, WalletFacts, ColumnSums
  <2> QED
    BY <1>2, <1>3, <1>5, <2>1, BooksMove
<1>12. Types'
  BY <1>2, <1>3, <1>8, <1>9, <1>10, <1>11 DEF Types
<1>13. Holds'
  <2>1. /\ reservations'[r].status = "OPEN" /\ reservations'[r].estimate = n
        /\ reservations'[r].allocations = alloc
    BY <1>10
  <2>2. r \notin Open
    BY <1>3 DEF Open
  <2>3. SumFunction(alloc) = n
    BY <1>4 DEF AllocationTotal
  <2> HIDE DEF res
  <2> QED
    BY <1>2, <1>8, <1>9, <1>10, <1>12, <2>1, <2>2, <2>3, HoldBegins
<1>14. GrantsRecorded'
  BY <1>2, <1>3, <1>8, GrantsStay
<1> QED
  BY <1>11, <1>12, <1>13, <1>14 DEF Kept

\* The charge of a settlement: its cost, within the hold.
LEMMA SettleCharges ==
  ASSUME Types, Holds, NEW r \in Open, NEW n \in 0..reservations[r].estimate
  PROVE  LET charge == NarrowAllocation(buckets, reservations[r].allocations, n)
         IN  /\ Amounts(charge) /\ AllocationTotal(charge) = n
             /\ \A b \in BucketIds : charge[b] <= reservations[r].allocations[b]
<1> DEFINE frozen == reservations[r].allocations
           charge == NarrowAllocation(buckets, frozen, n)
<1>1. r \in ReservationIds /\ reservations[r].estimate \in Nat /\ Amounts(frozen)
  BY OpenIsFinite, OpenRow
<1>2. n \in Nat /\ n <= reservations[r].estimate
  BY <1>1
<1>3. AreBuckets(buckets) /\ DOMAIN buckets = BucketIds
  BY BucketFacts DEF Types
<1>4. SumFunctionOnSet(frozen, DOMAIN buckets) = reservations[r].estimate
  <2>1. SumFunction(frozen) = reservations[r].estimate
    BY DEF Holds, HoldsAreWhole
  <2>2. DOMAIN frozen = DOMAIN buckets
    BY <1>1, <1>3 DEF Amounts
  <2> HIDE DEF frozen
  <2> QED
    BY <2>1, <2>2, Zenon DEF SumFunction
<1>5. \A b \in DOMAIN buckets : frozen[b] \in Nat
  BY <1>1, <1>3 DEF Amounts
<1> HIDE DEF frozen
<1>6. /\ DOMAIN charge = DOMAIN buckets
      /\ AllocationTotal(charge) = n
      /\ \A b \in DOMAIN buckets : charge[b] \in Nat /\ charge[b] <= frozen[b]
  BY <1>2, <1>3, <1>4, <1>5, NarrowingChargesTheCost
<1> HIDE DEF charge
<1> QED
  BY <1>3, <1>6 DEF Amounts, charge, frozen

\* A settlement takes the hold away whole, and its cost from the balance, the
\* buckets and the ledger.
LEMMA SettleKeeps ==
  ASSUME LedgerInv, NEW r \in ReservationIds, NEW n \in 0..reservations[r].estimate,
         Settle(r, n)
  PROVE  Kept
<1> DEFINE res    == reservations[r]
           alloc  == res.allocations
           charge == NarrowAllocation(buckets, alloc, n)
           rows   == Debits("settle", r, buckets, charge, wallet.balance)
<1>1. Types /\ Holds /\ Books /\ GrantsRecorded /\ BucketRows(buckets)
  BY DEF LedgerInv, Types
<1>2. /\ res.status = "OPEN"
      /\ buckets' = Unhold(buckets, alloc, charge)
      /\ wallet' = WalletSettled(wallet, res, AllocationTotal(charge))
      /\ Accepted(wallet', buckets')
      /\ reservations' = [reservations EXCEPT ![r].status = "SETTLED",
                                              ![r].settled = AllocationTotal(charge)]
      /\ Append(rows) /\ UNCHANGED now
  BY DEF Settle
<1>3. r \in Open /\ r \in Nat /\ res.estimate \in Nat /\ n \in Nat /\ Amounts(alloc)
      /\ SumFunction(alloc) = res.estimate
  BY <1>1, <1>2, OpenRow, IdsAssumption DEF Open, Holds, HoldsAreWhole
<1>4. /\ Amounts(charge) /\ AllocationTotal(charge) = n
      /\ \A b \in BucketIds : charge[b] <= alloc[b]
  BY <1>1, <1>3, SettleCharges
<1>5. \A b \in BucketIds : alloc[b] <= buckets[b].reserved
  BY <1>1, <1>3, HoldIsBacked
<1>6. /\ reservations' \in [ReservationIds -> Reservation]
      /\ reservations'[r].status = "SETTLED"
      /\ \A q \in ReservationIds \ {r} : reservations'[q] = reservations[q]
  <2>1. reservations \in [ReservationIds -> Reservation]
    BY <1>1 DEF Types
  <2> HIDE DEF charge
  <2> QED
    BY <1>2, <1>3, <1>4, <2>1 DEF Reservation, Statuses
<1>7. Posts(rows, -n)
  <2>1. /\ "settle" \in Tags \ {"adjust"} /\ DOMAIN buckets = BucketIds
        /\ \A b \in BucketIds : charge[b] \in Nat
        /\ wallet.balance \in Int
    BY <1>1, <1>4, BucketFacts, WalletFacts DEF Tags, Amounts
  <2>2. SumFunctionOnSet(charge, BucketIds) = n
    BY <1>4, TotalIs
  <2> HIDE DEF charge
  <2>3. Posts(rows, - SumFunctionOnSet(charge, BucketIds))
    BY <1>3, <2>1, DebitsPost
  <2> QED
    BY <2>2, <2>3
<1> HIDE DEF charge, rows
<1>8. /\ BucketRows(buckets') /\ Left(buckets') = Left(buckets) - n
      /\ HeldIn(buckets') = HeldIn(buckets) - res.estimate
      /\ \A b \in BucketIds : /\ buckets'[b].reserved = buckets[b].reserved - alloc[b]
                              /\ buckets'[b].amount = buckets[b].amount
  <2>1. AllocationTotal(alloc) = res.estimate
    BY <1>3 DEF AllocationTotal
  <2> HIDE DEF alloc, res
  <2>2. \A b \in BucketIds : alloc[b] <= buckets[b].reserved /\ charge[b] <= alloc[b]
    BY <1>4, <1>5
  <2> QED
    BY <1>1, <1>2, <1>3, <1>4, <2>1, <2>2, UnholdColumns
<1>9. /\ wallet' \in Wallet /\ wallet'.balance = wallet.balance - n
      /\ wallet'.reserved = wallet.reserved - res.estimate
  <2>1. /\ wallet'.balance = wallet.balance - n
        /\ wallet'.reserved = wallet.reserved - res.estimate
        /\ wallet'.balance \in Nat /\ wallet'.reserved \in Nat => wallet' \in Wallet
    BY <1>1, <1>2, <1>3, <1>4, SettledWallet
  <2>2. wallet'.balance >= 0 /\ wallet'.reserved >= 0
    BY <1>2 DEF Accepted, WalletAccepted
  <2> QED
    BY <1>1, <1>3, <2>1, <2>2, WalletFacts
<1>10. Rows(ledger') /\ Books'
  <2>1. wallet'.balance = wallet.balance + (-n) /\ Left(buckets') = Left(buckets) + (-n)
    BY <1>1, <1>3, <1>8, <1>9, WalletFacts, ColumnSums
  <2> QED
    BY <1>1, <1>2, <1>7, <2>1, BooksMove
<1>11. Types'
  BY <1>1, <1>2, <1>6, <1>8, <1>9, <1>10 DEF Types
<1>12. Holds'
  BY <1>1, <1>3, <1>6, <1>8, <1>9, <1>11, HoldEnds
<1>13. GrantsRecorded'
  BY <1>1, <1>2, <1>8, GrantsStay
<1> QED
  BY <1>10, <1>11, <1>12, <1>13 DEF Kept

\* A release takes the hold away and charges nothing.
LEMMA CloseKeeps ==
  ASSUME LedgerInv, NEW r \in ReservationIds, NEW status \in Returned, Close(r, status)
  PROVE  Kept
<1> DEFINE res   == reservations[r]
           alloc == res.allocations
           rows  == {Row(<<"release", r, 0>>, 0, wallet.balance)}
<1>1. Types /\ Holds /\ Books /\ GrantsRecorded /\ BucketRows(buckets)
  BY DEF LedgerInv, Types
<1>2. /\ res.status = "OPEN"
      /\ buckets' = Unhold(buckets, alloc, Nothing)
      /\ wallet' = [wallet EXCEPT !.reserved = @ - res.estimate]
      /\ Accepted(wallet', buckets')
      /\ reservations' = [reservations EXCEPT ![r].status = status]
      /\ Append(rows) /\ UNCHANGED now
  BY DEF Close
<1>3. r \in Open /\ r \in Nat /\ res.estimate \in Nat /\ Amounts(alloc)
      /\ SumFunction(alloc) = res.estimate
  BY <1>1, <1>2, OpenRow, IdsAssumption DEF Open, Holds, HoldsAreWhole
<1>4. Amounts(Nothing) /\ AllocationTotal(Nothing) = 0
  BY NothingIsNone
<1>5. \A b \in BucketIds : alloc[b] <= buckets[b].reserved /\ Nothing[b] <= alloc[b]
  <2>1. \A b \in BucketIds : alloc[b] <= buckets[b].reserved
    BY <1>1, <1>3, HoldIsBacked
  <2>2. \A b \in BucketIds : Nothing[b] <= alloc[b]
    BY <1>3 DEF Nothing, Amounts
  <2> QED
    BY <2>1, <2>2
<1>6. /\ reservations' \in [ReservationIds -> Reservation]
      /\ reservations'[r].status # "OPEN"
      /\ \A q \in ReservationIds \ {r} : reservations'[q] = reservations[q]
  <2>1. reservations \in [ReservationIds -> Reservation]
    BY <1>1 DEF Types
  <2>2. status \in Statuses /\ status # "OPEN"
    BY DEF Returned, Statuses
  <2> QED
    BY <1>2, <2>1, <2>2 DEF Reservation
<1>7. Posts(rows, 0)
  BY <1>1, <1>3, WalletFacts, RowPosts DEF Tags
<1> HIDE DEF rows
<1>8. /\ BucketRows(buckets') /\ Left(buckets') = Left(buckets)
      /\ HeldIn(buckets') = HeldIn(buckets) - res.estimate
      /\ \A b \in BucketIds : /\ buckets'[b].reserved = buckets[b].reserved - alloc[b]
                              /\ buckets'[b].amount = buckets[b].amount
  <2>1. AllocationTotal(alloc) = res.estimate
    BY <1>3 DEF AllocationTotal
  <2> HIDE DEF alloc, res
  <2>2. /\ BucketRows(buckets') /\ Left(buckets') = Left(buckets) - AllocationTotal(Nothing)
        /\ HeldIn(buckets') = HeldIn(buckets) - AllocationTotal(alloc)
        /\ \A b \in BucketIds : /\ buckets'[b].reserved = buckets[b].reserved - alloc[b]
                                /\ buckets'[b].amount = buckets[b].amount
    BY <1>1, <1>2, <1>3, <1>4, <1>5, UnholdColumns
  <2>3. Left(buckets) \in Nat
    BY <1>1, ColumnSums
  <2> QED
    BY <1>4, <2>1, <2>2, <2>3
<1>9. /\ wallet' \in Wallet /\ wallet'.balance = wallet.balance
      /\ wallet'.reserved = wallet.reserved - res.estimate
  <2>1. wallet'.reserved >= 0
    BY <1>2 DEF Accepted, WalletAccepted
  <2>2. wallet'.reserved = wallet.reserved - res.estimate /\ wallet'.balance = wallet.balance
    BY <1>1, <1>2 DEF Types, Wallet
  <2>3. wallet.reserved - res.estimate \in Nat
    BY <1>1, <1>3, <2>1, <2>2, WalletFacts
  <2>4. wallet' \in Wallet
    BY <1>1, <1>2, <2>3 DEF Types, Wallet
  <2> QED
    BY <2>2, <2>4
<1>10. Rows(ledger') /\ Books'
  <2>1. wallet'.balance = wallet.balance + 0 /\ Left(buckets') = Left(buckets) + 0
    BY <1>1, <1>8, <1>9, WalletFacts, ColumnSums
  <2> QED
    BY <1>1, <1>2, <1>7, <2>1, BooksMove
<1>11. Types'
  BY <1>1, <1>2, <1>6, <1>8, <1>9, <1>10 DEF Types
<1>12. Holds'
  BY <1>1, <1>3, <1>6, <1>8, <1>9, <1>11, HoldEnds
<1>13. GrantsRecorded'
  BY <1>1, <1>2, <1>8, GrantsStay
<1> QED
  BY <1>10, <1>11, <1>12, <1>13 DEF Kept

\* What an expiry pass writes off is free.
LEMMA WriteOffFacts ==
  ASSUME NEW bs, BucketRows(bs), NEW t
  PROVE  /\ Amounts(WriteOffs(bs, t))
         /\ \A b \in BucketIds : WriteOffs(bs, t)[b] <= Unheld(bs)[b]
<1>1. \A b \in BucketIds : /\ Unheld(bs)[b] \in Nat
                           /\ WriteOffs(bs, t)[b] = Unheld(bs)[b] \/ WriteOffs(bs, t)[b] = 0
  BY BucketFacts DEF WriteOffs, Amounts
<1>2. DOMAIN WriteOffs(bs, t) = BucketIds
  BY DEF WriteOffs
<1> QED
  BY <1>1, <1>2 DEF Amounts

\* An expiry pass takes what is not held, from the buckets and the balance.
LEMMA ExpireKeeps ==
  ASSUME LedgerInv, NEW t \in ReadTimes, ExpireLapsedGrants(t)
  PROVE  Kept
<1> DEFINE off  == WriteOffs(buckets, t)
           n    == AllocationTotal(off)
           rows == Debits("expiry", 0, buckets, off, wallet.balance)
<1>1. Types /\ Holds /\ Books /\ GrantsRecorded /\ BucketRows(buckets)
  BY DEF LedgerInv, Types
<1>2. /\ buckets' = Reduced(buckets, off) /\ wallet' = WalletDebited(wallet, n)
      /\ Accepted(wallet', buckets') /\ Append(rows) /\ UNCHANGED <<reservations, now>>
  BY DEF ExpireLapsedGrants
<1>3. Amounts(off) /\ \A b \in BucketIds : off[b] <= Unheld(buckets)[b]
  BY <1>1, WriteOffFacts
<1> HIDE DEF off
<1>4. n \in Nat /\ n = SumFunctionOnSet(off, BucketIds)
  BY <1>3, TotalIs
<1>5. Posts(rows, -n)
  <2>1. /\ "expiry" \in Tags \ {"adjust"} /\ DOMAIN buckets = BucketIds
        /\ \A b \in BucketIds : off[b] \in Nat
        /\ wallet.balance \in Int
    BY <1>1, <1>3, BucketFacts, WalletFacts DEF Tags, Amounts
  <2>2. Posts(rows, - SumFunctionOnSet(off, BucketIds))
    BY <2>1, DebitsPost
  <2> QED
    BY <1>4, <2>2
<1> HIDE DEF n, rows
<1>6. /\ BucketRows(buckets') /\ Left(buckets') = Left(buckets) - n
      /\ \A b \in BucketIds : /\ buckets'[b].reserved = buckets[b].reserved
                              /\ buckets'[b].amount = buckets[b].amount
  BY <1>1, <1>2, <1>3, ReducedColumns DEF n
<1>7. /\ wallet' \in Wallet /\ wallet'.balance = wallet.balance + (-n)
      /\ wallet'.reserved = wallet.reserved
  <2>1. wallet'.balance >= 0
    BY <1>2 DEF Accepted, WalletAccepted
  <2>2. wallet'.balance = wallet.balance - n
    BY <1>1, <1>2 DEF Types, Wallet, WalletDebited
  <2>3. wallet.balance + (-n) \in Nat /\ -n \in Int /\ -(-n) = n
    BY <1>1, <1>4, <2>1, <2>2, WalletFacts
  <2>4. wallet' = WalletDebited(wallet, -(-n))
    BY <1>2, <2>3
  <2> QED
    BY <1>1, <2>3, <2>4, WalletUpdates
<1>8. Rows(ledger') /\ Books'
  <2>1. Left(buckets') = Left(buckets) + (-n)
    BY <1>1, <1>4, <1>6, ColumnSums
  <2> QED
    BY <1>1, <1>2, <1>5, <1>7, <2>1, BooksMove
<1>9. Types'
  BY <1>1, <1>2, <1>6, <1>7, <1>8 DEF Types
<1>10. Holds'
  BY <1>1, <1>2, <1>6, <1>7, HoldsStay
<1>11. GrantsRecorded'
  BY <1>1, <1>2, <1>6, GrantsStay
<1> QED
  BY <1>8, <1>9, <1>10, <1>11 DEF Kept

\* The one transaction that moves the balance and leaves the buckets.
LEMMA AdjustKeeps ==
  ASSUME LedgerInv, NEW a \in AdjustIds, NEW d \in Adjustments, Adjust(a, d)
  PROVE  Kept
<1> DEFINE rows == {Row(<<"adjust", a, 0>>, d, wallet.balance + d)}
<1>1. Types /\ Holds /\ Books /\ GrantsRecorded /\ BucketRows(buckets)
  BY DEF LedgerInv, Types
<1>2. Append(rows) /\ UNCHANGED <<buckets, reservations, now>>
  BY DEF Adjust
<1>3. a \in Nat /\ d \in Int /\ wallet.balance + d >= 0
  BY IdsAssumption, AmountsAssumption DEF Adjust
<1>4. /\ wallet' \in Wallet /\ wallet'.balance = wallet.balance + d
      /\ wallet'.reserved = wallet.reserved
  <2>1. wallet.balance + d \in Nat
    BY <1>1, <1>3, WalletFacts
  <2>2. CASE d > 0
    <3>1. wallet' = WalletGranted(wallet, d)
      BY <2>2 DEF Adjust
    <3> QED
      BY <1>1, <1>3, <2>1, <3>1, WalletUpdates
  <2>3. CASE ~(d > 0)
    <3>1. wallet' = [wallet EXCEPT !.balance = @ + d, !.lifetimeConsumed = @ - d]
      BY <2>3 DEF Adjust
    <3>2. wallet' = [balance |-> wallet.balance + d, reserved |-> wallet.reserved,
                     lifetimeGranted |-> wallet.lifetimeGranted,
                     lifetimeConsumed |-> wallet.lifetimeConsumed - d]
      BY <1>1, <3>1 DEF Types, Wallet
    <3>3. wallet.lifetimeConsumed - d \in Int
      BY <1>1, <1>3, WalletFacts
    <3> QED
      BY <1>1, <2>1, <3>2, <3>3, WalletFacts, WalletRow
  <2> QED
    BY <2>2, <2>3
<1>5. /\ Rows(rows) /\ Replayed(rows) = d
      /\ \A row \in rows : row.key[1] = "adjust"
  <2>1. wallet.balance + d \in Int
    BY <1>1, <1>3, WalletFacts
  <2>2. \A row \in rows : row.key[1] = "adjust"
    BY DEF Row
  <2> QED
    BY <1>3, <2>1, <2>2, RowPosts DEF Tags
<1> HIDE DEF rows
<1>6. /\ Rows(ledger') /\ Replayed(ledger') = Replayed(ledger) + d
      /\ Adjusted' = Adjusted + d
  BY <1>1, <1>2, <1>5, AppendReplays DEF Types
<1>7. Books'
  <2>1. Adjusted \in Int /\ Left(buckets) \in Int
    BY <1>1, AdjustedInt, ColumnSums DEF Types
  <2>2. wallet.balance = Replayed(ledger) /\ wallet.balance = Left(buckets) + Adjusted
    BY <1>1 DEF Books, LedgerReplays, BalanceIsInBuckets, Left
  <2>3. wallet'.balance = Replayed(ledger') /\ wallet'.balance = Left(buckets) + Adjusted'
    BY <1>3, <1>4, <1>6, <2>1, <2>2
  <2> QED
    BY <1>2, <2>3 DEF Books, LedgerReplays, BalanceIsInBuckets, Left
<1>8. Types'
  BY <1>1, <1>2, <1>4, <1>6 DEF Types
<1>9. Holds'
  BY <1>1, <1>2, <1>4, HoldsStay
<1>10. GrantsRecorded'
  BY <1>1, <1>2, GrantsStay
<1> QED
  BY <1>6, <1>7, <1>8, <1>9, <1>10 DEF Kept

\* Time moves nothing.
LEMMA TimeKeeps ==
  ASSUME LedgerInv, Tick \/ UNCHANGED vars
  PROVE  Kept
<1>1. UNCHANGED <<wallet, buckets, reservations, ledger>> /\ now' \in 1..MaxTime
  BY TimeAssumption DEF Tick, vars, LedgerInv, Types
<1>2. Open' = Open
  BY <1>1 DEF Open
<1>3. Types' /\ GrantsRecorded'
  BY <1>1 DEF LedgerInv, Types, GrantsRecorded, Exists, Recorded
<1>4. Holds'
  BY <1>1, <1>2 DEF LedgerInv, Holds, HoldsAreBacked, HoldsAreWhole
<1>5. Books'
  BY <1>1 DEF LedgerInv, Books, LedgerReplays, BalanceIsInBuckets, Adjusted
<1> QED
  BY <1>3, <1>4, <1>5 DEF Kept

\* A boundary keeps what its plan allows, or all it could not take is held.
Capped(c, in) ==
  /\ buckets'[c].amount = in.allowance
  /\ \/ wallet'.balance - in.allowance
          <= RolloverAmount(in.policy, in.capBasisPoints, in.allowance, wallet.balance)
     \/ \A b \in BucketIds \ {c} : Unheld(buckets')[b] = 0

\* A boundary expires, forfeits and grants in one transaction, and caps what it keeps.
LEMMA ResetKeeps ==
  ASSUME LedgerInv, NEW c \in CycleIds, NEW in \in CycleInputs, NEW t \in ReadTimes,
         RunCycleReset(c, in, t)
  PROVE  Kept /\ Capped(c, in)
<1> DEFINE off     == WriteOffs(buckets, t)
           n       == AllocationTotal(off)
           expired == WalletDebited(wallet, n)
           live    == Reduced(buckets, off)
           carried == expired.balance
           keep    == RolloverAmount(in.policy, in.capBasisPoints, in.allowance, carried)
           forfeit == AllocateFifo(live, Unheld(live), carried - keep)
           m       == AllocationTotal(forfeit)
           kept    == Reduced(live, forfeit)
           running == carried - m + in.allowance
           grants  == in.allowance > 0 /\ ~Recorded(<<"grant", c, 0>>)
           lapsed  == Debits("expiry", 0, buckets, off, wallet.balance)
           lost    == Debits("reset", c, live, forfeit, carried)
           given   == IF grants
                      THEN {Row(<<"grant", c, 0>>, in.allowance, carried + in.allowance)}
                      ELSE {}
           marker  == {Row(Marker(c), 0, running)}
<1>1. /\ Types /\ Holds /\ Books /\ GrantsRecorded /\ BoundariesWhole
      /\ BucketRows(buckets) /\ wallet \in Wallet
  BY DEF LedgerInv, Types
<1>2. /\ c \in BucketIds /\ c \in Nat /\ now \in Nat /\ PlanValidity \in Nat
      /\ in.policy \in RolloverPolicies /\ in.capBasisPoints \in Nat /\ in.allowance \in Nat
  BY <1>1, IdsAssumption, AmountsAssumption, TimeAssumption DEF BucketIds, Types
<1>3. /\ ~Recorded(Marker(c))
      /\ Accepted(expired, live)
      /\ buckets' = IF grants THEN [kept EXCEPT ![c] = Granted(in.allowance, now, PlanValidity)]
                    ELSE kept
      /\ wallet' = [WalletGranted(expired, IF grants THEN in.allowance ELSE 0)
                      EXCEPT !.balance = running]
      /\ Accepted(wallet', buckets')
      /\ Append(lapsed \cup lost \cup given \cup marker)
      /\ UNCHANGED <<reservations, now>>
  BY DEF RunCycleReset
<1>4. Amounts(off) /\ \A b \in BucketIds : off[b] <= Unheld(buckets)[b]
  BY <1>1, WriteOffFacts
<1> HIDE DEF off
<1>5. n \in Nat /\ n = SumFunctionOnSet(off, BucketIds)
  BY <1>4, TotalIs
<1>6. /\ BucketRows(live) /\ Left(live) = Left(buckets) - n
      /\ \A b \in BucketIds : /\ live[b].reserved = buckets[b].reserved
                              /\ live[b].amount = buckets[b].amount
  BY <1>1, <1>4, ReducedColumns
<1>7. /\ carried \in Nat /\ carried = wallet.balance - n /\ expired \in Wallet
      /\ expired.reserved = wallet.reserved
  <2>1. carried >= 0
    BY <1>3 DEF Accepted, WalletAccepted
  <2>2. carried = wallet.balance - n
    BY <1>1 DEF Wallet, WalletDebited
  <2>3. wallet.balance + (-n) \in Nat /\ -n \in Int /\ -(-n) = n
    BY <1>1, <1>5, <2>1, <2>2, WalletFacts
  <2>4. expired = WalletDebited(wallet, -(-n))
    BY <2>3
  <2> HIDE DEF expired, n
  <2>5. expired \in Wallet /\ expired.reserved = wallet.reserved
    BY <1>1, <2>3, <2>4, WalletUpdates
  <2> QED
    BY <1>1, <1>5, <2>1, <2>2, <2>5, WalletFacts
<1> HIDE DEF carried, live, expired, n
<1>8. keep \in Nat /\ keep <= carried /\ carried - keep \in Nat
  <2>1. keep \in Nat /\ keep <= carried
    BY <1>2, <1>7, RolloverWithin
  <2> QED
    BY <1>7, <2>1
<1> HIDE DEF keep
<1>9. /\ AreBuckets(live) /\ DOMAIN live = BucketIds
      /\ \A b \in DOMAIN live : Unheld(live)[b] \in Nat
  BY <1>6, BucketFacts DEF Amounts
<1>10. Amounts(forfeit) /\ \A b \in BucketIds : forfeit[b] <= Unheld(live)[b]
  <2>1. carried - keep \in Int
    BY <1>8
  <2>2. /\ DOMAIN forfeit = DOMAIN live
        /\ \A b \in DOMAIN live : forfeit[b] \in Nat /\ forfeit[b] <= Unheld(live)[b]
    BY <1>9, <2>1, AllocatesWithin
  <2> HIDE DEF forfeit
  <2> QED
    BY <1>9, <2>2 DEF Amounts
<1>11. m \in Nat /\ m = SumFunctionOnSet(forfeit, BucketIds)
  <2> HIDE DEF forfeit
  <2> QED
    BY <1>10, TotalIs
\* What is forfeited is the excess, or all that is free.
<1>12. \/ carried - m <= keep
       \/ \A b \in BucketIds : forfeit[b] = Unheld(live)[b]
  <2> DEFINE all == SumFunctionOnSet(Unheld(live), DOMAIN live)
  <2>1. m = IF all < carried - keep THEN all ELSE carried - keep
    BY <1>8, <1>9, AllocationIsExact
  <2>2. all \in Nat
    BY <1>9, SumNat DEF AreBuckets
  <2>3. CASE all <= carried - keep
    BY <1>8, <1>9, <2>3, AllocatesAll
  <2>4. CASE ~(all <= carried - keep)
    <3> HIDE DEF m, all
    <3> QED
      BY <1>7, <1>8, <2>1, <2>2, <2>4
  <2> QED
    BY <2>3, <2>4
<1> HIDE DEF forfeit
<1>13. /\ BucketRows(kept) /\ Left(kept) = Left(live) - m
       /\ \A b \in BucketIds : /\ kept[b].remaining = live[b].remaining - forfeit[b]
                               /\ kept[b].reserved = buckets[b].reserved
                               /\ kept[b].amount = buckets[b].amount
  <2> HIDE DEF kept, m
  <2> QED
    BY <1>6, <1>10, ReducedColumns DEF kept, m
<1> HIDE DEF kept, m
\* The boundary has no row yet, so its grant has none.
<1>14. CycleRows(ledger, c) = {}
  BY <1>1, <1>3 DEF BoundariesWhole
<1>15. ~Recorded(<<"grant", c, 0>>)
  <2>1. \A row \in ledger : row.key # <<"grant", c, 0>>
    BY <1>14 DEF CycleRows
  <2> QED
    BY <2>1 DEF Recorded, Keys
<1>16. grants <=> in.allowance > 0
  BY <1>15
<1>17. kept[c].amount = 0
  BY <1>1, <1>2, <1>13, <1>15, BucketFacts DEF GrantsRecorded, Exists
<1>18. /\ BucketRows(buckets') /\ Left(buckets') = Left(kept) + in.allowance
       /\ \A b \in BucketIds : buckets'[b].reserved = buckets[b].reserved
       /\ \A b \in BucketIds \ {c} : buckets'[b] = kept[b]
       /\ buckets'[c].amount = in.allowance
  <2>1. CASE grants
    <3>1. buckets' = [kept EXCEPT ![c] = Granted(in.allowance, now, PlanValidity)]
      BY <1>3, <2>1
    <3>2. /\ Granted(in.allowance, now, PlanValidity) \in Bucket
          /\ Granted(in.allowance, now, PlanValidity).amount = in.allowance
      BY <1>2, GrantedFields
    <3>3. kept \in [BucketIds -> Bucket]
      BY <1>13 DEF BucketRows
    <3>4. /\ buckets' \in [BucketIds -> Bucket]
          /\ buckets'[c] = Granted(in.allowance, now, PlanValidity)
          /\ \A b \in BucketIds \ {c} : buckets'[b] = kept[b]
      BY <1>2, <3>1, <3>2, <3>3
    <3>5. /\ BucketRows(buckets') /\ Left(buckets') = Left(kept) + in.allowance
          /\ \A b \in BucketIds : buckets'[b].reserved = kept[b].reserved
      BY <1>2, <1>13, <1>17, <3>4, GrantedColumns
    <3> QED
      BY <1>13, <3>2, <3>4, <3>5
  <2>2. CASE ~grants
    <3>1. buckets' = kept /\ in.allowance = 0
      BY <1>2, <1>3, <1>16, <2>2
    <3>2. Left(buckets') = Left(kept) /\ Left(kept) \in Nat
      BY <1>13, <3>1, ColumnSums
    <3>3. Left(buckets') = Left(kept) + in.allowance
      BY <3>1, <3>2
    <3>4. BucketRows(buckets')
      BY <1>13, <3>1
    <3> QED
      BY <1>2, <1>13, <1>17, <3>1, <3>3, <3>4
  <2> QED
    BY <2>1, <2>2
<1>19. running \in Int /\ running = wallet.balance + (in.allowance - n - m)
  BY <1>1, <1>2, <1>5, <1>7, <1>11, WalletFacts
<1>20. /\ wallet' \in Wallet /\ wallet'.balance = running /\ wallet'.reserved = wallet.reserved
  <2> DEFINE granted == IF grants THEN in.allowance ELSE 0
  <2>1. granted \in Nat
    BY <1>2
  <2> HIDE DEF granted, running
  <2>2. wallet'.balance = running /\ running >= 0
    BY <1>3, <1>7 DEF Accepted, WalletAccepted, WalletGranted, Wallet, granted
  <2>3. wallet' = [balance |-> running, reserved |-> expired.reserved,
                   lifetimeGranted |-> expired.lifetimeGranted + granted,
                   lifetimeConsumed |-> expired.lifetimeConsumed]
    BY <1>3, <1>7 DEF WalletGranted, Wallet, granted
  <2>4. /\ running \in Nat /\ expired.reserved \in Nat
        /\ expired.lifetimeGranted + granted \in Int /\ expired.lifetimeConsumed \in Int
    BY <1>7, <1>19, <2>1, <2>2 DEF Wallet
  <2> QED
    BY <1>7, <2>3, <2>4, WalletRow
<1>21. Posts(lapsed \cup lost \cup given \cup marker, in.allowance - n - m)
  <2>1. Posts(lapsed, -n)
    <3>1. /\ "expiry" \in Tags \ {"adjust"} /\ 0 \in Nat /\ DOMAIN buckets = BucketIds
          /\ \A b \in BucketIds : off[b] \in Nat
          /\ wallet.balance \in Int
      BY <1>1, <1>4, BucketFacts, WalletFacts DEF Tags, Amounts
    <3>2. Posts(lapsed, - SumFunctionOnSet(off, BucketIds))
      BY <3>1, DebitsPost
    <3> QED
      BY <1>5, <3>2
  <2>2. Posts(lost, -m)
    <3>1. /\ "reset" \in Tags \ {"adjust"}
          /\ \A b \in BucketIds : forfeit[b] \in Nat
          /\ carried \in Int
      BY <1>7, <1>10 DEF Tags, Amounts
    <3>2. Posts(lost, - SumFunctionOnSet(forfeit, BucketIds))
      BY <1>2, <1>9, <3>1, DebitsPost
    <3> QED
      BY <1>11, <3>2
  <2>3. Posts(given, in.allowance)
    <3>1. carried + in.allowance \in Int
      BY <1>2, <1>7
    <3>2. CASE grants
      BY <1>2, <3>1, <3>2, RowPosts DEF Tags
    <3>3. CASE ~grants
      BY <1>2, <1>16, <3>3, PostsNone
    <3> QED
      BY <3>2, <3>3
  <2>4. Posts(marker, 0)
    BY <1>2, <1>19, RowPosts DEF Tags, Marker
  <2>5. /\ \A row \in lapsed : row.key[1] = "expiry"
        /\ \A row \in lost : row.key[1] = "reset"
        /\ \A row \in given : row.key[1] = "grant"
        /\ \A row \in marker : row.key[1] = "complete"
    <3>1. /\ \A row \in lapsed : row.key[1] = "expiry"
          /\ \A row \in lost : row.key[1] = "reset"
      BY DebitsBear
    <3>2. /\ \A row \in given : row.key[1] = "grant"
          /\ \A row \in marker : row.key[1] = "complete"
      BY DEF Row, Marker
    <3> QED
      BY <3>1, <3>2
  <2> HIDE DEF lapsed, lost, given, marker
  <2>6. lapsed \cap lost = {} /\ (lapsed \cup lost) \cap given = {}
        /\ (lapsed \cup lost \cup given) \cap marker = {}
    BY <2>5
  <2>7. Posts(lapsed \cup lost, -n + -m)
    BY <2>1, <2>2, <2>6, PostsUnion
  <2>8. Posts(lapsed \cup lost \cup given, (-n + -m) + in.allowance)
    BY <2>3, <2>6, <2>7, PostsUnion
  <2>9. Posts(lapsed \cup lost \cup given \cup marker, ((-n + -m) + in.allowance) + 0)
    BY <2>4, <2>6, <2>8, PostsUnion
  <2>10. ((-n + -m) + in.allowance) + 0 = in.allowance - n - m
    BY <1>2, <1>5, <1>11
  <2> QED
    BY <2>9, <2>10
<1>22. /\ Recorded(<<"grant", c, 0>>)' \/ in.allowance = 0
       /\ \A key : Recorded(key) => Recorded(key)'
  <2>1. \A key : Recorded(key) => Recorded(key)'
    BY <1>3, RecordedStays
  <2>2. ASSUME grants
        PROVE  Recorded(<<"grant", c, 0>>)'
    <3> DEFINE row == Row(<<"grant", c, 0>>, in.allowance, carried + in.allowance)
    <3>1. row \in given
      BY <2>2
    <3>2. row \in ledger'
      BY <1>3, <3>1 DEF Append
    <3>3. row.key = <<"grant", c, 0>>
      BY DEF Row
    <3> QED
      BY <3>2, <3>3 DEF Recorded, Keys
  <2> QED
    BY <1>2, <1>16, <2>1, <2>2
<1> DEFINE rows == lapsed \cup lost \cup given \cup marker
           d    == in.allowance - n - m
<1>23. Append(rows) /\ Posts(rows, d) /\ wallet'.balance = wallet.balance + d
  BY <1>3, <1>19, <1>20, <1>21
<1>24. Left(buckets') = Left(buckets) + d
  <2>1. Left(buckets) \in Nat /\ Left(live) \in Nat /\ Left(kept) \in Nat
    BY <1>1, <1>6, <1>13, ColumnSums
  <2> QED
    BY <1>2, <1>5, <1>6, <1>11, <1>13, <1>18, <2>1
<1> HIDE DEF rows, d, running, grants
<1>25. Rows(ledger') /\ Books'
  BY <1>1, <1>23, <1>24, BooksMove
<1>26. Types'
  BY <1>1, <1>3, <1>18, <1>20, <1>25 DEF Types
<1>27. Holds'
  BY <1>1, <1>3, <1>18, <1>20, HoldsStay
<1>28. GrantsRecorded'
  <2> SUFFICES ASSUME NEW b \in BucketIds, buckets'[b].amount > 0
               PROVE  Recorded(<<"grant", b, 0>>)'
    BY DEF GrantsRecorded, Exists, Recorded
  <2>1. CASE b = c
    BY <1>2, <1>18, <1>22, <2>1
  <2>2. CASE b # c
    BY <1>1, <1>13, <1>18, <1>22, <2>2 DEF GrantsRecorded, Exists
  <2> QED
    BY <2>1, <2>2
<1>29. Capped(c, in)
  <2>1. CASE carried - m <= keep
    <3>1. keep <= RolloverAmount(in.policy, in.capBasisPoints, in.allowance, wallet.balance)
      <4>1. carried <= wallet.balance /\ wallet.balance \in Nat
        BY <1>1, <1>5, <1>7, WalletFacts
      <4> QED
        BY <1>2, <1>7, <4>1, RolloverMonotone DEF keep
    <3>2. RolloverAmount(in.policy, in.capBasisPoints, in.allowance, wallet.balance) \in Nat
      BY <1>1, <1>2, WalletFacts, RolloverWithin
    <3>3. wallet'.balance - in.allowance = carried - m
      BY <1>2, <1>7, <1>11, <1>20 DEF running
    <3> QED
      BY <1>7, <1>8, <1>11, <1>18, <2>1, <3>1, <3>2, <3>3 DEF Capped
  <2>2. CASE \A b \in BucketIds : forfeit[b] = Unheld(live)[b]
    <3>1. ASSUME NEW b \in BucketIds \ {c}
          PROVE  Unheld(buckets')[b] = 0
      <4>1. /\ buckets'[b].remaining = live[b].remaining - forfeit[b]
            /\ buckets'[b].reserved = live[b].reserved
        BY <1>6, <1>13, <1>18
      <4>2. /\ Unheld(live)[b] = live[b].remaining - live[b].reserved
            /\ live[b].remaining \in Nat /\ live[b].reserved \in Nat
        BY <1>6, BucketFacts
      <4>3. Unheld(buckets')[b] = buckets'[b].remaining - buckets'[b].reserved
        BY <1>18, BucketFacts
      <4> QED
        BY <2>2, <4>1, <4>2, <4>3
    <3> QED
      BY <1>18, <3>1 DEF Capped
  <2> QED
    BY <1>12, <2>1, <2>2
<1> QED
  BY <1>25, <1>26, <1>27, <1>28, <1>29 DEF Kept

\* The empty wallet.
LEMMA LedgerInvStarts ==
  ASSUME Init
  PROVE  LedgerInv
<1>1. Open = {}
  BY DEF Init, Open
<1>2. ledger = {} /\ wallet.balance = 0 /\ wallet.reserved = 0 /\ wallet \in Wallet /\ now = 1
  BY DEF Init, Wallet
<1>3. \A b \in BucketIds : buckets[b].remaining = 0 /\ buckets[b].reserved = 0 /\ buckets[b].amount = 0
  BY DEF Init
<1>4. BucketRows(buckets)
  <2>1. buckets \in [BucketIds -> Bucket]
    BY DEF Init, Bucket, Never
  <2> QED
    BY <1>3, <2>1 DEF BucketRows, BucketsAccepted
<1>5. reservations \in [ReservationIds -> Reservation]
  BY DEF Init, Reservation, Statuses, Nothing
<1>6. Rows(ledger) /\ Replayed(ledger) = 0 /\ Replayed({}) = 0
  BY <1>2, PostsNone DEF Posts
<1>7. Types
  BY <1>2, <1>4, <1>5, <1>6, TimeAssumption DEF Types
<1>8. GrantsRecorded /\ BoundariesWhole
  BY <1>2, <1>3 DEF GrantsRecorded, Exists, BoundariesWhole, CycleRows
<1>9. ASSUME NEW f, DOMAIN f = {}
      PROVE  SumFunction(f) = 0
  <2>1. SumFunction(f) = SumFunctionOnSet(f, {})
    BY <1>9, Zenon DEF SumFunction
  <2> QED
    BY <2>1, SumEmpty
<1>10. Left(buckets) = 0 /\ HeldIn(buckets) = 0
  <2> DEFINE f == [b \in BucketIds |-> buckets[b].remaining]
             g == [b \in BucketIds |-> buckets[b].reserved]
  <2>1. \A b \in BucketIds : f[b] = 0 /\ g[b] = 0
    BY <1>3
  <2>2. Left(buckets) = SumFunctionOnSet(f, BucketIds) /\ HeldIn(buckets) = SumFunctionOnSet(g, BucketIds)
    BY DEF Left, HeldIn, SumFunction
  <2> HIDE DEF f, g
  <2> QED
    BY <2>1, <2>2, SumZero, IdsAssumption
<1>11. Holds
  <2>1. \A b \in BucketIds : SumFunction([r \in Open |-> reservations[r].allocations[b]]) = 0
    BY <1>1, <1>9
  <2>2. SumFunction([r \in Open |-> reservations[r].estimate]) = 0
    BY <1>1, <1>9
  <2> QED
    BY <1>1, <1>2, <1>3, <1>10, <2>1, <2>2 DEF Holds, HoldsAreBacked, HoldsAreWhole
<1>12. Books
  <2>1. Adjusted = 0
    <3>1. {row \in ledger : row.key[1] = "adjust"} = {}
      BY <1>2
    <3> QED
      BY <1>6, <3>1, Zenon DEF Adjusted
  <2> QED
    BY <1>2, <1>6, <1>10, <2>1 DEF Books, LedgerReplays, BalanceIsInBuckets, Left
<1> QED
  BY <1>7, <1>8, <1>11, <1>12 DEF LedgerInv

\* No transaction breaks it.
LEMMA LedgerInvStays ==
  ASSUME LedgerInv, [Next]_vars
  PROVE  LedgerInv'
<1>1. Kept
  <2>1. ASSUME NEW r \in ReservationIds, Release(r)
        PROVE  Kept
    <3>1. Close(r, "RELEASED") /\ "RELEASED" \in Returned
      BY <2>1 DEF Release, Returned
    <3> QED
      BY <3>1, CloseKeeps
  <2>2. ASSUME NEW r \in ReservationIds, NEW t \in ReadTimes, SweepReservation(r, t)
        PROVE  Kept
    <3>1. Close(r, "EXPIRED") /\ "EXPIRED" \in Returned
      BY <2>2 DEF SweepReservation, Returned
    <3> QED
      BY <3>1, CloseKeeps
  <2>3. CASE UNCHANGED vars
    BY <2>3, TimeKeeps
  <2>4. CASE Next
    BY <2>1, <2>2, <2>4, GrantKeeps, ReserveKeeps, SettleKeeps, ExpireKeeps, ResetKeeps,
       AdjustKeeps, TimeKeeps, Zenon DEF Next
  <2> QED
    BY <2>3, <2>4
<1>2. BoundariesWhole'
  BY BoundariesStayWhole DEF LedgerInv
<1> QED
  BY <1>1, <1>2 DEF Kept, LedgerInv

\* The invariant, for every number of buckets, reservations, cycles and entries.
THEOREM LedgerInvHolds == Spec => []LedgerInv
BY LedgerInvStarts, LedgerInvStays, PTL DEF Spec

\* The schema's CHECKs hold after every transaction: none of them ever has to
\* refuse a hold, a grant or an adjustment.
THEOREM LedgerTypeOK == Spec => []TypeOK
<1>1. LedgerInv => TypeOK
  BY DEF LedgerInv, Types, TypeOK, BucketRows, Rows
<1> QED
  BY <1>1, LedgerInvHolds, PTL

\* The buckets' column, the wallet's and the open reservations agree on what is
\* held, for any number of each and in any order of transactions.
THEOREM HoldsStayBacked == Spec => []HoldsAreBacked
<1>1. LedgerInv => HoldsAreBacked
  BY DEF LedgerInv, Holds
<1> QED
  BY <1>1, LedgerInvHolds, PTL

\* A reconciliation finds no drift: each transaction writes rows that add up to
\* what it does to the balance.
THEOREM BalanceReplaysLedger == Spec => []LedgerReplays
<1>1. LedgerInv => LedgerReplays
  BY DEF LedgerInv, Books
<1> QED
  BY <1>1, LedgerInvHolds, PTL

\* The balance is what the buckets hold and what operators entered.
THEOREM BalanceStaysInBuckets == Spec => []BalanceIsInBuckets
<1>1. LedgerInv => BalanceIsInBuckets
  BY DEF LedgerInv, Books
<1> QED
  BY <1>1, LedgerInvHolds, PTL

-----------------------------------------------------------------------------
(* What a boundary keeps and what a hold takes. *)

\* The step that records a boundary is its own reset.
LEMMA BoundaryStep ==
  ASSUME LedgerInv, [Next]_vars, NEW c \in CycleIds,
         Recorded(<<"complete", c, 0>>)', ~Recorded(<<"complete", c, 0>>)
  PROVE  \E in \in CycleInputs : Capped(c, in)
<1>1. CycleRows(ledger', c) # CycleRows(ledger, c)
  <2>1. PICK row \in ledger' : row.key = <<"complete", c, 0>>
    BY DEF Recorded, Keys
  <2>2. row \notin ledger
    BY <2>1 DEF Recorded, Keys
  <2> QED
    BY <2>1, <2>2 DEF CycleRows
<1>2. PICK d \in CycleIds, in \in CycleInputs, t \in ReadTimes : RunCycleReset(d, in, t)
  BY <1>1, OtherRows
<1>3. d = c
  BY <1>1, <1>2, ResetRows DEF LedgerInv
<1> QED
  BY <1>2, <1>3, ResetKeeps

\* Whatever expired with it, whatever was held meanwhile and however old the
\* clock it ran with, a boundary keeps no more than the rollover policy allows of
\* the balance before it, unless what is left of the older buckets is all held.
THEOREM BoundariesKeepTheCap == Spec => BoundaryKeepsTheCap
<1>1. LedgerInv /\ [Next]_vars =>
        [\A c \in CycleIds :
           Recorded(<<"complete", c, 0>>)' /\ ~Recorded(<<"complete", c, 0>>) =>
             LET granted == buckets'[c].amount
                 kept    == wallet'.balance - granted
             IN  \E in \in CycleInputs :
                   /\ in.allowance = granted
                   /\ \/ kept <= RolloverAmount(in.policy, in.capBasisPoints, granted, wallet.balance)
                      \/ \A b \in BucketIds \ {c} : Unheld(buckets')[b] = 0]_vars
  <2> SUFFICES ASSUME LedgerInv, [Next]_vars, NEW c \in CycleIds,
                      Recorded(<<"complete", c, 0>>)', ~Recorded(<<"complete", c, 0>>)
               PROVE  \E in \in CycleInputs :
                        /\ in.allowance = buckets'[c].amount
                        /\ \/ wallet'.balance - buckets'[c].amount
                                <= RolloverAmount(in.policy, in.capBasisPoints,
                                                  buckets'[c].amount, wallet.balance)
                           \/ \A b \in BucketIds \ {c} : Unheld(buckets')[b] = 0
    BY Zenon
  <2>1. PICK in \in CycleInputs : Capped(c, in)
    BY BoundaryStep
  <2> QED
    BY <2>1, Zenon DEF Capped
<1> QED
  BY <1>1, LedgerInvHolds, PTL DEF Spec, BoundaryKeepsTheCap

\* What a new hold takes, bucket by bucket.
LEMMA HoldStep ==
  ASSUME LedgerInv, [Next]_vars, NEW r \in ReservationIds,
         reservations[r].status = "NONE", reservations'[r].status = "OPEN",
         NEW b \in BucketIds, reservations'[r].allocations[b] > 0
  PROVE  LET read == reservations'[r].expiresAt - Ttl
         IN  /\ buckets[b].expiresAt = Never \/ buckets[b].expiresAt > read
             /\ \A a \in BucketIds :
                  Sooner(a, b) /\ buckets[a].expiresAt > read => Unheld(buckets')[a] = 0
<1>1. Types /\ BucketRows(buckets) /\ ReservationTable
  BY DEF LedgerInv, Types, ReservationTable
<1>2. PICK n \in Estimates, t \in ReadTimes : Reserve(r, n, t)
  <2>1. ASSUME NEW q \in ReservationIds, NEW n, Settle(q, n)
        PROVE  FALSE
    <3>1. q # r
      BY <2>1 DEF Settle
    <3> QED
      BY <1>1, <2>1, <3>1 DEF Settle, ReservationTable
  <2>2. ASSUME NEW q \in ReservationIds, NEW status \in Returned, Close(q, status)
        PROVE  FALSE
    <3>1. q # r
      BY <2>2 DEF Close
    <3> QED
      BY <1>1, <2>2, <3>1 DEF Close, ReservationTable
  <2>3. ASSUME NEW q \in ReservationIds, NEW n, NEW t, Reserve(q, n, t), q # r
        PROVE  FALSE
    BY <1>1, <2>3 DEF Reserve, ReservationTable
  <2> QED
    BY <2>1, <2>2, <2>3, ReservationWriters
<1> DEFINE live  == LiveUnheld(buckets, t)
           alloc == AllocateFifo(buckets, live, n)
<1>3. n \in Nat /\ t \in Nat
  BY AmountsAssumption, ReadTimesNat
<1>4. /\ Shortfall(alloc, n) <= 0 /\ buckets' = Held(buckets, alloc)
      /\ reservations'[r].allocations = alloc /\ reservations'[r].expiresAt = t + Ttl
  BY <1>1, <1>2 DEF Reserve, ReservationTable
<1>5. reservations'[r].expiresAt - Ttl = t
  BY <1>3, <1>4, TimeAssumption
<1>6. /\ Amounts(alloc)
      /\ \A a \in BucketIds : alloc[a] <= live[a] /\ alloc[a] <= Unheld(buckets)[a]
  BY <1>1, <1>3, <1>4, ReserveTakes
<1>7. /\ AreBuckets(buckets) /\ DOMAIN buckets = BucketIds
      /\ \A a \in DOMAIN buckets : live[a] \in Nat
  BY <1>1, BucketFacts, LiveFacts DEF Amounts
<1>8. buckets[b].expiresAt = Never \/ buckets[b].expiresAt > t
  <2>1. live[b] # 0
    <3>1. alloc[b] > 0 /\ alloc[b] <= live[b]
      BY <1>4, <1>6
    <3> HIDE DEF alloc, live
    <3> QED
      BY <1>6, <3>1 DEF Amounts
  <2> QED
    BY <2>1 DEF LiveUnheld
<1>9. ASSUME NEW a \in BucketIds, Sooner(a, b), buckets[a].expiresAt > t
      PROVE  Unheld(buckets')[a] = 0
  <2>1. a \in Ahead(buckets, b)
    BY <1>7, <1>9 DEF Ahead, Sooner, FifoByExpiry
  <2>2. live[a] = Unheld(buckets)[a]
    BY <1>9 DEF LiveUnheld
  <2>3. alloc[b] > 0 /\ n \in Int
    BY <1>3, <1>4
  <2> HIDE DEF live
  <2>4. alloc[a] = live[a]
    BY <1>7, <2>1, <2>3, AllocationIsInOrder
  <2> HIDE DEF alloc
  <2>5. /\ BucketRows(buckets')
        /\ buckets'[a].remaining = buckets[a].remaining
        /\ buckets'[a].reserved = buckets[a].reserved + alloc[a]
    BY <1>1, <1>4, <1>6, HeldColumns
  <2>6. /\ Unheld(buckets')[a] = buckets'[a].remaining - buckets'[a].reserved
        /\ Unheld(buckets)[a] = buckets[a].remaining - buckets[a].reserved
        /\ buckets[a].remaining \in Nat /\ buckets[a].reserved \in Nat
    BY <1>1, <2>5, BucketFacts
  <2> QED
    BY <2>2, <2>4, <2>5, <2>6
<1> QED
  BY <1>5, <1>8, <1>9

\* A hold takes from a bucket only when every bucket that would be lost sooner,
\* and is not lost yet, is held to the last credit, and never from a lapsed one.
THEOREM HoldsTakeSoonestExpiry == Spec => SoonestExpiryFirst
<1>1. LedgerInv /\ [Next]_vars =>
        [\A r \in ReservationIds :
           reservations[r].status = "NONE" /\ reservations'[r].status = "OPEN" =>
             LET alloc == reservations'[r].allocations
                 read  == reservations'[r].expiresAt - Ttl
             IN  \A b \in BucketIds : alloc[b] > 0 =>
                   /\ buckets[b].expiresAt = Never \/ buckets[b].expiresAt > read
                   /\ \A a \in BucketIds :
                        Sooner(a, b) /\ buckets[a].expiresAt > read =>
                          Unheld(buckets')[a] = 0]_vars
  BY HoldStep, Zenon
<1> QED
  BY <1>1, LedgerInvHolds, PTL DEF Spec, SoonestExpiryFirst
-----------------------------------------------------------------------------
(* Closing a hold, and the account. *)

\* The balance covers what is held.
Covered == wallet.reserved <= wallet.balance

\* Operators only add.  A deduction may take what is held (run ledger_deduction).
OnlyGifts == \A d \in Adjustments : d > 0

\* The rows of adjustments.
OperatorRows(rows) == {row \in rows : row.key[1] = "adjust"}

\* What operators entered is never negative.
GiftsOnly == \A row \in OperatorRows(ledger) : row.amount > 0

\* The rows a transaction writes when no operator asked for it.
LEMMA DebitsAreNotOperators ==
  ASSUME NEW tag, tag # "adjust", NEW id, NEW bs, NEW take, NEW n
  PROVE  OperatorRows(Debits(tag, id, bs, take, n)) = {}
BY DEF OperatorRows, Debits, Row

\* Nor is a single row of another transaction.
LEMMA RowIsNotOperators ==
  ASSUME NEW tag, tag # "adjust", NEW id, NEW b, NEW n, NEW after
  PROVE  OperatorRows({Row(<<tag, id, b>>, n, after)}) = {}
BY DEF OperatorRows, Row

\* Only the adjustment writes an operator's row, and the row is what was entered.
LEMMA OperatorsWrite ==
  ASSUME [Next]_vars
  PROVE  \A row \in OperatorRows(ledger') :
            row \in OperatorRows(ledger) \/ row.amount \in Adjustments
<1>1. ASSUME NEW rows, Append(rows), OperatorRows(rows) = {}
      PROVE  OperatorRows(ledger') = OperatorRows(ledger)
  BY <1>1 DEF Append, OperatorRows
<1>2. ASSUME NEW g \in GrantIds, NEW n \in GrantAmounts, NEW v \in Validities,
             NEW t \in ReadTimes, Grant(g, n, v, t)
      PROVE  OperatorRows(ledger') = OperatorRows(ledger)
  <2>1. Append({Row(<<"grant", g, 0>>, n, wallet.balance + n)})
    BY <1>2 DEF Grant
  <2> QED
    BY <1>1, <2>1, RowIsNotOperators
<1>3. ASSUME NEW r \in ReservationIds, NEW n \in Estimates, NEW t \in ReadTimes, Reserve(r, n, t)
      PROVE  OperatorRows(ledger') = OperatorRows(ledger)
  <2>1. Append({Row(<<"reserve", r, 0>>, 0, wallet.balance)})
    BY <1>3 DEF Reserve
  <2> QED
    BY <1>1, <2>1, RowIsNotOperators
<1>4. ASSUME NEW r \in ReservationIds, NEW n \in 0..reservations[r].estimate, Settle(r, n)
      PROVE  OperatorRows(ledger') = OperatorRows(ledger)
  <2>1. PICK charge : Append(Debits("settle", r, buckets, charge, wallet.balance))
    BY <1>4 DEF Settle
  <2> QED
    BY <1>1, <2>1, DebitsAreNotOperators
<1>5. ASSUME NEW r \in ReservationIds, NEW status, Close(r, status)
      PROVE  OperatorRows(ledger') = OperatorRows(ledger)
  <2>1. Append({Row(<<"release", r, 0>>, 0, wallet.balance)})
    BY <1>5 DEF Close
  <2> QED
    BY <1>1, <2>1, RowIsNotOperators
<1>6. ASSUME NEW t \in ReadTimes, ExpireLapsedGrants(t)
      PROVE  OperatorRows(ledger') = OperatorRows(ledger)
  <2>1. PICK off : Append(Debits("expiry", 0, buckets, off, wallet.balance))
    BY <1>6 DEF ExpireLapsedGrants
  <2> QED
    BY <1>1, <2>1, DebitsAreNotOperators
<1>7. ASSUME NEW c \in CycleIds, NEW in \in CycleInputs, NEW t \in ReadTimes,
             RunCycleReset(c, in, t)
      PROVE  OperatorRows(ledger') = OperatorRows(ledger)
  <2>1. PICK off, forfeit, live, carried, running, grants :
          Append(Debits("expiry", 0, buckets, off, wallet.balance)
                 \cup Debits("reset", c, live, forfeit, carried)
                 \cup (IF grants
                       THEN {Row(<<"grant", c, 0>>, in.allowance, carried + in.allowance)}
                       ELSE {})
                 \cup {Row(Marker(c), 0, running)})
    BY <1>7 DEF RunCycleReset
  <2> DEFINE A == Debits("expiry", 0, buckets, off, wallet.balance)
             B == Debits("reset", c, live, forfeit, carried)
             C == {Row(<<"grant", c, 0>>, in.allowance, carried + in.allowance)}
             D == {Row(Marker(c), 0, running)}
  <2>2. OperatorRows(A) = {} /\ OperatorRows(B) = {} /\ OperatorRows(C) = {} /\ OperatorRows(D) = {}
    BY DebitsAreNotOperators, RowIsNotOperators DEF Marker
  <2>3. Append(A \cup B \cup (IF grants THEN C ELSE {}) \cup D)
    BY <2>1
  <2> HIDE DEF A, B, C, D
  <2>4. OperatorRows(A \cup B \cup (IF grants THEN C ELSE {}) \cup D) = {}
    BY <2>2 DEF OperatorRows
  <2> QED
    BY <1>1, <2>3, <2>4
<1>8. ASSUME NEW a \in AdjustIds, NEW d \in Adjustments, Adjust(a, d)
      PROVE  \A row \in OperatorRows(ledger') :
                row \in OperatorRows(ledger) \/ row.amount \in Adjustments
  BY <1>8 DEF Adjust, Append, OperatorRows, Row
<1>9. CASE Tick \/ UNCHANGED vars
  BY <1>9 DEF Tick, vars, OperatorRows
<1>10. ASSUME NEW r \in ReservationIds, Release(r)
       PROVE  OperatorRows(ledger') = OperatorRows(ledger)
  BY <1>5, <1>10 DEF Release
<1>11. ASSUME NEW r \in ReservationIds, NEW t \in ReadTimes, SweepReservation(r, t)
       PROVE  OperatorRows(ledger') = OperatorRows(ledger)
  BY <1>5, <1>11 DEF SweepReservation
<1> QED
  BY <1>2, <1>3, <1>4, <1>6, <1>7, <1>8, <1>9, <1>10, <1>11, Zenon DEF Next

\* No step writes a deduction when there are none to enter.
LEMMA GiftsStay ==
  ASSUME OnlyGifts, GiftsOnly, [Next]_vars
  PROVE  GiftsOnly'
<1>1. \A row \in OperatorRows(ledger') :
         row \in OperatorRows(ledger) \/ row.amount \in Adjustments
  BY OperatorsWrite
<1> QED
  BY <1>1 DEF OnlyGifts, GiftsOnly

\* When operators only add, the buckets hold no more than the balance.
LEMMA GiftsCover ==
  ASSUME LedgerInv, GiftsOnly
  PROVE  Covered
<1> DEFINE f == [row \in OperatorRows(ledger) |-> row.amount]
<1>1. Rows(OperatorRows(ledger))
  BY FS_Subset DEF LedgerInv, Types, Rows, OperatorRows
<1>2. \A row \in OperatorRows(ledger) : f[row] \in Nat
  BY <1>1 DEF Rows, LedgerRow, GiftsOnly
<1>3. Adjusted = SumFunctionOnSet(f, OperatorRows(ledger))
  BY DEF Adjusted, OperatorRows, Replayed, SumFunction
<1> HIDE DEF f
<1>4. Adjusted \in Nat
  BY <1>1, <1>2, <1>3, SumNat DEF Rows
<1>5. /\ wallet.balance = Left(buckets) + Adjusted
      /\ wallet.reserved = HeldIn(buckets)
  BY DEF LedgerInv, Books, BalanceIsInBuckets, Left, Holds
<1>6. Left(buckets) \in Nat /\ HeldIn(buckets) \in Nat /\ HeldIn(buckets) <= Left(buckets)
  BY ColumnSums DEF LedgerInv, Types
<1> QED
  BY <1>4, <1>5, <1>6 DEF Covered

\* While the balance covers what is held, every open hold can be closed: settled
\* for any cost up to its estimate, or given back.
LEMMA CoveredCloses ==
  ASSUME LedgerInv, Covered
  PROVE  HoldsCanClose
<1>1. Types /\ Holds /\ BucketRows(buckets)
  BY DEF LedgerInv, Types
<1>2. ASSUME NEW r \in Open, NEW n \in 0..reservations[r].estimate,
             NEW charge, Amounts(charge), AllocationTotal(charge) = n,
             \A b \in BucketIds : charge[b] <= reservations[r].allocations[b]
      PROVE  Accepted(WalletSettled(wallet, reservations[r], n),
                      Unhold(buckets, reservations[r].allocations, charge))
  <2> DEFINE res == reservations[r]
             w   == WalletSettled(wallet, res, n)
  <2>1. res.estimate \in Nat /\ Amounts(res.allocations) /\ n \in Nat /\ n <= res.estimate
    BY <1>1, OpenIsFinite, OpenRow
  <2>2. /\ res.estimate <= wallet.reserved
        /\ \A b \in BucketIds : res.allocations[b] <= buckets[b].reserved
    BY <1>1, HoldIsBacked
  <2>3. w.balance = wallet.balance - n /\ w.reserved = wallet.reserved - res.estimate
    BY <1>1, <2>1, SettledWallet
  <2>4. w.balance >= 0 /\ w.reserved >= 0
    BY <1>1, <2>1, <2>2, <2>3, WalletFacts DEF Covered
  <2>5. BucketRows(Unhold(buckets, res.allocations, charge))
    BY <1>1, <1>2, <2>1, <2>2, UnholdColumns
  <2> QED
    BY <2>4, <2>5 DEF Accepted, WalletAccepted, BucketRows
<1>3. ASSUME NEW r \in Open, NEW n \in 0..reservations[r].estimate
      PROVE  LET charge == NarrowAllocation(buckets, reservations[r].allocations, n)
             IN  Accepted(WalletSettled(wallet, reservations[r], AllocationTotal(charge)),
                          Unhold(buckets, reservations[r].allocations, charge))
  <2> DEFINE charge == NarrowAllocation(buckets, reservations[r].allocations, n)
  <2>1. /\ Amounts(charge) /\ AllocationTotal(charge) = n
        /\ \A b \in BucketIds : charge[b] <= reservations[r].allocations[b]
    BY <1>1, SettleCharges
  <2> HIDE DEF charge
  <2>2. Accepted(WalletSettled(wallet, reservations[r], n),
                 Unhold(buckets, reservations[r].allocations, charge))
    BY <1>2, <2>1
  <2>3. Accepted(WalletSettled(wallet, reservations[r], AllocationTotal(charge)),
                 Unhold(buckets, reservations[r].allocations, charge))
    BY <2>1, <2>2, Zenon
  <2> QED
    BY <2>3 DEF charge
<1>4. ASSUME NEW r \in Open
      PROVE  Accepted([wallet EXCEPT !.reserved = @ - reservations[r].estimate],
                      Unhold(buckets, reservations[r].allocations, Nothing))
  <2> DEFINE res == reservations[r]
             w   == [wallet EXCEPT !.reserved = @ - res.estimate]
  <2>1. res.estimate \in Nat /\ Amounts(res.allocations)
    BY <1>1, OpenIsFinite, OpenRow
  <2>2. /\ res.estimate <= wallet.reserved
        /\ \A b \in BucketIds : res.allocations[b] <= buckets[b].reserved
    BY <1>1, HoldIsBacked
  <2>3. w.balance >= 0 /\ w.reserved >= 0
    BY <1>1, <2>1, <2>2 DEF Types, Wallet
  <2>4. /\ Amounts(Nothing)
        /\ \A b \in BucketIds : Nothing[b] <= res.allocations[b]
    BY <2>1, NothingIsNone DEF Nothing, Amounts
  <2>5. BucketRows(Unhold(buckets, res.allocations, Nothing))
    BY <1>1, <2>1, <2>2, <2>4, UnholdColumns
  <2> QED
    BY <2>3, <2>5 DEF Accepted, WalletAccepted, BucketRows
<1> QED
  BY <1>3, <1>4, Zenon DEF HoldsCanClose

\* Whatever operators entered: as long as the balance covers what is held, no
\* settlement and no release is refused by the database.
THEOREM CoveredHoldsCanClose == Spec => [](Covered => HoldsCanClose)
<1>1. LedgerInv => (Covered => HoldsCanClose)
  BY CoveredCloses
<1> QED
  BY <1>1, LedgerInvHolds, PTL

\* When operators only add, the balance always covers what is held.
LEMMA GiftsAlwaysCover ==
  ASSUME OnlyGifts
  PROVE  Spec => [](LedgerInv /\ Covered)
<1>1. Init => GiftsOnly
  BY DEF Init, GiftsOnly, OperatorRows
<1>2. GiftsOnly /\ [Next]_vars => GiftsOnly'
  BY GiftsStay
<1>3. LedgerInv /\ GiftsOnly => LedgerInv /\ Covered
  BY GiftsCover
<1> QED
  BY <1>1, <1>2, <1>3, LedgerInvHolds, PTL DEF Spec

\* When operators only add, no expiry pass, boundary or other request ever makes
\* the database refuse to settle or release a hold.
THEOREM HoldsAlwaysClose ==
  ASSUME OnlyGifts
  PROVE  Spec => []HoldsCanClose
<1>1. LedgerInv /\ Covered => HoldsCanClose
  BY CoveredCloses
<1> QED
  BY <1>1, GiftsAlwaysCover, PTL

\* What the callers see of a transaction is a step of the account.
LEMMA AccountStep ==
  ASSUME LedgerInv, LedgerInv', Covered', [Next]_vars
  PROVE  [Account!AccountNext]_Account!accountVars
<1> DEFINE holds == [r \in ReservationIds |-> [status |-> reservations[r].status,
                                               amount |-> reservations[r].estimate,
                                               charged |-> reservations[r].settled]]
<1>1. Types /\ Types' /\ Holds /\ Holds' /\ BucketRows(buckets)
  BY DEF LedgerInv, Types
<1>2. ASSUME NEW r \in ReservationIds, NEW n \in Estimates, NEW t \in ReadTimes,
             Reserve(r, n, t)
      PROVE  Account!HoldCredits(r, n) /\ n \in 1..(wallet.balance - wallet.reserved)
  <2>1. n \in Nat /\ n > 0 /\ wallet.balance \in Nat /\ wallet.reserved \in Nat
    BY <1>1, AmountsAssumption, WalletFacts
  <2>2. /\ reservations[r].status = "NONE" /\ wallet.balance - wallet.reserved >= n
        /\ wallet' = [wallet EXCEPT !.reserved = @ + n]
    BY <1>2 DEF Reserve
  <2>3. PICK alloc : reservations' = [reservations EXCEPT ![r] =
           [status |-> "OPEN", estimate |-> n, settled |-> 0,
            allocations |-> alloc, expiresAt |-> t + Ttl]]
    BY <1>2 DEF Reserve
  <2>4. holds' = [holds EXCEPT ![r] = [status |-> "OPEN", amount |-> n, charged |-> 0]]
    BY <1>1, <2>3 DEF Types
  <2>5. wallet'.balance = wallet.balance /\ wallet'.reserved = wallet.reserved + n
    BY <1>1, <2>2 DEF Types, Wallet
  <2>6. holds[r].status = "NONE"
    BY <2>2
  <2> QED
    BY <2>1, <2>2, <2>4, <2>5, <2>6 DEF Account!HoldCredits
<1>3. ASSUME NEW r \in ReservationIds, NEW n \in 0..reservations[r].estimate, Settle(r, n)
      PROVE  Account!ChargeHold(r, n)
  <2> DEFINE res    == reservations[r]
             charge == NarrowAllocation(buckets, res.allocations, n)
  <2>1. /\ res.status = "OPEN"
        /\ wallet' = WalletSettled(wallet, res, AllocationTotal(charge))
        /\ reservations' = [reservations EXCEPT ![r].status = "SETTLED",
                                                ![r].settled = AllocationTotal(charge)]
    BY <1>3 DEF Settle
  <2>2. r \in Open
    BY <2>1 DEF Open
  <2>3. AllocationTotal(charge) = n
    BY <1>1, <2>2, SettleCharges
  <2> HIDE DEF charge
  <2>4. res.estimate \in Nat /\ n \in Nat /\ n <= res.estimate
    BY <1>1, OpenRow
  <2>5. wallet'.balance = wallet.balance - n /\ wallet'.reserved = wallet.reserved - res.estimate
    BY <1>1, <2>1, <2>3, <2>4, SettledWallet
  <2>6. holds' = [holds EXCEPT ![r].status = "SETTLED", ![r].charged = n]
    <3>1. /\ reservations \in [ReservationIds -> Reservation]
          /\ reservations' = [reservations EXCEPT ![r].status = "SETTLED", ![r].settled = n]
      BY <1>1, <2>1, <2>3, Zenon DEF Types
    <3>2. /\ reservations'[r].status = "SETTLED" /\ reservations'[r].settled = n
          /\ reservations'[r].estimate = reservations[r].estimate
          /\ \A q \in ReservationIds \ {r} : reservations'[q] = reservations[q]
      BY <3>1 DEF Reservation
    <3>3. \A q \in ReservationIds :
            holds'[q] = [holds EXCEPT ![r].status = "SETTLED", ![r].charged = n][q]
      BY <3>2
    <3> QED
      BY <3>3
  <2> QED
    BY <2>1, <2>4, <2>5, <2>6 DEF Account!ChargeHold
<1>4. ASSUME NEW r \in ReservationIds, NEW status \in Returned, Close(r, status)
      PROVE  Account!EndHold(r, status)
  <2>1. /\ reservations[r].status = "OPEN"
        /\ wallet' = [wallet EXCEPT !.reserved = @ - reservations[r].estimate]
        /\ reservations' = [reservations EXCEPT ![r].status = status]
    BY <1>4 DEF Close
  <2>2. /\ wallet'.balance = wallet.balance
        /\ wallet'.reserved = wallet.reserved - reservations[r].estimate
    BY <1>1, <2>1 DEF Types, Wallet
  <2>3. holds' = [holds EXCEPT ![r].status = status]
    BY <1>1, <2>1 DEF Types, Reservation
  <2> QED
    BY <2>1, <2>2, <2>3 DEF Account!EndHold
<1>5. CASE UNCHANGED reservations
  <2>1. Open' = Open
    BY <1>5 DEF Open
  <2>2. wallet'.reserved = wallet.reserved
    BY <1>1, <1>5, <2>1 DEF Holds, HoldsAreBacked
  <2>3. wallet'.balance \in Nat /\ wallet'.reserved <= wallet'.balance
    BY <1>1 DEF Types, Wallet, Covered
  <2>4. wallet'.balance >= wallet.reserved
    BY <1>1, <2>2, <2>3, WalletFacts
  <2>5. Account!MoveBalance
    BY <1>5, <2>2, <2>3, <2>4 DEF Account!MoveBalance
  <2> QED
    BY <2>5 DEF Account!AccountNext
<1>6. ASSUME NEW r \in ReservationIds, NEW n \in Estimates, NEW t \in ReadTimes,
             Reserve(r, n, t)
      PROVE  Account!AccountNext
  BY <1>2, <1>6, Zenon DEF Account!AccountNext
<1>7. ASSUME NEW r \in ReservationIds, NEW n \in 0..reservations[r].estimate, Settle(r, n)
      PROVE  Account!AccountNext
  <2>1. n \in 0..holds[r].amount
    OBVIOUS
  <2> HIDE DEF holds
  <2> QED
    BY <1>3, <1>7, <2>1, Zenon DEF Account!AccountNext, holds
<1>8. ASSUME NEW r \in ReservationIds, NEW status \in Returned, Close(r, status)
      PROVE  Account!AccountNext
  BY <1>4, <1>8, Zenon DEF Account!AccountNext, Returned
<1> QED
  BY <1>5, <1>6, <1>7, <1>8, ReservationWriters, Zenon

\* When operators only add, the ledger is an account to its callers: a hold is
\* taken from what is free, ends once and is charged at most its amount, and no
\* grant, expiry or boundary touches what a hold covers.
THEOREM LedgerImplementsAccount ==
  ASSUME OnlyGifts
  PROVE  Spec => LedgerIsAnAccount
<1>1. Init => Account!AccountInit
  BY DEF Init, Account!AccountInit, Account!NoHold
<1>2. LedgerInv /\ Covered /\ (LedgerInv /\ Covered)' /\ [Next]_vars
        => [Account!AccountNext]_Account!accountVars
  BY AccountStep
<1>3. Spec => [](LedgerInv /\ Covered)
  BY GiftsAlwaysCover
<1> QED
  BY <1>1, <1>2, <1>3, PTL DEF Spec, LedgerIsAnAccount, Account!AccountSpec
=============================================================================
