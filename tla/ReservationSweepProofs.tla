------------------------ MODULE ReservationSweepProofs ------------------------
(***************************************************************************)
(* The report of a sweep is true, for any rows, deadlines and bounds, and  *)
(* however callers close reservations while it runs.                       *)
(*                                                                         *)
(* A batch that is empty was read when no candidate was left, because it   *)
(* is only read while an attempt is left to be made (a bound of zero rows  *)
(* would be empty as well).  From then on the rows only lose candidates:   *)
(* nobody opens one with a deadline in the past, and `since` and `failed`  *)
(* stay what they were until the next sweep begins.                        *)
(*                                                                         *)
(* The counts of the report follow the batch: it is read without rows that *)
(* failed and without repetition, and each row leaves it for one count.    *)
(***************************************************************************)
EXTENDS ReservationSweep, FiniteSetTheorems, TLAPS

SweepInv ==
  /\ attempted \in Nat
  /\ failed \subseteq Unreleasable
  /\ exhausted => ~running /\ Candidates = {}

\* An empty batch means that nobody is left to be tried.
LEMMA EmptyBatchIsTheEnd ==
  ASSUME attempted \in Nat, ~Spent,
         << >> \in Batches(Minimum(BatchSize, MaxAttempts - attempted))
  PROVE  Candidates = {}
<1> DEFINE n == Minimum(BatchSize, MaxAttempts - attempted)
           k == Minimum(n, Cardinality(Candidates))
<1>1. n \in Nat /\ n > 0
  BY SweepAssumption DEF Spent, Minimum
<1>2. IsFiniteSet(Candidates) /\ Cardinality(Candidates) \in Nat
  <2>1. Candidates \subseteq Rows
    BY DEF Candidates
  <2> QED
    BY <2>1, SweepAssumption, FS_Subset, FS_CardinalityType
<1>3. << >> \in [1..k -> Candidates]
  BY DEF Batches
<1>4. 1 \notin 1..k
  <2>1. DOMAIN << >> = {}
    OBVIOUS
  <2> QED
    BY <1>3, <2>1
<1>5. k \in Nat
  BY <1>1, <1>2 DEF Minimum
<1> HIDE DEF n
<1>6. Cardinality(Candidates) = 0
  BY <1>1, <1>2, <1>4, <1>5 DEF Minimum
<1> QED
  BY <1>2, <1>6, FS_EmptySet

\* Closing reservations takes candidates away.
LEMMA ClosingKeepsTheEnd ==
  ASSUME Candidates = {}, open' \subseteq open, UNCHANGED <<expiresAt, since, failed>>
  PROVE  Candidates' = {}
BY DEF Candidates, Abandoned

LEMMA SweepInvStep ==
  ASSUME SweepInv, [Next]_vars
  PROVE  SweepInv'
<1>1. CASE Begin
  BY <1>1 DEF Begin, SweepInv
<1>2. CASE ReadBatch
  <2>1. /\ UNCHANGED <<open, expiresAt, since, failed, attempted>> /\ ~Spent
        /\ batch' \in Batches(Minimum(BatchSize, MaxAttempts - attempted))
        /\ running' = (batch' # << >>) /\ exhausted' = (batch' = << >>)
    BY <1>2 DEF ReadBatch
  <2>2. UNCHANGED Candidates
    BY <2>1 DEF Candidates, Abandoned
  <2>3. batch' = << >> => Candidates = {}
    BY <2>1, EmptyBatchIsTheEnd DEF SweepInv
  <2> QED
    BY <2>1, <2>2, <2>3 DEF SweepInv
<1>3. CASE Attempt
  <2>1. /\ running /\ UNCHANGED <<running, exhausted>> /\ attempted' = attempted + 1
        /\ failed' = failed \/ \E r \in Unreleasable : failed' = failed \cup {r}
    BY <1>3 DEF Attempt
  <2> QED
    BY <2>1 DEF SweepInv
<1>4. CASE Stop
  BY <1>4 DEF Stop, SweepInv
<1>5. ASSUME NEW r \in Rows, CallerCloses(r)
      PROVE  SweepInv'
  <2>1. open' \subseteq open /\ UNCHANGED <<expiresAt, sweepVars>>
    BY <1>5 DEF CallerCloses
  <2> QED
    BY <2>1, ClosingKeepsTheEnd DEF SweepInv, sweepVars
<1>6. CASE Tick \/ UNCHANGED vars
  <2>1. UNCHANGED <<open, expiresAt, sweepVars>>
    BY <1>6 DEF Tick, vars
  <2> QED
    BY <2>1, ClosingKeepsTheEnd DEF SweepInv, sweepVars
<1> QED
  BY <1>1, <1>2, <1>3, <1>4, <1>5, <1>6 DEF Next, Sweep

\* After `exhausted`, every row that was abandoned when the sweep began and is
\* still OPEN is named as failed, and no row is that could have been released.
THEOREM SweepReportsTruly == Spec => []ReportIsTrue
<1>1. Init => SweepInv
  BY DEF Init, SweepInv
<1>2. SweepInv /\ [Next]_vars => SweepInv'
  BY SweepInvStep
<1>3. SweepInv => ReportIsTrue
  BY DEF SweepInv, ReportIsTrue, Candidates
<1> QED
  BY <1>1, <1>2, <1>3, PTL DEF Spec

-----------------------------------------------------------------------------
(* What a report counts. *)

\* The rows of a batch are tried once each, and none that failed before.
Untried ==
  /\ batch \in Seq(Rows)
  /\ \A p, q \in 1..Len(batch) : batch[p] = batch[q] => p = q
  /\ \A p \in 1..Len(batch) : batch[p] \notin failed

\* Every attempt is counted as a release or named as a failure, and the bounds
\* the caller gave are kept.
ReportAddsUp ==
  /\ attempted = swept + Cardinality(failed)
  /\ swept <= Limit /\ attempted <= MaxAttempts

CountInv ==
  /\ attempted \in Nat /\ swept \in Nat /\ failed \subseteq Rows
  /\ expiresAt \in [Rows -> Nat]
  /\ Untried
  /\ ReportAddsUp

\* What is read is new to the sweep, and comes without repetition.
LEMMA BatchIsUntried ==
  ASSUME CountInv, NEW n \in Nat, NEW read \in Batches(n)
  PROVE  /\ read \in Seq(Rows)
         /\ \A p, q \in 1..Len(read) : read[p] = read[q] => p = q
         /\ \A p \in 1..Len(read) : read[p] \notin failed
<1> DEFINE k == Minimum(n, Cardinality(Candidates))
<1>1. Candidates \subseteq Rows /\ \A r \in Candidates : r \notin failed
  BY DEF Candidates
<1>2. k \in Nat
  BY <1>1, SweepAssumption, FS_Subset, FS_CardinalityType DEF Minimum
<1> HIDE DEF k
<1>3. read \in [1..k -> Candidates] /\ FirstOf(read, Candidates)
  BY DEF Batches, k
<1>4. read \in Seq(Rows) /\ Len(read) = k
  BY <1>1, <1>2, <1>3
<1>5. \A p, q \in 1..k : p < q => read[p] # read[q]
  <2> SUFFICES ASSUME NEW p \in 1..k, NEW q \in 1..k, p < q, read[p] = read[q] PROVE FALSE
    OBVIOUS
  <2>1. Before(read[p], read[q]) /\ read[p] \in Rows
    BY <1>1, <1>3 DEF FirstOf
  <2>2. expiresAt[read[p]] \in Nat /\ read[p] \in Nat
    BY <2>1, SweepAssumption DEF CountInv
  <2> QED
    BY <2>1, <2>2 DEF Before
<1>6. \A p, q \in 1..k : read[p] = read[q] => p = q
  BY <1>2, <1>5
<1> QED
  BY <1>1, <1>3, <1>4, <1>6

\* A batch that loses its head is still untried, and the head is not in it.
LEMMA RestIsUntried ==
  ASSUME Untried, batch # << >>
  PROVE  /\ Head(batch) \in Rows /\ Head(batch) \notin failed
         /\ Tail(batch) \in Seq(Rows)
         /\ \A p, q \in 1..Len(Tail(batch)) : Tail(batch)[p] = Tail(batch)[q] => p = q
         /\ \A p \in 1..Len(Tail(batch)) : /\ Tail(batch)[p] \notin failed
                                          /\ Tail(batch)[p] # Head(batch)
<1>1. /\ Len(batch) \in Nat /\ Len(batch) > 0 /\ Head(batch) = batch[1]
      /\ batch \in Seq(Rows)
  BY DEF Untried
<1>2. /\ Tail(batch) \in Seq(Rows) /\ Len(Tail(batch)) = Len(batch) - 1
      /\ \A p \in 1..Len(Tail(batch)) : Tail(batch)[p] = batch[p + 1]
  BY <1>1
<1>3. \A p \in 1..Len(Tail(batch)) : p + 1 \in 1..Len(batch) /\ p + 1 # 1
  BY <1>1, <1>2
<1>4. 1 \in 1..Len(batch)
  BY <1>1
<1>5. batch[1] \in Rows
  BY <1>1, <1>4
<1>6. \A p, q \in 1..Len(Tail(batch)) : p + 1 = q + 1 => p = q
  OBVIOUS
<1> QED
  BY <1>1, <1>2, <1>3, <1>4, <1>5, <1>6 DEF Untried

LEMMA CountInvStep ==
  ASSUME CountInv, [Next]_vars
  PROVE  CountInv'
<1>1. CASE Begin
  BY <1>1, SweepAssumption, FS_EmptySet DEF Begin, CountInv, Untried, ReportAddsUp
<1>2. CASE ReadBatch
  <2>1. /\ UNCHANGED <<expiresAt, failed, swept, attempted>> /\ ~Spent
        /\ batch' \in Batches(Minimum(BatchSize, MaxAttempts - attempted))
    BY <1>2 DEF ReadBatch
  <2>2. Minimum(BatchSize, MaxAttempts - attempted) \in Nat
    BY <2>1, SweepAssumption DEF CountInv, Spent, Minimum
  <2>3. Untried'
    BY <2>1, <2>2, BatchIsUntried DEF Untried
  <2> QED
    BY <2>1, <2>3 DEF CountInv, ReportAddsUp
<1>3. CASE Attempt
  <2> DEFINE r == Head(batch)
  <2>1. /\ batch # << >> /\ ~Spent /\ batch' = Tail(batch) /\ attempted' = attempted + 1
        /\ UNCHANGED expiresAt
        /\ \/ failed' = failed \cup {r} /\ UNCHANGED swept
           \/ swept' = swept + 1 /\ UNCHANGED failed
    BY <1>3 DEF Attempt
  <2>2. /\ r \in Rows /\ r \notin failed
        /\ Tail(batch) \in Seq(Rows)
        /\ \A p, q \in 1..Len(Tail(batch)) : Tail(batch)[p] = Tail(batch)[q] => p = q
        /\ \A p \in 1..Len(Tail(batch)) : Tail(batch)[p] \notin failed /\ Tail(batch)[p] # r
    BY <2>1, RestIsUntried DEF CountInv
  <2> HIDE DEF r
  <2>3. Untried'
    BY <2>1, <2>2 DEF Untried
  <2>4. IsFiniteSet(failed) /\ Cardinality(failed) \in Nat
    BY SweepAssumption, FS_Subset, FS_CardinalityType DEF CountInv
  <2>5. Cardinality(failed \cup {r}) = Cardinality(failed) + 1
    BY <2>2, <2>4, FS_AddElement
  <2>6. /\ swept < Limit /\ attempted < MaxAttempts
    BY <2>1, SweepAssumption DEF CountInv, Spent
  <2>7. attempted' = swept' + Cardinality(failed')
    <3>1. attempted = swept + Cardinality(failed) /\ swept \in Nat
      BY DEF CountInv, ReportAddsUp
    <3>2. CASE failed' = failed \cup {r} /\ UNCHANGED swept
      <4>1. Cardinality(failed') = Cardinality(failed) + 1
        BY <2>5, <3>2
      <4> QED
        BY <2>1, <2>4, <3>1, <3>2, <4>1
    <3>3. CASE swept' = swept + 1 /\ UNCHANGED failed
      <4>1. Cardinality(failed') = Cardinality(failed)
        BY <3>3
      <4> QED
        BY <2>1, <2>4, <3>1, <3>3, <4>1
    <3> QED
      BY <2>1, <3>2, <3>3
  <2>8. swept' \in Nat /\ swept' <= Limit /\ attempted' \in Nat /\ attempted' <= MaxAttempts
    BY <2>1, <2>6, SweepAssumption DEF CountInv
  <2> QED
    BY <2>1, <2>2, <2>3, <2>7, <2>8 DEF CountInv, ReportAddsUp
<1>4. CASE Stop
  BY <1>4 DEF Stop, CountInv, Untried, ReportAddsUp
<1>5. CASE (\E r \in Rows : CallerCloses(r)) \/ Tick \/ UNCHANGED vars
  <2>1. UNCHANGED <<expiresAt, sweepVars>>
    BY <1>5 DEF CallerCloses, Tick, vars
  <2> QED
    BY <2>1 DEF CountInv, Untried, ReportAddsUp, sweepVars
<1> QED
  BY <1>1, <1>2, <1>3, <1>4, <1>5 DEF Next, Sweep

\* A sweep tries no row twice: its attempts are its releases and the rows it
\* names, each once, and it stays within both of the caller's bounds.
THEOREM SweepCountsAttempts == Spec => []ReportAddsUp
<1>1. Init => CountInv
  <2> SUFFICES ASSUME Init PROVE CountInv
    OBVIOUS
  <2>1. expiresAt \in [Rows -> Nat]
    <3>1. Deadlines \subseteq Nat
      BY SweepAssumption
    <3> QED
      BY <3>1 DEF Init
  <2> QED
    BY <2>1, SweepAssumption, FS_EmptySet DEF Init, CountInv, Untried, ReportAddsUp
<1>2. CountInv /\ [Next]_vars => CountInv'
  BY CountInvStep
<1>3. CountInv => ReportAddsUp
  BY DEF CountInv
<1> QED
  BY <1>1, <1>2, <1>3, PTL DEF Spec
=============================================================================
