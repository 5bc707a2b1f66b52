-------------------------- MODULE ReservationSweep --------------------------
(***************************************************************************)
(* sweepAbandonedReservations as a loop of its own transactions: batches   *)
(* of abandoned reservations are read, oldest deadline first, and released *)
(* one by one, while callers settle or release reservations of their own   *)
(* between the read of a batch and each release.                           *)
(*                                                                         *)
(* Some rows cannot be released (a bucket that does not record the hold:   *)
(* the database refuses the decrement).  They stay OPEN, are remembered    *)
(* for the rest of this sweep only, and head the order of the next one.    *)
(*                                                                         *)
(* Source: packages/entitlements/src/credit-ledger.ts; the scheduler of    *)
(* apps/api/src/scheduler.ts runs one sweep after the other.               *)
(***************************************************************************)
EXTENDS Integers, FiniteSets, Sequences, Functions

CONSTANTS Rows,          \* reservation ids
          Unreleasable,  \* the rows whose release the database refuses
          Deadlines,     \* the expiresAt values to try
          BatchSize, Limit, MaxAttempts,
          MaxTime        \* bound on the clock

ASSUME SweepAssumption ==
  /\ Rows \subseteq Nat /\ IsFiniteSet(Rows) /\ Unreleasable \subseteq Rows
  /\ Deadlines \subseteq 0..(MaxTime - 1)
  /\ BatchSize \in Nat \ {0} /\ Limit \in Nat \ {0}
  /\ MaxAttempts \in Nat \ {0} /\ MaxTime \in Nat

VARIABLES
  open,        \* the rows whose status is OPEN
  expiresAt,   \* the deadline of each row
  now,
  running,     \* a sweep is in progress
  since,       \* the time that sweep read when it began
  batch,       \* what is left of the batch it read
  failed,      \* the rows whose release failed in this sweep
  swept, attempted,
  exhausted    \* the last sweep reported that it reached the end

sweepVars == <<running, since, batch, failed, swept, attempted, exhausted>>
vars == <<open, expiresAt, now, sweepVars>>

Init ==
  /\ open = Rows
  /\ expiresAt \in [Rows -> Deadlines]
  /\ now = 0
  /\ running = FALSE
  /\ since = 0
  /\ batch = << >>
  /\ failed = {}
  /\ swept = 0
  /\ attempted = 0
  /\ exhausted = FALSE

Abandoned(r, t) == r \in open /\ expiresAt[r] < t

Before(r, s) == \/ expiresAt[r] < expiresAt[s]
                \/ expiresAt[r] = expiresAt[s] /\ r < s

Minimum(a, b) == IF a < b THEN a ELSE b

\* Mutant: rows already tried in this sweep are read again.
CandidatesAgain == {r \in Rows : Abandoned(r, since)}

\* The rows a batch is read from.
Candidates == {r \in Rows : Abandoned(r, since)} \ failed

\* orderBy [expiresAt asc, id asc], take n: a batch is in order, and every
\* candidate it leaves out comes after those it holds.
FirstOf(s, rows) ==
  /\ \A p, q \in DOMAIN s : p < q => Before(s[p], s[q])
  /\ \A r \in rows \ Range(s), p \in DOMAIN s : Before(s[p], r)

Batches(n) == {s \in [1..Minimum(n, Cardinality(Candidates)) -> Candidates] :
                 FirstOf(s, Candidates)}

Begin ==
  /\ ~running
  /\ running' = TRUE
  /\ since' = now
  /\ batch' = << >>
  /\ failed' = {}
  /\ swept' = 0
  /\ attempted' = 0
  /\ exhausted' = FALSE
  /\ UNCHANGED <<open, expiresAt, now>>

Spent == swept >= Limit \/ attempted >= MaxAttempts

\* The next batch; an empty one ends the sweep, exhausted.
ReadBatch ==
  /\ running
  /\ batch = << >>
  /\ ~Spent
  /\ batch' \in Batches(Minimum(BatchSize, MaxAttempts - attempted))
  /\ running' = (batch' # << >>)
  /\ exhausted' = (batch' = << >>)
  /\ UNCHANGED <<open, expiresAt, now, since, failed, swept, attempted>>

\* Mutant: a row a caller closed meanwhile is reported as failed.
AttemptReporting ==
  LET r == Head(batch)
  IN  /\ running
      /\ batch # << >>
      /\ ~Spent
      /\ batch' = Tail(batch)
      /\ attempted' = attempted + 1
      /\ IF r \notin open \/ r \in Unreleasable
         THEN failed' = failed \cup {r} /\ UNCHANGED <<open, swept>>
         ELSE open' = open \ {r} /\ swept' = swept + 1 /\ UNCHANGED failed
      /\ UNCHANGED <<expiresAt, now, running, since, exhausted>>

\* One release.  A row somebody closed meanwhile is left as it is, and counts.
Attempt ==
  LET r == Head(batch)
  IN  /\ running
      /\ batch # << >>
      /\ ~Spent
      /\ batch' = Tail(batch)
      /\ attempted' = attempted + 1
      /\ IF r \in open /\ r \in Unreleasable
         THEN failed' = failed \cup {r} /\ UNCHANGED <<open, swept>>
         ELSE open' = open \ {r} /\ swept' = swept + 1 /\ UNCHANGED failed
      /\ UNCHANGED <<expiresAt, now, running, since, exhausted>>

\* The bound ends the sweep, in the middle of a batch or after it.
Stop ==
  /\ running
  /\ Spent
  /\ running' = FALSE
  /\ batch' = << >>
  /\ UNCHANGED <<open, expiresAt, now, since, failed, swept, attempted, exhausted>>

\* The caller settles or releases a reservation of its own, at any time.
CallerCloses(r) ==
  /\ r \in open \ Unreleasable
  /\ open' = open \ {r}
  /\ UNCHANGED <<expiresAt, now, sweepVars>>

Tick ==
  /\ now < MaxTime
  /\ now' = now + 1
  /\ UNCHANGED <<open, expiresAt, sweepVars>>

Sweep == Begin \/ ReadBatch \/ Attempt \/ Stop

Next == Sweep \/ (\E r \in Rows : CallerCloses(r)) \/ Tick

\* The scheduler starts a sweep again and again, and time passes.  No caller
\* ever has to come back.
Spec == Init /\ [][Next]_vars /\ WF_vars(Sweep) /\ WF_vars(Tick)

-----------------------------------------------------------------------------
\* What a sweep reports is true however the callers race it: after `exhausted`,
\* the rows that were abandoned when it began and still are OPEN are those it
\* names as failed, and it never names a row that could have been released.
ReportIsTrue ==
  /\ exhausted => \A r \in Rows : Abandoned(r, since) => r \in failed
  /\ failed \subseteq Unreleasable

\* While fewer rows than MaxAttempts are unreleasable, they starve nobody: every
\* reservation that can be released and is abandoned is closed in the end.
NobodyIsStarved ==
  \A r \in Rows \ Unreleasable : Abandoned(r, now) ~> r \notin open
=============================================================================
