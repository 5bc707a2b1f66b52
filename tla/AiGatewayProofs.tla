--------------------------- MODULE AiGatewayProofs --------------------------
(***************************************************************************)
(* What holds of the gateway for every set of executions and keys, every   *)
(* chain of models, timeout, cost and budget.                              *)
(*                                                                         *)
(* The inductive invariant has named parts, each of which says what one    *)
(* execution may rely on at the place it is at: Typed and InTime, on which *)
(* all else rests; Claimed, the unique key, which alone relates the rows   *)
(* of two executions; Unheld, what a failure still holds; Charged and      *)
(* Covered, what became of the hold of a charge and of a running request;  *)
(* Backed and Billed, the wallet's sums and the rows' costs.  Frame lemmas *)
(* (OthersStay, OthersRow, TimeStays) reduce each part to the step of the  *)
(* one execution that moves.                                               *)
(***************************************************************************)
EXTENDS AiGateway, FiniteSetTheorems, TLAPS

Before == {"idle", "lookup", "reread", "supersede", "resupersede", "admit", "create"}

Claiming == {"reserve", "mark", "moderate", "unhold blocked", "block", "start",
             "attempt", "calling", "settle", "record", "release", "fail"}

Places == Before \cup Claiming \cup {"done", "crashed"}

Typed ==
  /\ pc \in [Executions -> Places]
  /\ asked \in [Executions -> Keys]
  /\ local \in [Executions -> Locals]
  /\ row \in [Executions -> Rows]
  /\ usage \in [Executions -> Nat]
  /\ holds \in [HoldIds -> Hold]
  /\ ttl \in [Executions -> Nat]
  /\ now \in 0..MaxTime

\* An execution is called early enough to end before the clock's bound.
InTime ==
  \A e \in Executions :
    /\ pc[e] \in (Before \ {"idle"}) \cup {"reserve", "mark"} =>
         now + 2 * Timeout < MaxTime
    /\ pc[e] \in {"moderate", "start"} =>
         now <= local[e].deadline /\ local[e].deadline + Timeout < MaxTime

-----------------------------------------------------------------------------
(* Types. *)

\* At first nobody was called and the rows, the memories and the holds are blank.
LEMMA InitTyped == Init => Typed /\ InTime
BY GatewayAssumption, NamesAssumption
DEF Init, Typed, InTime, Places, Before, Claiming, NoLocals, Locals, NoRow, Rows,
    NoHold, Hold, HoldStatuses, Executions, None, Superseded, Classes

\* The fields of the locals, one by one.
LEMMA LocalFields ==
  ASSUME Typed, NEW e \in Executions
  PROVE  /\ local[e].deadline \in 0..MaxTime
         /\ local[e].bill \in Nat
         /\ local[e].class \in Classes \cup {None}
<1>1. local[e] \in Locals
  BY DEF Typed
<1>2. Charges \cup {0} \subseteq Nat
  BY GatewayAssumption
<1> QED
  BY <1>1, <1>2 DEF Locals

\* What a row may be updated to.
LEMMA RowUpdates ==
  ASSUME NEW r \in Rows
  PROVE  /\ \A s \in Live \cup Failures \cup {"SUCCEEDED"} : [r EXCEPT !.status = s] \in Rows
         /\ \A c \in Classes \cup {None} : [r EXCEPT !.class = c] \in Rows
         /\ \A n \in Nat : [r EXCEPT !.charged = n] \in Rows
         /\ [r EXCEPT !.reserved = TRUE] \in Rows
BY DEF Rows

\* An execution only ever goes to a place of the pipeline.
LEMMA PcTyped ==
  ASSUME pc \in [Executions -> Places], [Next]_vars
  PROVE  pc' \in [Executions -> Places]
<1> USE DEF Places, Before, Claiming, Goto
<1>1. ASSUME NEW e \in Executions, Call(e)
      PROVE  pc' \in [Executions -> Places]
  BY <1>1 DEF Call
<1>2. ASSUME NEW e \in Executions, Step(e)
      PROVE  pc' \in [Executions -> Places]
  <2>1. CASE Lookup(e) \/ Supersede(e) \/ Admit(e) \/ Create(e)
    BY <2>1 DEF Lookup, Supersede, Freed, Admit, Create, Answer, Leave
  <2>2. CASE Reserve(e) \/ Mark(e) \/ Moderate(e) \/ UnholdBlocked(e) \/ Block(e)
    BY <2>2 DEF Reserve, Mark, Moderate, UnholdBlocked, Block, Answer, Leave
  <2>3. CASE Start(e) \/ Attempt(e) \/ ProviderAnswers(e) \/ ProviderFails(e)
    BY <2>3 DEF Start, Attempt, ProviderAnswers, ProviderFails
  <2>4. CASE Settle(e) \/ Record(e) \/ ReleaseFailed(e) \/ RecordFailure(e)
    BY <2>4 DEF Settle, Record, ReleaseFailed, RecordFailure, Answer, Leave
  <2> QED
    BY <1>2, <2>1, <2>2, <2>3, <2>4 DEF Step
<1>3. ASSUME NEW e \in Executions, Crash(e)
      PROVE  pc' \in [Executions -> Places]
  BY <1>3 DEF Crash, Leave
<1>4. ASSUME UNCHANGED pc
      PROVE  pc' \in [Executions -> Places]
  BY <1>4
<1> QED
  BY <1>1, <1>2, <1>3, <1>4 DEF Next, SweepHold, OtherMovement, Tick, vars

\* What an execution remembers keeps its types.
LEMMA LocalTyped ==
  ASSUME Typed, InTime, [Next]_vars
  PROVE  local' \in [Executions -> Locals]
<1> DEFINE Goal == local' \in [Executions -> Locals]
<1>1. /\ local \in [Executions -> Locals]
      /\ NoLocals \in Locals
      /\ \A e \in Executions, c \in Classes : [local[e] EXCEPT !.class = c] \in Locals
  BY GatewayAssumption, NamesAssumption DEF Typed, NoLocals, Locals, None
<1>2. ASSUME NEW e \in Executions, NEW there, Leave(e, there)
      PROVE  Goal
  BY <1>1, <1>2 DEF Leave
<1>3. ASSUME NEW e \in Executions, NEW class \in Classes, Fail(e, class)
      PROVE  Goal
  BY <1>1, <1>3 DEF Fail
<1>4. ASSUME UNCHANGED local
      PROVE  Goal
  BY <1>1, <1>4
<1>5. "QUOTA_EXCEEDED" \in Classes /\ "TIMEOUT" \in Classes /\ "UNKNOWN" \in Classes
      /\ ProviderClasses \subseteq Classes
  BY DEF Classes, ProviderClasses, FallbackEligible, Transient
<1>6. ASSUME NEW e \in Executions, Lookup(e)
      PROVE  Goal
  <2>1. ASSUME NEW o \in Executions, local' = [local EXCEPT ![e].seen = o]
        PROVE  Goal
    BY <1>1, <2>1 DEF Locals
  <2> HIDE DEF Goal
  <2> QED
    BY <1>2, <1>4, <1>6, <2>1 DEF Lookup, Bearing, Answer
<1>7. ASSUME NEW e \in Executions, Supersede(e)
      PROVE  Goal
  <2>1. ASSUME local[e].races + 1 < 3,
               local' = [local EXCEPT ![e].races = local[e].races + 1]
        PROVE  Goal
    BY <1>1, <2>1 DEF Locals
  <2> HIDE DEF Goal
  <2> QED
    BY <1>2, <1>4, <1>7, <2>1 DEF Supersede, Freed, Answer
<1>8. ASSUME NEW e \in Executions, Create(e)
      PROVE  Goal
  BY <1>1, <1>8 DEF Create
<1>9. ASSUME NEW e \in Executions, Mark(e) \/ Start(e)
      PROVE  Goal
  <2>1. ASSUME local' = [local EXCEPT ![e].deadline = now + Timeout],
               now + Timeout \in 0..MaxTime
        PROVE  Goal
    BY <1>1, <2>1 DEF Locals
  <2>2. pc[e] \in {"mark", "start"} => now + Timeout \in 0..MaxTime
    <3>1. pc[e] = "mark" => now + 2 * Timeout < MaxTime
      BY DEF InTime
    <3>2. pc[e] = "start" => now <= local[e].deadline /\ local[e].deadline + Timeout < MaxTime
      BY DEF InTime
    <3>3. now \in Nat /\ MaxTime \in Nat /\ Timeout \in Nat /\ local[e].deadline \in Nat
      BY GatewayAssumption, LocalFields DEF Typed
    <3> QED
      BY <3>1, <3>2, <3>3
  <2> HIDE DEF Goal
  <2> QED
    BY <1>3, <1>5, <1>9, <2>1, <2>2 DEF Mark, Start
<1>10. ASSUME NEW e \in Executions, ProviderAnswers(e)
       PROVE  Goal
  BY <1>1, <1>10 DEF ProviderAnswers, Locals
<1>11. ASSUME NEW e \in Executions, ProviderFails(e)
       PROVE  Goal
  <2>1. ASSUME local[e].attempt < MaxAttempts, local' = [local EXCEPT ![e].attempt = @ + 1]
        PROVE  Goal
    BY GatewayAssumption, <1>1, <2>1 DEF Locals
  <2>2. ASSUME local[e].model < ChainLength,
               local' = [local EXCEPT ![e].model = @ + 1, ![e].attempt = 1]
        PROVE  Goal
    <3>1. [local[e] EXCEPT !.model = local[e].model + 1] \in Locals
      BY GatewayAssumption, <1>1, <2>2 DEF Locals
    <3>2. \A r \in Locals : [r EXCEPT !.attempt = 1] \in Locals
      BY GatewayAssumption DEF Locals
    <3>3. [[local[e] EXCEPT !.model = local[e].model + 1] EXCEPT !.attempt = 1] \in Locals
      BY <3>1, <3>2
    <3> QED
      BY <1>1, <2>2, <3>3
  <2> HIDE DEF Goal
  <2> QED
    BY <1>3, <1>5, <1>11, <2>1, <2>2 DEF ProviderFails
<1> HIDE DEF Goal
<1>12. ASSUME NEW e \in Executions, Step(e)
       PROVE  Goal
  <2>1. CASE Admit(e) \/ Block(e) \/ RecordFailure(e)
    BY <1>2, <1>4, <2>1 DEF Admit, Block, RecordFailure, Answer
  <2>2. CASE Reserve(e) \/ Attempt(e) \/ Settle(e)
    BY <1>3, <1>4, <1>5, <2>2 DEF Reserve, Attempt, Settle
  <2>3. CASE Record(e)
    BY <1>2, <1>3, <1>5, <2>3 DEF Record, Answer
  <2>4. CASE Moderate(e) \/ UnholdBlocked(e) \/ ReleaseFailed(e)
    BY <1>4, <2>4 DEF Moderate, UnholdBlocked, ReleaseFailed
  <2> QED
    BY <1>6, <1>7, <1>8, <1>9, <1>10, <1>11, <1>12, <2>1, <2>2, <2>3, <2>4 DEF Step
<1>13. Goal
  BY <1>2, <1>4, <1>12 DEF Next, Call, Crash, SweepHold, OtherMovement, Tick, vars
<1> QED
  BY <1>13 DEF Goal

\* The rows keep their types, whoever updates or renames them.
LEMMA RowTyped ==
  ASSUME Typed, [Next]_vars
  PROVE  row' \in [Executions -> Rows]
<1> DEFINE Goal == row' \in [Executions -> Rows]
<1>1. /\ row \in [Executions -> Rows] /\ local \in [Executions -> Locals]
      /\ asked \in [Executions -> Keys]
  BY DEF Typed
<1>2. ASSUME UNCHANGED row
      PROVE  Goal
  BY <1>1, <1>2
<1>3. ASSUME NEW e \in Executions, Supersede(e)
      PROVE  Goal
  <2>1. ASSUME NEW o, row' = [row EXCEPT ![o].key = Superseded]
        PROVE  Goal
    BY <1>1, <2>1 DEF Rows
  <2> HIDE DEF Goal
  <2> QED
    BY <1>2, <1>3, <2>1 DEF Supersede
<1>4. ASSUME NEW e \in Executions, Create(e)
      PROVE  Goal
  <2>1. Pending(asked[e]) \in Rows
    BY <1>1 DEF Pending, Rows, Live
  <2> QED
    BY <1>1, <1>4, <2>1 DEF Create
<1>5. ASSUME NEW e \in Executions, Mark(e)
      PROVE  Goal
  <2>1. [[row[e] EXCEPT !.status = "RESERVED"] EXCEPT !.reserved = TRUE] \in Rows
    BY <1>1, RowUpdates DEF Live
  <2> QED
    BY <1>1, <1>5, <2>1 DEF Mark
<1>6. ASSUME NEW e \in Executions, Start(e)
      PROVE  Goal
  BY <1>1, <1>6, RowUpdates DEF Start, Live
<1>7. ASSUME NEW e \in Executions, Block(e)
      PROVE  Goal
  <2>1. [[[row[e] EXCEPT !.status = "MODERATION_BLOCKED"]
            EXCEPT !.class = "CONTENT_FILTERED"] EXCEPT !.charged = 0] \in Rows
    BY <1>1, RowUpdates DEF Failures, Classes, Deterministic
  <2> QED
    BY <1>1, <1>7, <2>1 DEF Block
<1>8. ASSUME NEW e \in Executions, Record(e)
      PROVE  Goal
  <2>1. [[row[e] EXCEPT !.status = "SUCCEEDED"] EXCEPT !.charged = local[e].bill] \in Rows
    BY <1>1, RowUpdates, LocalFields
  <2> QED
    BY <1>1, <1>8, <2>1 DEF Record, tables
<1>9. ASSUME NEW e \in Executions, RecordFailure(e)
       PROVE  Goal
  <2>1. FailureStatus(local[e].class) \in Failures
    BY DEF FailureStatus, Failures
  <2>2. [[[row[e] EXCEPT !.status = FailureStatus(local[e].class)]
            EXCEPT !.class = local[e].class] EXCEPT !.charged = 0] \in Rows
    BY <1>1, <2>1, RowUpdates, LocalFields
  <2> QED
    BY <1>1, <1>9, <2>2 DEF RecordFailure
<1> HIDE DEF Goal
<1>10. ASSUME NEW e \in Executions, Step(e)
       PROVE  Goal
  <2>1. CASE \/ Lookup(e) \/ Admit(e) \/ Reserve(e) \/ Moderate(e) \/ UnholdBlocked(e)
             \/ Attempt(e) \/ ProviderAnswers(e) \/ ProviderFails(e) \/ Settle(e)
             \/ ReleaseFailed(e)
    BY <1>2, <2>1
    DEF Lookup, Admit, Reserve, Moderate, UnholdBlocked, Attempt, ProviderAnswers,
        ProviderFails, Settle, ReleaseFailed, tables
  <2> QED
    BY <1>3, <1>4, <1>5, <1>6, <1>7, <1>8, <1>9, <1>10, <2>1 DEF Step
<1>11. Goal
  BY <1>2, <1>10 DEF Next, Call, Crash, SweepHold, OtherMovement, Tick, vars, tables
<1> QED
  BY <1>11 DEF Goal

\* The reservations keep their types.
LEMMA HoldsTyped ==
  ASSUME Typed, [Next]_vars
  PROVE  holds' \in [HoldIds -> Hold]
<1> DEFINE Goal == holds' \in [HoldIds -> Hold]
<1>1. holds \in [HoldIds -> Hold]
  BY DEF Typed
<1>2. ASSUME UNCHANGED holds
      PROVE  Goal
  BY <1>1, <1>2
<1>3. ASSUME NEW e \in Executions, HoldCredits(e, Estimate)
      PROVE  Goal
  <2>1. [status |-> "OPEN", amount |-> Estimate, charged |-> 0] \in Hold
    BY GatewayAssumption DEF Hold, HoldStatuses
  <2> QED
    BY <1>1, <1>3, <2>1 DEF HoldCredits
<1>4. ASSUME NEW e \in Executions, ChargeHold(e, local[e].bill)
      PROVE  Goal
  <2>1. [[holds[e] EXCEPT !.status = "SETTLED"] EXCEPT !.charged = local[e].bill] \in Hold
    BY <1>1, LocalFields DEF Hold, HoldStatuses, Executions
  <2> QED
    BY <1>1, <1>4, <2>1 DEF ChargeHold
<1>5. ASSUME NEW e \in Executions, NEW status \in HoldStatuses, EndHold(e, status)
      PROVE  Goal
  <2>1. [holds[e] EXCEPT !.status = status] \in Hold
    BY <1>1 DEF Hold, Executions
  <2> QED
    BY <1>1, <1>5, <2>1 DEF EndHold
<1> HIDE DEF Goal
<1>6. ASSUME NEW e \in Executions, Step(e)
      PROVE  Goal
  <2>1. CASE Reserve(e)
    BY <1>2, <1>3, <2>1 DEF Reserve, accountVars
  <2>2. CASE Settle(e)
    BY <1>2, <1>4, <2>2 DEF Settle, accountVars
  <2>3. CASE UnholdBlocked(e) \/ ReleaseFailed(e)
    BY <1>2, <1>5, <2>3 DEF UnholdBlocked, ReleaseFailed, ReleaseHold, HoldStatuses, accountVars
  <2>4. CASE \/ Lookup(e) \/ Supersede(e) \/ Admit(e) \/ Create(e) \/ Mark(e) \/ Moderate(e)
             \/ Block(e) \/ Start(e) \/ Attempt(e) \/ ProviderAnswers(e)
             \/ ProviderFails(e) \/ Record(e) \/ RecordFailure(e)
    BY <1>2, <2>4
    DEF Lookup, Supersede, Admit, Create, Mark, Moderate, Block, Start, Attempt,
        ProviderAnswers, ProviderFails, Record, RecordFailure, accountVars
  <2> QED
    BY <1>6, <2>1, <2>2, <2>3, <2>4 DEF Step
<1>7. ASSUME NEW e \in Executions, SweepHold(e)
      PROVE  Goal
  BY <1>5, <1>7 DEF SweepHold, HoldStatuses
<1>8. Goal
  BY <1>2, <1>6, <1>7
  DEF Next, Call, Crash, OtherMovement, MoveBalance, Tick, vars, accountVars
<1> QED
  BY <1>8 DEF Goal

-----------------------------------------------------------------------------
(* Who may change what. *)

\* A step of one execution leaves the others alone, but for the name of a
\* failed row it moves aside.
LEMMA OthersStay ==
  ASSUME Typed, NEW d \in Executions, Call(d) \/ Step(d) \/ Crash(d) \/ SweepHold(d),
         NEW e \in Executions, e # d
  PROVE  /\ pc'[e] = pc[e] /\ local'[e] = local[e] /\ holds'[e] = holds[e]
         /\ usage'[e] = usage[e] /\ ttl'[e] = ttl[e]
         /\ \/ row'[e] = row[e]
            \/ /\ pc[d] \in {"supersede", "resupersede"}
               /\ local[d].seen = e
               /\ row'[e] = [row[e] EXCEPT !.key = Superseded]
<1> USE DEF Goto, Fail, tables, accountVars, Executions
<1>1. CASE Call(d) \/ Crash(d)
  BY <1>1 DEF Typed, Call, Crash, Leave
<1>2. CASE SweepHold(d)
  BY <1>2 DEF Typed, SweepHold, EndHold
<1>3. CASE Lookup(d) \/ Admit(d) \/ Create(d)
  BY <1>3 DEF Typed, Lookup, Admit, Create, Answer, Leave
<1>4. CASE Supersede(d)
  BY <1>4 DEF Typed, Supersede, Freed, Answer, Leave
<1>5. CASE Reserve(d)
  BY <1>5 DEF Typed, Reserve, HoldCredits
<1>6. CASE Mark(d) \/ Moderate(d)
  BY <1>6 DEF Typed, Mark, Moderate
<1>7. CASE UnholdBlocked(d) \/ ReleaseFailed(d)
  BY <1>7 DEF Typed, UnholdBlocked, ReleaseFailed, ReleaseHold, EndHold
<1>8. CASE Block(d) \/ RecordFailure(d)
  BY <1>8 DEF Typed, Block, RecordFailure, Answer, Leave
<1>9. CASE Start(d) \/ Attempt(d) \/ ProviderAnswers(d) \/ ProviderFails(d)
  BY <1>9 DEF Typed, Start, Attempt, ProviderAnswers, ProviderFails
<1>10. CASE Settle(d)
  BY <1>10 DEF Typed, Settle, ChargeHold
<1>11. CASE Record(d)
  BY <1>11 DEF Typed, Record, Answer, Leave
<1> QED
  BY <1>1, <1>2, <1>3, <1>4, <1>5, <1>6, <1>7, <1>8, <1>9, <1>10, <1>11 DEF Step

\* Time passes alone, and for the requests that wait.
LEMMA TimeStays ==
  ASSUME [Next]_vars
  PROVE  \/ now' = now
         \/ /\ now < MaxTime /\ now' = now + 1
            /\ UNCHANGED <<pc, asked, local, row, usage, ttl, holds>>
            /\ \A e \in Executions : pc[e] \in {"idle", "done", "crashed"} \/ Waits(e)
<1>1. CASE UNCHANGED vars
  BY <1>1 DEF vars
<1>2. CASE Tick
  BY <1>2 DEF Tick, tables, accountVars
<1>3. ASSUME NEW e \in Executions, Step(e)
      PROVE  now' = now
  BY <1>3
  DEF Step, Lookup, Supersede, Admit, Create, Reserve, Mark, Moderate, UnholdBlocked,
      Block, Start, Attempt, ProviderAnswers, ProviderFails, Settle, Record,
      ReleaseFailed, RecordFailure
<1> QED
  BY <1>1, <1>2, <1>3 DEF Next, Call, Crash, SweepHold, OtherMovement

\* The four together, with the usage, the expiries and the clock.
LEMMA TypedStep ==
  ASSUME Typed, InTime, [Next]_vars
  PROVE  Typed'
<1>1. pc' \in [Executions -> Places] /\ local' \in [Executions -> Locals]
      /\ row' \in [Executions -> Rows] /\ holds' \in [HoldIds -> Hold]
  BY PcTyped, LocalTyped, RowTyped, HoldsTyped DEF Typed
<1>2. now' \in 0..MaxTime
  BY TimeStays, GatewayAssumption DEF Typed
<1>3. UNCHANGED asked
  BY DEF Next, Step, Call, Lookup, Supersede, Admit, Create, Reserve, Mark, Moderate,
         UnholdBlocked, Block, Start, Attempt, ProviderAnswers, ProviderFails, Settle,
         Record, ReleaseFailed, RecordFailure, Crash, SweepHold, OtherMovement, Tick, vars
<1>4. usage' \in [Executions -> Nat]
  <2>1. ASSUME NEW e \in Executions, Record(e)
        PROVE  usage' \in [Executions -> Nat]
    BY <2>1, LocalFields DEF Typed, Record, tables
  <2>2. ASSUME UNCHANGED usage
        PROVE  usage' \in [Executions -> Nat]
    BY <2>2 DEF Typed
  <2> QED
    BY <2>1, <2>2
    DEF Next, Step, Call, Lookup, Supersede, Admit, Create, Reserve, Mark, Moderate,
        UnholdBlocked, Block, Start, Attempt, ProviderAnswers, ProviderFails, Settle,
        ReleaseFailed, RecordFailure, Crash, SweepHold, OtherMovement, Tick, vars, tables
<1>5. ttl' \in [Executions -> Nat]
  <2>1. ASSUME NEW e \in Executions, Reserve(e)
        PROVE  ttl' \in [Executions -> Nat]
    BY <2>1, GatewayAssumption DEF Typed, Reserve
  <2>2. ASSUME UNCHANGED ttl
        PROVE  ttl' \in [Executions -> Nat]
    BY <2>2 DEF Typed
  <2> QED
    BY <2>1, <2>2
    DEF Next, Step, Call, Lookup, Supersede, Admit, Create, Mark, Moderate,
        UnholdBlocked, Block, Start, Attempt, ProviderAnswers, ProviderFails, Settle,
        Record, ReleaseFailed, RecordFailure, Crash, SweepHold, OtherMovement, Tick, vars
<1> QED
  BY <1>1, <1>2, <1>3, <1>4, <1>5 DEF Typed

\* Every step is one execution's, time's or the rest of the account's.
LEMMA StepIs ==
  ASSUME Typed, [Next]_vars
  PROVE  \/ \E d \in Executions : Call(d) \/ Step(d) \/ Crash(d) \/ SweepHold(d)
         \/ UNCHANGED <<pc, asked, local, row, usage, ttl, holds>>
BY DEF Next, OtherMovement, MoveBalance, Tick, vars, tables, accountVars

\* The clock waits for whoever runs, so a request called early enough ends in time.
LEMMA InTimeStep ==
  ASSUME Typed, InTime, [Next]_vars
  PROVE  InTime'
<1> DEFINE Early == (Before \ {"idle"}) \cup {"reserve", "mark"}
           OK(e) == /\ pc[e] \in Early => now + 2 * Timeout < MaxTime
                    /\ pc[e] \in {"moderate", "start"} =>
                         now <= local[e].deadline /\ local[e].deadline + Timeout < MaxTime
<1>1. SUFFICES ASSUME NEW e \in Executions
               PROVE  OK(e)'
  BY DEF InTime
<1>2. OK(e) /\ now \in Nat /\ MaxTime \in Nat /\ Timeout \in Nat /\ local[e].deadline \in Nat
  BY GatewayAssumption, LocalFields DEF InTime, Typed
<1>3. CASE now' # now
  <2>1. /\ pc'[e] = pc[e] /\ local'[e] = local[e] /\ now' = now + 1
        /\ pc[e] \in {"idle", "done", "crashed"} \/ Waits(e)
    BY <1>3, TimeStays
  <2> QED
    BY <1>2, <2>1 DEF Waits, Before
<1>4. CASE now' = now /\ pc'[e] = pc[e] /\ local'[e] = local[e]
  BY <1>2, <1>4
<1>5. ASSUME now' = now, Call(e) \/ Step(e) \/ Crash(e) \/ SweepHold(e)
      PROVE  OK(e)'
  <2> USE <1>2, <1>5 DEF Typed, Before, Goto
  <2>1. CASE Call(e)
    BY <2>1, GatewayAssumption DEF Call
  <2>2. CASE Lookup(e) \/ Admit(e)
    BY <2>2 DEF Lookup, Admit, Answer, Leave
  <2>3. CASE Supersede(e)
    BY <2>3 DEF Supersede, Freed, Answer, Leave
  <2>4. CASE Create(e) \/ Reserve(e)
    BY <2>4 DEF Create, Reserve
  <2>5. CASE Mark(e)
    <3>1. pc[e] = "mark" /\ now + 2 * Timeout < MaxTime
      BY <2>5 DEF Mark
    <3>2. CASE pc' = [pc EXCEPT ![e] = "moderate"] /\ local' = [local EXCEPT ![e].deadline = now + Timeout]
      <4>1. pc'[e] = "moderate" /\ local'[e].deadline = now + Timeout
        BY <3>2 DEF Locals
      <4> QED
        BY <3>1, <4>1
    <3>3. CASE pc' = [pc EXCEPT ![e] = "fail"]
      BY <3>3
    <3> QED
      BY <2>5, <3>2, <3>3 DEF Mark
  <2>6. CASE Moderate(e)
    BY <2>6 DEF Moderate
  <2>7. CASE UnholdBlocked(e) \/ Start(e) \/ Attempt(e) \/ ProviderAnswers(e)
             \/ ProviderFails(e) \/ Settle(e) \/ ReleaseFailed(e)
    BY <2>7
    DEF UnholdBlocked, Start, Attempt, ProviderAnswers, ProviderFails, Settle, ReleaseFailed
  <2>8. CASE Block(e) \/ Record(e) \/ RecordFailure(e) \/ Crash(e)
    BY <2>8 DEF Block, Record, RecordFailure, Crash, Answer, Leave
  <2>9. CASE SweepHold(e)
    BY <2>9 DEF SweepHold
  <2> QED
    BY <2>1, <2>2, <2>3, <2>4, <2>5, <2>6, <2>7, <2>8, <2>9 DEF Step
<1> HIDE DEF OK
<1> QED
  BY <1>3, <1>4, <1>5, StepIs, OthersStay

\* In every state the gateway's variables have their types, and a request that runs
\* has time left to end before the clock's bound: the bound hides no late step.
THEOREM GatewayTypes == Spec => [](Typed /\ InTime)
<1>1. Typed /\ InTime /\ [Next]_vars => (Typed /\ InTime)'
  BY TypedStep, InTimeStep
<1> QED
  BY <1>1, InitTyped, PTL DEF Spec

-----------------------------------------------------------------------------
(* One run per key. *)

\* Whoever is between the claim and the record bears its key with a live row;
\* whoever moves a row aside saw it fail; and two rows share no key.
Claimed ==
  /\ \A e \in Executions : Running(e) => row[e].status \in Live /\ row[e].key = asked[e]
  /\ \A e \in Executions : pc[e] \in Before => row[e].status = "NONE"
  /\ \A e \in Executions : pc[e] \in {"supersede", "resupersede"} =>
       /\ local[e].seen \in Executions
       /\ row[local[e].seen].status \in {"FAILED", "TIMEOUT"}
  /\ \A d, e \in Executions :
       /\ d # e /\ row[d].status # "NONE" /\ row[e].status # "NONE"
       /\ row[d].key = row[e].key
       => row[e].key = Superseded

\* What a step does to the row, the place and the memory of who takes it.
LEMMA OwnRow ==
  ASSUME Typed, Claimed, NEW e \in Executions, Call(e) \/ Step(e) \/ Crash(e) \/ SweepHold(e)
  PROVE  \/ /\ row' = row
            /\ Running(e)' => Running(e)
            /\ pc'[e] \in Before => pc[e] \in Before
            /\ pc'[e] \in {"supersede", "resupersede"} =>
                 \/ pc'[e] = pc[e] /\ local'[e].seen = local[e].seen
                 \/ /\ local'[e].seen \in Executions
                    /\ row[local'[e].seen].status \in {"FAILED", "TIMEOUT"}
         \/ /\ pc[e] \in {"supersede", "resupersede"}
            /\ row' = [row EXCEPT ![local[e].seen].key = Superseded]
            /\ pc'[e] \in {"admit", "done"}
         \/ /\ pc[e] = "create" /\ Bearing(asked[e]) = {}
            /\ row' = [row EXCEPT ![e] = Pending(asked[e])]
            /\ pc'[e] = "reserve"
         \/ /\ Running(e) /\ pc'[e] \notin Before
            /\ \A o \in Executions : o # e => row'[o] = row[o]
            /\ row'[e].key = row[e].key
            /\ Running(e)' => row'[e].status \in Live
            /\ row'[e].status # "NONE"
<1> USE DEF Typed, Goto, Running, Before, Executions, tables
<1>1. CASE Call(e) \/ SweepHold(e) \/ Crash(e)
  BY <1>1 DEF Call, SweepHold, Crash, Leave
<1>2. CASE Lookup(e)
  <2>1. row' = row /\ pc[e] \in Before /\ ~Running(e)'
    BY <1>2 DEF Lookup, Answer, Leave
  <2>2. ASSUME pc'[e] \in {"supersede", "resupersede"}
        PROVE  /\ local'[e].seen \in Executions
               /\ row[local'[e].seen].status \in {"FAILED", "TIMEOUT"}
    <3>1. PICK o \in Bearing(asked[e]) :
            /\ row[o].status \notin Live /\ ~Replayable(row[o])
            /\ local' = [local EXCEPT ![e].seen = o]
      BY <1>2, <2>2 DEF Lookup, Answer, Leave
    <3>2. local'[e].seen = o
      BY <3>1 DEF Locals
    <3>3. row[o] \in Rows /\ row[o].status # "NONE"
      BY <3>1 DEF Bearing
    <3>4. row[o].status \in {"FAILED", "TIMEOUT"}
      BY <3>1, <3>3 DEF Rows, Live, Failures, Replayable
    <3> QED
      BY <3>1, <3>2, <3>4 DEF Bearing
  <2> QED
    BY <2>1, <2>2
<1>3. CASE Supersede(e)
  BY <1>3 DEF Supersede, Freed, Answer, Leave
<1>4. CASE Admit(e)
  BY <1>4 DEF Admit, Answer, Leave
<1>5. CASE Create(e)
  BY <1>5 DEF Create
<1>6. CASE Reserve(e) \/ Moderate(e) \/ UnholdBlocked(e) \/ Attempt(e)
  BY <1>6 DEF Reserve, Moderate, UnholdBlocked, Attempt
<1>7. CASE ProviderAnswers(e) \/ ProviderFails(e) \/ Settle(e) \/ ReleaseFailed(e)
  BY <1>7 DEF ProviderAnswers, ProviderFails, Settle, ReleaseFailed
<1>8. CASE Mark(e)
  <2>1. pc[e] = "mark" /\ pc'[e] \in {"moderate", "fail"}
    BY <1>8 DEF Mark
  <2>2. CASE row' = row
    BY <2>1, <2>2
  <2>3. CASE row' = [row EXCEPT ![e].status = "RESERVED", ![e].reserved = TRUE]
    <3>1. row'[e].status = "RESERVED" /\ row'[e].key = row[e].key
      BY <2>3 DEF Rows
    <3> QED
      BY <2>1, <2>3, <3>1 DEF Live
  <2> QED
    BY <1>8, <2>2, <2>3 DEF Mark
<1>9. CASE Start(e)
  BY <1>9 DEF Start, Rows, Live
<1>10. CASE Block(e) \/ RecordFailure(e)
  <2>1. pc[e] \in {"block", "fail"} /\ pc'[e] = "done"
    BY <1>10 DEF Block, RecordFailure, Answer, Leave
  <2>2. /\ row'[e].status \in Failures /\ row'[e].key = row[e].key
        /\ \A o \in Executions : o # e => row'[o] = row[o]
    BY <1>10 DEF Block, RecordFailure, FailureStatus, Failures, Rows
  <2> QED
    BY <2>1, <2>2 DEF Failures
<1>11. CASE Record(e)
  <2>1. pc[e] = "record" /\ pc'[e] \in {"done", "release"}
    BY <1>11 DEF Record, Answer, Leave
  <2>2. CASE row' = row
    BY <2>1, <2>2
  <2>3. CASE row' = [row EXCEPT ![e].status = "SUCCEEDED", ![e].charged = local[e].bill] /\ pc'[e] = "done"
    <3>1. row'[e].status = "SUCCEEDED" /\ row'[e].key = row[e].key
      BY <2>3 DEF Rows
    <3> QED
      BY <2>1, <2>3, <3>1
  <2> QED
    BY <1>11, <2>2, <2>3 DEF Record, Answer, Leave
<1> QED
  BY <1>1, <1>2, <1>3, <1>4, <1>5, <1>6, <1>7, <1>8, <1>9, <1>10, <1>11 DEF Step

\* No row bears a key yet.
LEMMA ClaimedInit == Init => Claimed
BY DEF Init, Claimed, Running, NoRow, Executions

\* A key changes hands only in Create, which the unique index guards, and in Supersede,
\* which takes it off a failed row nobody runs.
LEMMA ClaimedStep ==
  ASSUME Typed, Claimed, [Next]_vars
  PROVE  Claimed'
<1>1. CASE UNCHANGED <<pc, asked, local, row, usage, ttl, holds>>
  BY <1>1 DEF Claimed, Running
<1>2. ASSUME NEW d \in Executions, Call(d) \/ Step(d) \/ Crash(d) \/ SweepHold(d)
      PROVE  Claimed'
  <2> DEFINE Same == /\ row' = row
                     /\ Running(d)' => Running(d)
                     /\ pc'[d] \in Before => pc[d] \in Before
                     /\ pc'[d] \in {"supersede", "resupersede"} =>
                          \/ pc'[d] = pc[d] /\ local'[d].seen = local[d].seen
                          \/ /\ local'[d].seen \in Executions
                             /\ row[local'[d].seen].status \in {"FAILED", "TIMEOUT"}
             Moved == /\ pc[d] \in {"supersede", "resupersede"}
                      /\ row' = [row EXCEPT ![local[d].seen].key = Superseded]
                      /\ pc'[d] \in {"admit", "done"}
             Made == /\ pc[d] = "create" /\ Bearing(asked[d]) = {}
                     /\ row' = [row EXCEPT ![d] = Pending(asked[d])]
                     /\ pc'[d] = "reserve"
             Went == /\ Running(d) /\ pc'[d] \notin Before
                     /\ \A o \in Executions : o # d => row'[o] = row[o]
                     /\ row'[d].key = row[d].key
                     /\ Running(d)' => row'[d].status \in Live
                     /\ row'[d].status # "NONE"
  <2>1. Same \/ Moved \/ Made \/ Went
    BY <1>2, OwnRow
  <2>2. asked' = asked
    BY <1>2 DEF Step, Call, Lookup, Supersede, Admit, Create, Reserve, Mark, Moderate,
         UnholdBlocked, Block, Start, Attempt, ProviderAnswers, ProviderFails, Settle,
         Record, ReleaseFailed, RecordFailure, Crash, SweepHold
  <2>3. \A e \in Executions : e # d =>
          /\ pc'[e] = pc[e] /\ local'[e] = local[e] /\ Running(e)' = Running(e)
    BY <1>2, OthersStay DEF Running
  <2>4. CASE Same
    <3>1. ASSUME NEW e \in Executions
          PROVE  /\ Running(e)' => row'[e].status \in Live /\ row'[e].key = asked'[e]
                 /\ pc'[e] \in Before => row'[e].status = "NONE"
      BY <2>2, <2>3, <2>4 DEF Claimed
    <3>2. ASSUME NEW e \in Executions, pc'[e] \in {"supersede", "resupersede"}
          PROVE  /\ local'[e].seen \in Executions
                 /\ row'[local'[e].seen].status \in {"FAILED", "TIMEOUT"}
      <4>1. CASE e = d
        BY <2>4, <3>2, <4>1 DEF Claimed
      <4>2. CASE e # d
        BY <2>3, <2>4, <3>2, <4>2 DEF Claimed
      <4> QED
        BY <4>1, <4>2
    <3> QED
      BY <2>4, <3>1, <3>2 DEF Claimed
  <2>5. CASE Moved
    <3>1. /\ local[d].seen \in Executions
          /\ row[local[d].seen].status \in {"FAILED", "TIMEOUT"}
          /\ row'[local[d].seen].key = Superseded
          /\ \A o \in Executions : row'[o].status = row[o].status
          /\ \A o \in Executions : o # local[d].seen => row'[o] = row[o]
      BY <2>5 DEF Claimed, Typed, Rows
    <3>2. ~Running(d)' /\ ~Running(d) /\ pc[d] \in Before /\ pc'[d] \notin {"supersede", "resupersede"}
      BY <2>5 DEF Running, Before
    <3> HIDE DEF Moved
    <3> QED
      BY <2>2, <2>3, <3>1, <3>2 DEF Claimed, Live
  <2>6. CASE Made
    <3>1. /\ row'[d].status = "PENDING" /\ row'[d].key = asked[d]
          /\ \A o \in Executions : o # d => row'[o] = row[o]
      BY <2>6 DEF Typed, Pending
    <3>2. \A o \in Executions : row[o].status # "NONE" => row[o].key # asked[d]
      BY <2>6 DEF Bearing
    <3>3. pc'[d] \notin Before /\ row[d].status = "NONE"
      BY <2>6 DEF Claimed, Before
    <3>4. \A e \in Executions : pc[e] \in {"supersede", "resupersede"} => local[e].seen # d
      BY <3>3 DEF Claimed
    <3>5. pc'[d] \notin {"supersede", "resupersede"}
      BY <2>6
    <3> HIDE DEF Made
    <3> QED
      BY <2>2, <2>3, <3>1, <3>2, <3>3, <3>4, <3>5 DEF Claimed, Live
  <2>7. CASE Went
    <3>1. pc'[d] \notin {"supersede", "resupersede"}
      BY <2>7 DEF Before
    <3>2. row[d].status \in Live
      BY <2>7 DEF Claimed
    <3> QED
      BY <2>2, <2>3, <2>7, <3>1, <3>2 DEF Claimed, Live
  <2> QED
    BY <2>1, <2>4, <2>5, <2>6, <2>7
<1> QED
  BY <1>1, <1>2, StepIs

\* However callers race on a key, retry it and move failed requests aside, and
\* whenever processes die or the database fails an update, one of them at most
\* is between the claim of the key and the recorded outcome.
THEOREM AtMostOneRunPerKey == Spec => []OneRunPerKey
<1>1. Claimed /\ Typed => OneRunPerKey
  BY NamesAssumption DEF Claimed, Typed, OneRunPerKey, Live
<1>2. Typed /\ Claimed /\ [Next]_vars => Claimed'
  BY ClaimedStep
<1> QED
  BY <1>1, <1>2, ClaimedInit, GatewayTypes, PTL DEF Spec

\* What another execution's step leaves of a row: all but its name.
LEMMA OthersRow ==
  ASSUME Typed, NEW d \in Executions, Call(d) \/ Step(d) \/ Crash(d) \/ SweepHold(d),
         NEW e \in Executions, e # d
  PROVE  /\ row'[e].status = row[e].status /\ row'[e].reserved = row[e].reserved
         /\ row'[e].charged = row[e].charged
         /\ row'[e].key # row[e].key =>
              pc[d] \in {"supersede", "resupersede"} /\ local[d].seen = e
<1>1. row[e] \in Rows
  BY DEF Typed
<1>2. CASE row'[e] = row[e]
  BY <1>2
<1>3. CASE /\ pc[d] \in {"supersede", "resupersede"} /\ local[d].seen = e
           /\ row'[e] = [row[e] EXCEPT !.key = Superseded]
  BY <1>1, <1>3 DEF Rows
<1> QED
  BY <1>2, <1>3, OthersStay

-----------------------------------------------------------------------------
(* A failed request holds nothing. *)

Unheld ==
  \A e \in Executions :
    /\ pc[e] \in {"reserve", "mark"} => ~row[e].reserved
    /\ pc[e] = "block" => holds[e].status # "OPEN"
    /\ pc[e] = "fail" /\ row[e].reserved => holds[e].status # "OPEN"
    /\ row[e].status \in Failures /\ row[e].reserved => holds[e].status # "OPEN"

\* Nothing failed and nothing is held.
LEMMA UnheldInit == Init => Unheld
<1>1. NoRow.status = "NONE" /\ NoRow.reserved = FALSE
  BY DEF NoRow
<1> QED
  BY <1>1 DEF Init, Unheld, Executions, Failures

\* A failure is recorded after ReleaseHold, and a hold that ended stays ended.
LEMMA UnheldStep ==
  ASSUME Typed, Claimed, Unheld, [Next]_vars
  PROVE  Unheld'
<1> DEFINE OK(e) ==
      /\ pc[e] \in {"reserve", "mark"} => ~row[e].reserved
      /\ pc[e] = "block" => holds[e].status # "OPEN"
      /\ pc[e] = "fail" /\ row[e].reserved => holds[e].status # "OPEN"
      /\ row[e].status \in Failures /\ row[e].reserved => holds[e].status # "OPEN"
<1>1. SUFFICES ASSUME NEW e \in Executions
               PROVE  OK(e)'
  BY DEF Unheld
<1>2. /\ OK(e)
      /\ row[e] \in Rows /\ holds[e] \in Hold /\ local[e] \in Locals
      /\ Running(e) => row[e].status \in Live
  BY DEF Unheld, Typed, Claimed, Executions
<1>3. CASE UNCHANGED <<pc, asked, local, row, usage, ttl, holds>>
  BY <1>2, <1>3
<1>4. ASSUME NEW d \in Executions, d # e, Call(d) \/ Step(d) \/ Crash(d) \/ SweepHold(d)
      PROVE  OK(e)'
  <2>1. pc'[e] = pc[e] /\ holds'[e] = holds[e]
    BY <1>4, OthersStay
  <2>2. row'[e].status = row[e].status /\ row'[e].reserved = row[e].reserved
    BY <1>4, OthersRow
  <2>3. OK(e)
    BY <1>2
  <2> QED
    BY <2>1, <2>2, <2>3
<1>5. ASSUME Call(e) \/ Step(e) \/ Crash(e) \/ SweepHold(e)
      PROVE  OK(e)'
  <2> USE DEF Goto, Typed, tables, accountVars, Executions
  <2>1. CASE Call(e) \/ Lookup(e) \/ Admit(e) \/ Crash(e)
    BY <1>2, <2>1 DEF Call, Lookup, Admit, Crash, Answer, Leave
  <2>2. CASE SweepHold(e)
    BY <1>2, <2>2 DEF SweepHold, EndHold, Hold
  <2>3. CASE Supersede(e)
    <3>1. /\ row'[e].status = row[e].status /\ row'[e].reserved = row[e].reserved
          /\ pc'[e] \notin {"reserve", "mark", "block", "fail"} /\ holds' = holds
      BY <2>3, <1>2 DEF Supersede, Freed, Answer, Leave, Rows
    <3> QED
      BY <1>2, <3>1
  <2>4. CASE Create(e)
    <3>1. pc'[e] \notin {"mark", "block", "fail"} /\ holds' = holds
      BY <2>4 DEF Create
    <3>2. CASE row' = row /\ pc'[e] = "reread"
      BY <1>2, <3>1, <3>2
    <3>3. CASE row' = [row EXCEPT ![e] = Pending(asked[e])]
      <4>1. row'[e].status = "PENDING" /\ row'[e].reserved = FALSE
        BY <3>3 DEF Pending
      <4> QED
        BY <3>1, <4>1 DEF Failures
    <3> QED
      BY <2>4, <3>2, <3>3 DEF Create
  <2>5. CASE Reserve(e)
    <3>1. pc[e] = "reserve" /\ row' = row /\ pc'[e] \in {"mark", "fail"}
      BY <2>5 DEF Reserve
    <3>2. ~row[e].reserved
      BY <1>2, <3>1
    <3> QED
      BY <3>1, <3>2
  <2>6. CASE Mark(e)
    <3>1. pc[e] = "mark" /\ Running(e) /\ holds' = holds /\ pc'[e] \in {"moderate", "fail"}
      BY <2>6 DEF Mark, Running
    <3>2. CASE row' = row
      BY <1>2, <3>1, <3>2 DEF Live, Failures
    <3>3. CASE row' = [row EXCEPT ![e].status = "RESERVED", ![e].reserved = TRUE] /\ pc'[e] = "moderate"
      <4>1. row'[e].status = "RESERVED"
        BY <3>3 DEF Rows
      <4> QED
        BY <3>3, <4>1 DEF Failures
    <3> QED
      BY <2>6, <3>2, <3>3 DEF Mark
  <2>7. CASE Moderate(e) \/ Attempt(e) \/ ProviderAnswers(e) \/ ProviderFails(e)
    BY <1>2, <2>7 DEF Moderate, Attempt, ProviderAnswers, ProviderFails
  <2>8. CASE UnholdBlocked(e) \/ ReleaseFailed(e)
    BY <1>2, <2>8 DEF UnholdBlocked, ReleaseFailed, ReleaseHold, EndHold, Hold
  <2>9. CASE Start(e)
    <3>1. row'[e].status = "RUNNING" /\ pc'[e] = "attempt"
      BY <2>9 DEF Start, Rows
    <3> QED
      BY <3>1 DEF Failures
  <2>10. CASE Settle(e)
    BY <1>2, <2>10 DEF Settle, ChargeHold, Hold
  <2>11. CASE Block(e) \/ RecordFailure(e)
    <3>1. pc'[e] = "done" /\ holds' = holds /\ row'[e].reserved = row[e].reserved
      BY <1>2, <2>11 DEF Block, RecordFailure, Answer, Leave, Rows
    <3>2. row[e].reserved => holds[e].status # "OPEN"
      BY <1>2, <2>11 DEF Block, RecordFailure
    <3> QED
      BY <3>1, <3>2
  <2>12. CASE Record(e)
    <3>1. pc[e] = "record" /\ Running(e) /\ holds' = holds /\ pc'[e] \in {"done", "release"}
      BY <2>12 DEF Record, Answer, Leave, Running
    <3>2. CASE row' = row
      BY <1>2, <3>1, <3>2 DEF Live, Failures
    <3>3. CASE row' = [row EXCEPT ![e].status = "SUCCEEDED", ![e].charged = local[e].bill]
      <4>1. row'[e].status = "SUCCEEDED"
        BY <3>3 DEF Rows
      <4> QED
        BY <3>1, <4>1 DEF Failures
    <3> QED
      BY <2>12, <3>2, <3>3 DEF Record
  <2> QED
    BY <1>5, <2>1, <2>2, <2>3, <2>4, <2>5, <2>6, <2>7, <2>8, <2>9, <2>10, <2>11, <2>12 DEF Step
<1> HIDE DEF OK
<1> QED
  BY <1>3, <1>4, <1>5, StepIs

\* Wherever a request fails, and whichever of its updates the database
\* refuses, the failure is recorded after its hold ended.
THEOREM FailuresHoldNothing == Spec => []FailureFreesItsHold
<1>1. Unheld => FailureFreesItsHold
  BY DEF Unheld, FailureFreesItsHold
<1>2. Typed /\ Claimed /\ Unheld /\ [Next]_vars => Unheld'
  BY UnheldStep
<1>3. Typed /\ Claimed /\ [Next]_vars => Claimed'
  BY ClaimedStep
<1> QED
  BY <1>1, <1>2, <1>3, ClaimedInit, UnheldInit, GatewayTypes, PTL DEF Spec

-----------------------------------------------------------------------------
(* A charge belongs to one success. *)

\* A charged hold is its execution's, whose row still bears the key: it
\* succeeded, or is about to, or died in between.
Charged ==
  \A e \in Executions :
    /\ holds[e].status # "NONE" => holds[e].amount = Estimate
    /\ holds[e].status # "SETTLED" => holds[e].charged = 0
    /\ holds[e].status = "SETTLED" =>
         /\ holds[e].charged <= Estimate
         /\ row[e].key = asked[e]
         /\ \/ row[e].status = "SUCCEEDED"
            \/ row[e].status \in Live /\ pc[e] = "crashed"
            \/ row[e].status \in Live /\ pc[e] = "record" /\ local[e].bill = holds[e].charged

\* Nothing is charged.
LEMMA ChargedInit == Init => Charged
<1>1. NoHold.status = "NONE" /\ NoHold.charged = 0
  BY DEF NoHold
<1> QED
  BY <1>1 DEF Init, Charged, Executions

\* Settle charges the hold of the row it is about to record, and the record cannot fail.
LEMMA ChargedStep ==
  ASSUME "record" \notin Faults, Typed, Claimed, Charged, [Next]_vars
  PROVE  Charged'
<1> DEFINE Paid(e) == /\ holds[e].charged <= Estimate
                      /\ row[e].key = asked[e]
                      /\ \/ row[e].status = "SUCCEEDED"
                         \/ row[e].status \in Live /\ pc[e] = "crashed"
                         \/ /\ row[e].status \in Live /\ pc[e] = "record"
                            /\ local[e].bill = holds[e].charged
           OK(e) == /\ holds[e].status # "NONE" => holds[e].amount = Estimate
                    /\ holds[e].status # "SETTLED" => holds[e].charged = 0
                    /\ holds[e].status = "SETTLED" => Paid(e)
<1>1. SUFFICES ASSUME NEW e \in Executions
               PROVE  OK(e)'
  BY DEF Charged
<1>2. /\ OK(e)
      /\ row[e] \in Rows /\ holds[e] \in Hold /\ local[e] \in Locals
      /\ Running(e) => row[e].status \in Live /\ row[e].key = asked[e]
      /\ pc[e] \in Before => row[e].status = "NONE"
  BY DEF Charged, Typed, Claimed, Executions
<1>3. /\ Running(e) /\ pc[e] # "record" => holds[e].status # "SETTLED"
      /\ pc[e] \in Before => holds[e].status # "SETTLED"
      /\ pc[e] = "record" /\ holds[e].status = "SETTLED" => local[e].bill <= Estimate
  BY <1>2 DEF Running, Live, Before
<1>4. CASE UNCHANGED <<pc, asked, local, row, usage, ttl, holds>>
  BY <1>2, <1>4
<1>5. ASSUME Call(e) \/ Step(e) \/ Crash(e) \/ SweepHold(e) \/
             \E d \in Executions : Call(d) \/ Step(d) \/ Crash(d) \/ SweepHold(d)
      PROVE  asked' = asked
  BY <1>5 DEF Step, Call, Lookup, Supersede, Admit, Create, Reserve, Mark, Moderate,
         UnholdBlocked, Block, Start, Attempt, ProviderAnswers, ProviderFails, Settle,
         Record, ReleaseFailed, RecordFailure, Crash, SweepHold
<1>6. ASSUME NEW d \in Executions, d # e, Call(d) \/ Step(d) \/ Crash(d) \/ SweepHold(d)
      PROVE  OK(e)'
  <2>1. /\ pc'[e] = pc[e] /\ holds'[e] = holds[e] /\ local'[e] = local[e]
        /\ row'[e].status = row[e].status
        /\ row'[e].key # row[e].key =>
             pc[d] \in {"supersede", "resupersede"} /\ local[d].seen = e
    BY <1>6, OthersStay, OthersRow
  <2>2. row'[e].key # row[e].key => row[e].status \in {"FAILED", "TIMEOUT"}
    BY <2>1 DEF Claimed
  <2>3. row'[e].key # row[e].key => holds[e].status # "SETTLED"
    BY <1>2, <2>2 DEF Live
  <2> QED
    BY <1>2, <1>5, <1>6, <2>1, <2>3
<1>7. ASSUME Call(e) \/ Step(e) \/ Crash(e) \/ SweepHold(e)
      PROVE  OK(e)'
  <2> USE DEF Goto, Typed, tables, accountVars, Executions
  <2>1. CASE Call(e) \/ Lookup(e) \/ Admit(e) \/ Supersede(e) \/ Create(e)
    <3>1. holds' = holds /\ pc[e] \in Before
      BY <2>1 DEF Call, Lookup, Admit, Supersede, Create, Before
    <3> QED
      BY <1>2, <1>3, <3>1
  <2>2. CASE \/ Mark(e) \/ Moderate(e) \/ Block(e) \/ Start(e) \/ Attempt(e)
             \/ ProviderAnswers(e) \/ ProviderFails(e) \/ RecordFailure(e)
    <3>1. holds' = holds /\ Running(e) /\ pc[e] # "record"
      BY <2>2 DEF Mark, Moderate, Block, Start, Attempt, ProviderAnswers, ProviderFails,
                  RecordFailure, Running
    <3> QED
      BY <1>2, <1>3, <3>1
  <2>3. CASE Reserve(e)
    <3>1. Running(e) /\ pc[e] # "record"
      BY <2>3 DEF Reserve, Running
    <3>2. CASE holds' = holds
      BY <1>2, <1>3, <3>1, <3>2
    <3>3. CASE HoldCredits(e, Estimate)
      <4>1. holds'[e] = [status |-> "OPEN", amount |-> Estimate, charged |-> 0]
        BY <3>3 DEF HoldCredits
      <4> QED
        BY <4>1
    <3> QED
      BY <2>3, <3>2, <3>3 DEF Reserve
  <2>4. CASE UnholdBlocked(e) \/ ReleaseFailed(e) \/ SweepHold(e)
    <3>1. CASE holds' = holds
      <4>1. ~SweepHold(e)
        BY <3>1, <1>2 DEF SweepHold, EndHold, Hold
      <4>2. Running(e) /\ pc[e] # "record"
        BY <2>4, <4>1 DEF UnholdBlocked, ReleaseFailed, Running
      <4> QED
        BY <1>2, <1>3, <3>1, <4>2
    <3>2. ASSUME NEW status \in {"RELEASED", "EXPIRED"}, EndHold(e, status)
          PROVE  OK(e)'
      <4>1. /\ holds'[e].status = status /\ holds'[e].amount = holds[e].amount
            /\ holds'[e].charged = holds[e].charged /\ holds[e].status = "OPEN"
        BY <1>2, <3>2 DEF EndHold, Hold
      <4> QED
        BY <1>2, <4>1
    <3> QED
      BY <2>4, <3>1, <3>2 DEF UnholdBlocked, ReleaseFailed, SweepHold, ReleaseHold
  <2>5. CASE Settle(e)
    <3>1. pc[e] = "settle" /\ Running(e) /\ row' = row
      BY <2>5 DEF Settle, Running
    <3>2. CASE holds' = holds
      BY <1>2, <1>3, <3>1, <3>2
    <3>3. CASE ChargeHold(e, local[e].bill) /\ pc' = [pc EXCEPT ![e] = "record"] /\ local' = local
      <4>1. /\ holds'[e].status = "SETTLED" /\ holds'[e].amount = holds[e].amount
            /\ holds'[e].charged = local[e].bill
            /\ holds[e].status = "OPEN" /\ local[e].bill <= holds[e].amount
        BY <1>2, <3>3 DEF ChargeHold, Hold
      <4>2. pc'[e] = "record" /\ local' = local /\ asked' = asked
        BY <1>5, <1>7, <3>3
      <4> QED
        BY <1>2, <3>1, <4>1, <4>2
    <3> QED
      BY <2>5, <3>2, <3>3 DEF Settle
  <2>6. CASE Record(e)
    <3>1. pc[e] = "record" /\ Running(e) /\ holds' = holds
      BY <2>6 DEF Record, Running
    <3>2. CASE row' = [row EXCEPT ![e].status = "SUCCEEDED", ![e].charged = local[e].bill]
      <4>1. row'[e].status = "SUCCEEDED" /\ row'[e].key = row[e].key
        BY <1>2, <3>2 DEF Rows
      <4> QED
        BY <1>2, <1>5, <1>7, <3>1, <4>1
    <3>3. CASE local[e].bill > Estimate
      <4>1. local[e].bill \in Nat /\ Estimate \in Nat
        BY LocalFields, GatewayAssumption
      <4>2. holds[e].status # "SETTLED"
        BY <1>3, <3>1, <3>3, <4>1
      <4> QED
        BY <1>2, <3>1, <4>2
    <3> QED
      BY <2>6, <3>2, <3>3 DEF Record
  <2>7. CASE Crash(e)
    <3>1. holds' = holds /\ row' = row /\ pc'[e] = "crashed"
      BY <2>7 DEF Crash, Leave
    <3> QED
      BY <1>2, <1>5, <1>7, <3>1
  <2> QED
    BY <1>7, <2>1, <2>2, <2>3, <2>4, <2>5, <2>6, <2>7 DEF Step
<1> HIDE DEF OK
<1> QED
  BY <1>4, <1>6, <1>7, StepIs

\* As long as the record of a success is not refused, a request that ends
\* without one was not charged, wherever it failed.
THEOREM FailuresAreFree ==
  ASSUME "record" \notin Faults
  PROVE  Spec => []NoChargeForFailure
<1>1. Charged => NoChargeForFailure
  BY DEF Charged, NoChargeForFailure, Live, Failures
<1>2. Typed /\ Claimed /\ Charged /\ [Next]_vars => Charged'
  BY ChargedStep
<1>3. Typed /\ Claimed /\ [Next]_vars => Claimed'
  BY ClaimedStep
<1> QED
  BY <1>1, <1>2, <1>3, ClaimedInit, ChargedInit, GatewayTypes, PTL DEF Spec

\* And over all the attempts made under one key, the wallet pays once.
THEOREM OneChargePerKey ==
  ASSUME "record" \notin Faults
  PROVE  Spec => []ChargedOncePerKey
<1>1. ASSUME Typed, Claimed, Charged
      PROVE  ChargedOncePerKey
  <2> SUFFICES ASSUME NEW k \in Keys
               PROVE  Cardinality({e \in Executions : asked[e] = k /\ holds[e].charged > 0}) <= 1
    BY DEF ChargedOncePerKey
  <2> DEFINE S == {e \in Executions : asked[e] = k /\ holds[e].charged > 0}
  <2>1. ASSUME NEW e \in S
        PROVE  row[e].key = k /\ row[e].status # "NONE"
    BY <1>1, <2>1 DEF Charged, Live
  <2>2. \A d, e \in S : d = e
    BY <1>1, <2>1, NamesAssumption DEF Claimed
  <2> HIDE DEF S
  <2>3. ASSUME S = {}
        PROVE  Cardinality(S) <= 1
    <3>1. Cardinality({}) = 0
      BY FS_EmptySet
    <3> QED
      BY <2>3, <3>1
  <2>4. ASSUME NEW e \in S
        PROVE  Cardinality(S) <= 1
    <3>1. S = {e}
      BY <2>2, <2>4
    <3>2. Cardinality({e}) = 1
      BY FS_Singleton
    <3> QED
      BY <3>1, <3>2
  <2>5. Cardinality(S) <= 1
    BY <2>3, <2>4
  <2> QED
    BY <2>5 DEF S
<1>2. Typed /\ Claimed /\ Charged => ChargedOncePerKey
  BY <1>1
<1>3. Typed /\ Claimed /\ Charged /\ [Next]_vars => Charged'
  BY ChargedStep
<1>4. Typed /\ Claimed /\ [Next]_vars => Claimed'
  BY ClaimedStep
<1> QED
  BY <1>2, <1>3, <1>4, ClaimedInit, ChargedInit, GatewayTypes, PTL DEF Spec

-----------------------------------------------------------------------------
(* A success is paid. *)

\* From the reservation to the settlement the hold is there and outlives the
\* deadline; a success has its charge on all three records.
Covered ==
  \A e \in Executions :
    /\ pc[e] = "mark" =>
         holds[e].status = "OPEN" /\ ttl[e] = now + Timeout + Grace
    /\ pc[e] \in {"moderate", "start"} =>
         /\ holds[e].status = "OPEN" /\ now <= local[e].deadline
         /\ ttl[e] = local[e].deadline + Grace
    /\ pc[e] \in {"attempt", "calling", "settle"} =>
         /\ holds[e].status = "OPEN" /\ now <= local[e].deadline
         /\ local[e].deadline <= ttl[e]
    /\ pc[e] = "record" => holds[e].status = "SETTLED" /\ holds[e].charged = local[e].bill
    /\ row[e].status = "SUCCEEDED" =>
         /\ holds[e].status = "SETTLED"
         /\ holds[e].charged = row[e].charged /\ usage[e] = row[e].charged

\* Nobody waits on a hold and nothing succeeded.
LEMMA CoveredInit == Init => Covered
<1>1. NoRow.status = "NONE"
  BY DEF NoRow
<1> QED
  BY <1>1 DEF Init, Covered, Executions

\* With Grace >= Timeout the sweep finds no hold of a request that still runs.
LEMMA CoveredStep ==
  ASSUME Grace >= Timeout, Typed, Claimed, Covered, [Next]_vars
  PROVE  Covered'
<1> DEFINE Ahead(e) ==
             /\ pc[e] = "mark" =>
                  holds[e].status = "OPEN" /\ ttl[e] = now + Timeout + Grace
             /\ pc[e] \in {"moderate", "start"} =>
                  /\ holds[e].status = "OPEN" /\ now <= local[e].deadline
                  /\ ttl[e] = local[e].deadline + Grace
             /\ pc[e] \in {"attempt", "calling", "settle"} =>
                  /\ holds[e].status = "OPEN" /\ now <= local[e].deadline
                  /\ local[e].deadline <= ttl[e]
             /\ pc[e] = "record" =>
                  holds[e].status = "SETTLED" /\ holds[e].charged = local[e].bill
           Paid(e) == row[e].status = "SUCCEEDED" =>
                        /\ holds[e].status = "SETTLED"
                        /\ holds[e].charged = row[e].charged /\ usage[e] = row[e].charged
<1>1. SUFFICES ASSUME NEW e \in Executions
               PROVE  Ahead(e)' /\ Paid(e)'
  BY DEF Covered
<1>2. /\ Ahead(e) /\ Paid(e)
      /\ row[e] \in Rows /\ holds[e] \in Hold /\ local[e] \in Locals
      /\ Running(e) => row[e].status \in Live
      /\ pc[e] \in Before => row[e].status = "NONE"
  BY DEF Covered, Typed, Claimed, Executions
<1>3. /\ now \in Nat /\ Timeout \in Nat /\ Grace \in Nat /\ Grace >= Timeout
      /\ local[e].deadline \in Nat /\ ttl[e] \in Nat
  BY GatewayAssumption, LocalFields DEF Typed
<1>4. CASE now' # now
  <2>1. /\ now' = now + 1
        /\ UNCHANGED <<pc, asked, local, row, usage, ttl, holds>>
        /\ pc[e] \in {"idle", "done", "crashed"} \/ Waits(e)
    BY <1>4, TimeStays
  <2> QED
    BY <1>2, <1>3, <2>1 DEF Waits
<1>5. CASE now' = now /\ UNCHANGED <<pc, asked, local, row, usage, ttl, holds>>
  BY <1>2, <1>5
<1>6. ASSUME now' = now, NEW d \in Executions, d # e,
             Call(d) \/ Step(d) \/ Crash(d) \/ SweepHold(d)
      PROVE  Ahead(e)' /\ Paid(e)'
  <2>1. /\ pc'[e] = pc[e] /\ holds'[e] = holds[e] /\ local'[e] = local[e]
        /\ ttl'[e] = ttl[e] /\ usage'[e] = usage[e]
        /\ row'[e].status = row[e].status /\ row'[e].charged = row[e].charged
    BY <1>6, OthersStay, OthersRow
  <2> QED
    BY <1>2, <1>6, <2>1
<1>7. ASSUME now' = now, Call(e) \/ Step(e) \/ Crash(e) \/ SweepHold(e)
      PROVE  Ahead(e)' /\ Paid(e)'
  <2> USE DEF Goto, Typed, tables, accountVars, Executions
  <2>1. CASE Call(e) \/ Lookup(e) \/ Admit(e)
    <3>1. /\ pc[e] \in Before /\ row' = row
          /\ pc'[e] \in {"lookup", "admit", "supersede", "resupersede", "create", "done"}
      BY <2>1 DEF Call, Lookup, Admit, Answer, Leave, Before
    <3> QED
      BY <1>2, <3>1
  <2>2. CASE Supersede(e)
    <3>1. /\ pc[e] \in Before /\ row'[e].status = row[e].status
          /\ pc'[e] \in {"lookup", "reread", "admit", "done"}
      BY <1>2, <2>2 DEF Supersede, Freed, Answer, Leave, Before, Rows
    <3> QED
      BY <1>2, <3>1
  <2>3. CASE Create(e)
    <3>1. /\ pc[e] \in Before /\ row'[e].status \in {row[e].status, "PENDING"}
          /\ pc'[e] \in {"reserve", "reread"}
      BY <1>2, <2>3 DEF Create, Before, Pending
    <3> QED
      BY <1>2, <3>1
  <2>4. CASE Reserve(e)
    <3>1. row' = row /\ row[e].status # "SUCCEEDED"
      BY <1>2, <2>4 DEF Reserve, Running, Live
    <3>2. CASE pc'[e] = "fail"
      BY <3>1, <3>2
    <3>3. CASE HoldCredits(e, Estimate) /\ ttl' = [ttl EXCEPT ![e] = now + Timeout + Grace]
               /\ pc'[e] = "mark"
      <4>1. holds'[e].status = "OPEN" /\ ttl'[e] = now + Timeout + Grace
        BY <3>3 DEF HoldCredits
      <4> QED
        BY <1>7, <3>1, <3>3, <4>1
    <3> QED
      BY <2>4, <3>2, <3>3 DEF Reserve
  <2>5. CASE Mark(e)
    <3>1. pc[e] = "mark" /\ row[e].status # "SUCCEEDED" /\ holds' = holds /\ ttl' = ttl
      BY <1>2, <2>5 DEF Mark, Running, Live
    <3>2. CASE row' = row /\ pc'[e] = "fail"
      BY <3>1, <3>2
    <3>3. CASE /\ row' = [row EXCEPT ![e].status = "RESERVED", ![e].reserved = TRUE]
               /\ local' = [local EXCEPT ![e].deadline = now + Timeout]
               /\ pc'[e] = "moderate"
      <4>1. row'[e].status = "RESERVED" /\ local'[e].deadline = now + Timeout
        BY <1>2, <3>3 DEF Rows, Locals
      <4> QED
        BY <1>2, <1>3, <1>7, <3>1, <3>3, <4>1
    <3> QED
      BY <2>5, <3>2, <3>3 DEF Mark
  <2>6. CASE Moderate(e)
    BY <1>2, <1>7, <2>6 DEF Moderate
  <2>7. CASE Start(e)
    <3>1. /\ pc[e] = "start" /\ pc'[e] = "attempt" /\ holds' = holds /\ ttl' = ttl
          /\ row'[e].status = "RUNNING" /\ local'[e].deadline = now + Timeout
      BY <1>2, <2>7 DEF Start, Rows, Locals
    <3> QED
      BY <1>2, <1>3, <1>7, <3>1
  <2>8. CASE Attempt(e) \/ ProviderAnswers(e) \/ ProviderFails(e)
    <3>1. /\ pc[e] \in {"attempt", "calling"} /\ UNCHANGED <<row, usage, holds, ttl>>
          /\ pc'[e] \in {"attempt", "calling", "settle", "release"}
          /\ local'[e].deadline = local[e].deadline
      BY <1>2, <2>8 DEF Attempt, ProviderAnswers, ProviderFails, Fail, Locals
    <3> QED
      BY <1>2, <1>7, <3>1
  <2>9. CASE Settle(e)
    <3>1. pc[e] = "settle" /\ holds[e].status = "OPEN" /\ row' = row /\ row[e].status # "SUCCEEDED"
      BY <1>2, <2>9 DEF Settle, Running, Live
    <3>2. CASE pc'[e] = "release"
      BY <3>1, <3>2
    <3>3. CASE ChargeHold(e, local[e].bill) /\ pc'[e] = "record" /\ local' = local
      <4>1. holds'[e].status = "SETTLED" /\ holds'[e].charged = local[e].bill
        BY <1>2, <3>3 DEF ChargeHold, Hold
      <4> QED
        BY <3>1, <3>3, <4>1
    <3> QED
      BY <2>9, <3>1, <3>2, <3>3 DEF Settle
  <2>10. CASE Record(e)
    <3>1. pc[e] = "record" /\ holds' = holds /\ row[e].status # "SUCCEEDED"
      BY <1>2, <2>10 DEF Record, Running, Live
    <3>2. CASE pc'[e] = "release" /\ row' = row
      BY <3>1, <3>2
    <3>3. CASE /\ row' = [row EXCEPT ![e].status = "SUCCEEDED", ![e].charged = local[e].bill]
               /\ usage' = [usage EXCEPT ![e] = local[e].bill]
               /\ pc'[e] = "done"
      <4>1. row'[e].charged = local[e].bill /\ usage'[e] = local[e].bill
        BY <1>2, <3>3 DEF Rows
      <4> QED
        BY <1>2, <3>1, <3>3, <4>1
    <3> QED
      BY <2>10, <3>2, <3>3 DEF Record, Answer, Leave
  <2>11. CASE UnholdBlocked(e) \/ ReleaseFailed(e)
    <3>1. /\ row' = row /\ row[e].status # "SUCCEEDED" /\ pc'[e] \in {"block", "fail"}
      BY <1>2, <2>11 DEF UnholdBlocked, ReleaseFailed, Running, Live
    <3> QED
      BY <3>1
  <2>12. CASE Block(e) \/ RecordFailure(e)
    <3>1. row'[e].status \in Failures /\ pc'[e] = "done"
      BY <1>2, <2>12 DEF Block, RecordFailure, FailureStatus, Failures, Answer, Leave, Rows
    <3> QED
      BY <3>1 DEF Failures
  <2>13. CASE Crash(e)
    BY <1>2, <2>13 DEF Crash, Leave
  <2>14. CASE SweepHold(e)
    <3>1. /\ UNCHANGED <<pc, local, row, usage, ttl>> /\ holds[e].status = "OPEN"
          /\ ttl[e] < now
      BY <2>14 DEF SweepHold
    <3>2. pc[e] \notin {"mark", "moderate", "start", "attempt", "calling", "settle", "record"}
      BY <1>2, <1>3, <3>1
    <3> QED
      BY <1>2, <3>1, <3>2
  <2> QED
    BY <1>7, <2>1, <2>2, <2>3, <2>4, <2>5, <2>6, <2>7, <2>8, <2>9, <2>10, <2>11, <2>12,
       <2>13, <2>14 DEF Step
<1> HIDE DEF Ahead, Paid
<1> QED
  BY <1>4, <1>5, <1>6, <1>7, StepIs

\* While the grace of a hold covers one more timeout, a success is paid: the
\* wallet, the row and the usage entry show one charge, even if the record of
\* an answer may be refused.
THEOREM SuccessesArePaid ==
  ASSUME Grace >= Timeout
  PROVE  Spec => []SuccessIsPaid
<1>1. Covered => SuccessIsPaid
  BY DEF Covered, SuccessIsPaid
<1>2. Typed /\ Claimed /\ Covered /\ [Next]_vars => Covered'
  BY CoveredStep
<1>3. Typed /\ Claimed /\ [Next]_vars => Claimed'
  BY ClaimedStep
<1> QED
  BY <1>1, <1>2, <1>3, ClaimedInit, CoveredInit, GatewayTypes, PTL DEF Spec

-----------------------------------------------------------------------------
(* The account and the rows stay what the database accepts. *)

OpenHolds == {e \in Executions : holds[e].status = "OPEN"}

\* What is held is one estimate for each open hold, and is there.
Backed ==
  /\ balance \in Nat /\ held \in Nat /\ held <= balance
  /\ held = Estimate * Cardinality(OpenHolds)
  /\ \A e \in Executions : holds[e].status # "NONE" => holds[e].amount = Estimate

\* A step reaches the account through the operations of CreditAccount.
LEMMA AccountStep ==
  ASSUME [Next]_vars
  PROVE  \/ UNCHANGED accountVars
         \/ MoveBalance
         \/ \E e \in Executions :
              \/ HoldCredits(e, Estimate)
              \/ ChargeHold(e, local[e].bill)
              \/ EndHold(e, "RELEASED")
              \/ EndHold(e, "EXPIRED")
<1>1. ASSUME NEW e \in Executions, Step(e)
      PROVE  \/ UNCHANGED accountVars \/ HoldCredits(e, Estimate)
             \/ ChargeHold(e, local[e].bill) \/ EndHold(e, "RELEASED")
  BY <1>1
  DEF Step, Lookup, Supersede, Admit, Create, Reserve, Mark, Moderate, UnholdBlocked,
      Block, Start, Attempt, ProviderAnswers, ProviderFails, Settle, Record,
      ReleaseFailed, RecordFailure, ReleaseHold
<1> QED
  BY <1>1 DEF Next, Call, Crash, SweepHold, OtherMovement, Tick, vars

\* The wallet starts with nothing held.
LEMMA BackedInit == Init => Backed
<1> SUFFICES ASSUME Init
             PROVE  Backed
  OBVIOUS
<1>1. OpenHolds = {}
  BY DEF Init, OpenHolds, NoHold, Executions
<1>2. Cardinality(OpenHolds) = 0
  BY <1>1, FS_EmptySet
<1>3. NoHold.status = "NONE"
  BY DEF NoHold
<1> QED
  BY <1>2, <1>3, GatewayAssumption DEF Init, Backed, Executions

\* Each operation of the account moves what is held with the number of open holds.
LEMMA BackedStep ==
  ASSUME Typed, Backed, [Next]_vars
  PROVE  Backed'
<1> DEFINE n == Cardinality(OpenHolds)
<1>1. IsFiniteSet(OpenHolds) /\ n \in Nat
  <2>1. IsFiniteSet(Executions) /\ OpenHolds \subseteq Executions
    BY GatewayAssumption DEF Executions, OpenHolds
  <2>2. IsFiniteSet(OpenHolds)
    BY <2>1, FS_Subset
  <2> QED
    BY <2>2, FS_CardinalityType
<1>2. /\ holds \in [Executions -> Hold] /\ Estimate \in Nat
      /\ \A e \in Executions : local[e].bill \in Nat
  BY GatewayAssumption, LocalFields DEF Typed, Executions
<1>3. CASE UNCHANGED accountVars
  BY <1>3 DEF Backed, OpenHolds, accountVars
<1>4. CASE MoveBalance
  BY <1>2, <1>4, GatewayAssumption DEF Backed, OpenHolds, MoveBalance
<1>5. ASSUME NEW e \in Executions, HoldCredits(e, Estimate)
      PROVE  Backed'
  <2>1. holds' = [holds EXCEPT ![e] = [status |-> "OPEN", amount |-> Estimate, charged |-> 0]]
        /\ e \notin OpenHolds
    BY <1>5 DEF HoldCredits, OpenHolds
  <2>2. OpenHolds' = OpenHolds \cup {e}
    BY <1>2, <2>1 DEF OpenHolds
  <2>3. Cardinality(OpenHolds') = n + 1
    BY <1>1, <2>1, <2>2, FS_AddElement
  <2>4. Estimate * (n + 1) = Estimate * n + Estimate
    BY <1>1, <1>2
  <2>5. held' = held + Estimate /\ balance' = balance /\ Estimate <= balance - held
    BY <1>5 DEF HoldCredits
  <2> QED
    BY <1>2, <2>1, <2>3, <2>4, <2>5 DEF Backed
<1>6. ASSUME NEW e \in OpenHolds, NEW r \in Hold,
             holds' = [holds EXCEPT ![e] = r], r.status # "OPEN", r.amount = holds[e].amount
      PROVE  /\ Estimate * Cardinality(OpenHolds') = Estimate * n - Estimate
             /\ Estimate <= Estimate * n
             /\ \A d \in Executions : holds'[d].status # "NONE" => holds'[d].amount = Estimate
  <2>1. OpenHolds' = OpenHolds \ {e}
    BY <1>2, <1>6 DEF OpenHolds
  <2>2. Cardinality(OpenHolds') = n - 1
    BY <1>1, <1>6, <2>1, FS_RemoveElement
  <2>3. n # 0
    BY <1>1, <1>6, FS_EmptySet
  <2>4. Estimate * (n - 1) = Estimate * n - Estimate /\ Estimate <= Estimate * n
    BY <1>1, <1>2, <2>3
  <2>5. holds[e].amount = Estimate
    BY <1>6 DEF Backed, OpenHolds
  <2> QED
    BY <1>2, <1>6, <2>2, <2>4, <2>5 DEF Backed, OpenHolds
<1>7. ASSUME NEW e \in Executions, ChargeHold(e, local[e].bill)
      PROVE  Backed'
  <2> DEFINE r == [[holds[e] EXCEPT !.status = "SETTLED"] EXCEPT !.charged = local[e].bill]
  <2>1. /\ e \in OpenHolds /\ r \in Hold /\ holds' = [holds EXCEPT ![e] = r]
        /\ r.status # "OPEN" /\ r.amount = holds[e].amount
    BY <1>2, <1>7 DEF ChargeHold, OpenHolds, Hold, HoldStatuses
  <2>2. /\ balance' = balance - local[e].bill /\ held' = held - holds[e].amount
        /\ local[e].bill <= holds[e].amount /\ holds[e].amount = Estimate
    BY <1>7 DEF ChargeHold, Backed
  <2> HIDE DEF r
  <2>3. /\ Estimate * Cardinality(OpenHolds') = Estimate * n - Estimate
        /\ Estimate <= Estimate * n
        /\ \A d \in Executions : holds'[d].status # "NONE" => holds'[d].amount = Estimate
    BY <1>6, <2>1
  <2> QED
    BY <1>2, <2>2, <2>3 DEF Backed
<1>8. ASSUME NEW e \in Executions, NEW status \in {"RELEASED", "EXPIRED"}, EndHold(e, status)
      PROVE  Backed'
  <2> DEFINE r == [holds[e] EXCEPT !.status = status]
  <2>1. /\ e \in OpenHolds /\ r \in Hold /\ holds' = [holds EXCEPT ![e] = r]
        /\ r.status # "OPEN" /\ r.amount = holds[e].amount
    BY <1>2, <1>8 DEF EndHold, OpenHolds, Hold, HoldStatuses
  <2>2. balance' = balance /\ held' = held - holds[e].amount /\ holds[e].amount = Estimate
    BY <1>8 DEF EndHold, Backed
  <2> HIDE DEF r
  <2>3. /\ Estimate * Cardinality(OpenHolds') = Estimate * n - Estimate
        /\ Estimate <= Estimate * n
        /\ \A d \in Executions : holds'[d].status # "NONE" => holds'[d].amount = Estimate
    BY <1>6, <2>1
  <2> QED
    BY <1>2, <2>2, <2>3 DEF Backed
<1> QED
  BY <1>3, <1>4, <1>5, <1>7, <1>8, AccountStep

\* Only a success costs anything, and a row that was never made bears no key.
Billed ==
  \A e \in Executions :
    /\ row[e].charged <= Estimate
    /\ row[e].status # "SUCCEEDED" => row[e].charged = 0
    /\ row[e].status = "NONE" => row[e].key = Superseded

\* No row costs anything yet.
LEMMA BilledInit == Init => Billed
<1>1. NoRow.charged = 0 /\ NoRow.key = Superseded
  BY DEF NoRow
<1>2. 0 <= Estimate
  BY GatewayAssumption
<1>3. Init => \A e \in Executions : row[e] = NoRow
  BY DEF Init
<1> QED
  BY <1>1, <1>2, <1>3 DEF Billed

\* The cost is written with the success, and only then.
LEMMA BilledStep ==
  ASSUME Typed, Claimed, Billed, [Next]_vars
  PROVE  Billed'
<1> DEFINE OK(r) == /\ r.charged <= Estimate
                    /\ r.status # "SUCCEEDED" => r.charged = 0
                    /\ r.status = "NONE" => r.key = Superseded
<1>1. SUFFICES ASSUME NEW e \in Executions
               PROVE  OK(row'[e])
  BY DEF Billed
<1>2. /\ OK(row[e]) /\ row[e] \in Rows /\ Estimate \in Nat
      /\ Running(e) => row[e].status \in Live
  BY GatewayAssumption DEF Billed, Typed, Claimed
<1>3. CASE UNCHANGED row
  BY <1>2, <1>3
<1>4. ASSUME NEW d \in Executions, d # e, Call(d) \/ Step(d) \/ Crash(d) \/ SweepHold(d)
      PROVE  OK(row'[e])
  <2>1. CASE row'[e] = row[e]
    BY <1>2, <2>1
  <2>2. CASE row'[e] = [row[e] EXCEPT !.key = Superseded]
    <3>1. /\ row'[e].charged = row[e].charged /\ row'[e].status = row[e].status
          /\ row'[e].key = Superseded
      BY <1>2, <2>2 DEF Rows
    <3> QED
      BY <1>2, <3>1
  <2> HIDE DEF OK
  <2> QED
    BY <1>4, <2>1, <2>2, OthersStay
<1>5. ASSUME Call(e) \/ Step(e) \/ Crash(e) \/ SweepHold(e)
      PROVE  OK(row'[e])
  <2> USE DEF Typed, tables
  <2>1. CASE Supersede(e)
    <3>1. /\ row'[e].charged = row[e].charged /\ row'[e].status = row[e].status
          /\ row'[e].key \in {row[e].key, Superseded}
      BY <1>2, <2>1 DEF Supersede, Rows
    <3> QED
      BY <1>2, <3>1
  <2>2. CASE Create(e)
    <3>1. CASE row' = [row EXCEPT ![e] = Pending(asked[e])]
      <4>1. row'[e].status = "PENDING" /\ row'[e].charged = 0
        BY <3>1 DEF Pending
      <4> QED
        BY <1>2, <4>1
    <3> QED
      BY <1>3, <2>2, <3>1 DEF Create
  <2>3. CASE Mark(e) \/ Start(e)
    <3>1. CASE row' = row
      BY <1>3, <3>1
    <3>2. CASE \/ row' = [row EXCEPT ![e].status = "RESERVED", ![e].reserved = TRUE]
               \/ row' = [row EXCEPT ![e].status = "RUNNING"]
      <4>1. row'[e].status \in {"RESERVED", "RUNNING"} /\ row'[e].charged = row[e].charged
        BY <1>2, <3>2 DEF Rows
      <4>2. row[e].status \in Live
        BY <1>2, <2>3 DEF Mark, Start, Running
      <4> QED
        BY <1>2, <4>1, <4>2 DEF Live
    <3> QED
      BY <2>3, <3>1, <3>2 DEF Mark, Start
  <2>4. CASE Block(e) \/ RecordFailure(e)
    <3>1. row'[e].status \in Failures /\ row'[e].charged = 0
      BY <1>2, <2>4 DEF Block, RecordFailure, FailureStatus, Failures, Rows
    <3> QED
      BY <1>2, <3>1 DEF Failures
  <2>5. CASE Record(e)
    <3>1. CASE /\ local[e].bill <= Estimate
               /\ row' = [row EXCEPT ![e].status = "SUCCEEDED", ![e].charged = local[e].bill]
      <4>1. row'[e].status = "SUCCEEDED" /\ row'[e].charged = local[e].bill
        BY <1>2, <3>1 DEF Rows
      <4> QED
        BY <3>1, <4>1
    <3> QED
      BY <1>3, <2>5, <3>1 DEF Record
  <2> HIDE DEF OK
  <2> QED
    BY <1>3, <1>5, <2>1, <2>2, <2>3, <2>4, <2>5
    DEF Step, Call, Lookup, Admit, Reserve, Moderate, UnholdBlocked, Attempt,
        ProviderAnswers, ProviderFails, Settle, ReleaseFailed, Crash, SweepHold
<1> HIDE DEF OK
<1> QED
  BY <1>3, <1>4, <1>5, StepIs

\* The variables have their types; what is held is covered by the balance; a
\* key names one row; and only a success is charged, within its estimate: no
\* update of the gateway is one the database's CHECKs or its unique index must
\* refuse.
THEOREM GatewayTypeOK == Spec => []TypeOK
<1>1. ASSUME Typed, Claimed, Backed, Billed
      PROVE  TypeOK
  <2>1. ASSUME NEW e \in Executions, row[e].key # Superseded
        PROVE  Cardinality(Bearing(row[e].key)) = 1
    <3>1. row[e].status # "NONE"
      BY <1>1, <2>1 DEF Billed
    <3>2. Bearing(row[e].key) = {e}
      BY <1>1, <2>1, <3>1 DEF Bearing, Claimed
    <3> QED
      BY <3>2, FS_Singleton
  <2>2. RowsAccepted
    BY <1>1, <2>1 DEF RowsAccepted, Billed
  <2> QED
    BY <1>1, <2>2 DEF TypeOK, Typed, Backed
<1>2. Typed /\ Claimed /\ Backed /\ Billed => TypeOK
  BY <1>1
<1>3. Typed /\ Claimed /\ [Next]_vars => Claimed'
  BY ClaimedStep
<1>4. Typed /\ Backed /\ [Next]_vars => Backed'
  BY BackedStep
<1>5. Typed /\ Claimed /\ Billed /\ [Next]_vars => Billed'
  BY BilledStep
<1> QED
  BY <1>2, <1>3, <1>4, <1>5, ClaimedInit, BackedInit, BilledInit, GatewayTypes, PTL DEF Spec
=============================================================================
