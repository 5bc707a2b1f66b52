----------------------------- MODULE AiGateway ------------------------------
(***************************************************************************)
(* AI requests of one workspace, from the idempotency key to the charge:   *)
(* replay or claim the key, check the budget, reserve credits, moderate,   *)
(* walk the model chain under one deadline, settle or release, record.     *)
(*                                                                         *)
(* Source: packages/ai-gateway/src/gateway.ts.                             *)
(*                                                                         *)
(* Every await of the handler ends an action: executions interleave        *)
(* between the read of a row and its update, and a process may die at any  *)
(* await.  The wallet is the account CreditLedger implements               *)
(* (CreditAccount); the ledger's own sweep of abandoned reservations runs  *)
(* beside the gateway.  sweepStuckRequests has no caller in the program    *)
(* and is not part of Next.                                                *)
(*                                                                         *)
(* An execution is named by the reservation it may take, `ai:${requestId}`,*)
(* and creates at most one request row, row[e].                            *)
(***************************************************************************)
EXTENDS CreditAccount, FiniteSets, Sequences

CONSTANTS
  Keys,            \* idempotency keys callers send
  Calls,           \* the ways the executions may be called: each one's key
  InitialBalance,
  Estimate,        \* the dearest model of the chain, at worst-case usage
  Charges,         \* what an answer may cost
  ChainLength,     \* models of the chain
  MaxAttempts,     \* attempts on one model
  MaxConcurrent,   \* the workspace's concurrency budget
  Timeout,         \* route.timeoutMs
  Grace,           \* by how much a hold's ttl exceeds the timeout
  MaxTime,         \* bound on the clock
  Faults           \* the row updates the database may fail: subset of
                   \* {"mark", "record"}

ASSUME GatewayAssumption ==
  /\ IsFiniteSet(HoldIds) /\ Balances \subseteq Nat /\ InitialBalance \in Nat
  /\ Estimate \in Nat \ {0} /\ Charges \subseteq Nat
  /\ ChainLength \in Nat \ {0} /\ MaxAttempts \in Nat \ {0}
  /\ MaxConcurrent \in Nat \ {0}
  /\ Timeout \in Nat \ {0} /\ Grace \in Nat /\ MaxTime \in Nat
  /\ Calls \subseteq [HoldIds -> Keys]
  /\ Faults \subseteq {"mark", "record"}

VARIABLES
  pc,        \* where each execution is
  asked,     \* the key each execution was called with
  local,     \* what its local remembers
  row,       \* the ai_request row each execution created
  usage,     \* ai_usage_ledger: the credits recorded for each request
  ttl,       \* when each hold is abandoned
  now

tables == <<row, usage>>
vars == <<pc, asked, local, tables, ttl, now, accountVars>>

Executions == HoldIds

Live == {"PENDING", "RESERVED", "RUNNING"}
Failures == {"FAILED", "TIMEOUT", "MODERATION_BLOCKED"}
Superseded == "superseded"   \* `${key}#superseded:${id}`

\* Failure classes, by what the gateway tells them apart for: worth another
\* attempt, worth another model, deterministic, and none of these.
Transient == {"NETWORK_ERROR", "TIMEOUT"}
FallbackEligible == Transient \cup {"MODEL_UNAVAILABLE"}
Deterministic == {"CONTENT_FILTERED"}
ProviderClasses == FallbackEligible \cup Deterministic \cup {"UNKNOWN"}
Classes == FallbackEligible \cup Deterministic \cup {"UNKNOWN", "QUOTA_EXCEEDED"}

NoRow == [status |-> "NONE", key |-> Superseded, class |-> "none",
          charged |-> 0, reserved |-> FALSE]

None == "none"

\* A renamed key is nobody's key, and no execution is the absence of one.
ASSUME NamesAssumption == Superseded \notin Keys /\ None \notin Executions

\* The local variables of execute and of what it calls.
NoLocals ==
  [seen |-> None,      \* the row read under the key
   races |-> 0,        \* how often the race to supersede it was lost
   model |-> 1,        \* the model of the chain it is at
   attempt |-> 1,      \* the attempt on that model
   deadline |-> 0,     \* until when it waits for a provider
   class |-> None,     \* why it failed, once it has
   bill |-> 0]         \* what the provider's answer costs

Locals ==
  [seen : Executions \cup {None}, races : 0..2, model : 1..ChainLength,
   attempt : 1..MaxAttempts, deadline : 0..MaxTime,
   class : Classes \cup {None}, bill : Charges \cup {0}]

Rows == [status : Live \cup Failures \cup {"NONE", "SUCCEEDED"},
         key : Keys \cup {Superseded}, class : Classes \cup {None},
         charged : Nat, reserved : BOOLEAN]

Init ==
  /\ balance = InitialBalance /\ held = 0
  /\ holds = [e \in HoldIds |-> NoHold]
  /\ pc = [e \in Executions |-> "idle"]
  /\ asked \in Calls
  /\ local = [e \in Executions |-> NoLocals]
  /\ row = [e \in Executions |-> NoRow]
  /\ usage = [e \in Executions |-> 0]
  /\ ttl = [e \in Executions |-> 0]
  /\ now = 0

Goto(e, there) == pc' = [pc EXCEPT ![e] = there]

\* The local returns or throws: its locals are gone.
Leave(e, there) == Goto(e, there) /\ local' = [local EXCEPT ![e] = NoLocals]
Answer(e) == Leave(e, "done")

Fail(e, class) == local' = [local EXCEPT ![e].class = class]

\* The row that bears a key, if any: the column is unique.
Bearing(k) == {e \in Executions : row[e].status # "NONE" /\ row[e].key = k}

-----------------------------------------------------------------------------
(* The idempotency key. *)

\* execute is called; the clock leaves room for the whole request.
Call(e) ==
  /\ pc[e] = "idle"
  /\ now + 2 * Timeout + Grace < MaxTime
  /\ Goto(e, "lookup")
  /\ UNCHANGED <<asked, local, tables, ttl, now, accountVars>>

\* The answer a finished request gives to whoever asks again.
Replayable(r) ==
  r.status \in {"SUCCEEDED", "MODERATION_BLOCKED"} \/ r.class \in Deterministic

\* #replayIfRecorded, the read: nothing recorded; an answer to replay, or a
\* request still running; a transient failure to move aside.  The loser of a
\* claim ("reread") looks in the same way, but never goes on to create.
Lookup(e) ==
  LET bearing == Bearing(asked[e])
      onward == IF pc[e] = "lookup" THEN "supersede" ELSE "resupersede"
  IN  /\ pc[e] \in {"lookup", "reread"}
      /\ \/ bearing = {} /\ pc[e] = "lookup" /\ Goto(e, "admit") /\ UNCHANGED local
         \/ bearing = {} /\ pc[e] = "reread" /\ Answer(e)
         \/ \E o \in bearing : (row[o].status \in Live \/ Replayable(row[o])) /\ Answer(e)
         \/ \E o \in bearing :
              /\ row[o].status \notin Live /\ ~Replayable(row[o])
              /\ local' = [local EXCEPT ![e].seen = o]
              /\ Goto(e, onward)
      /\ UNCHANGED <<asked, tables, ttl, now, accountVars>>

\* The key is free, or was freed for somebody else by a claim that was lost.
Freed(e) ==
  \/ pc[e] = "supersede" /\ Goto(e, "admit") /\ UNCHANGED local
  \/ pc[e] = "resupersede" /\ Answer(e)

\* Mutant: whatever row bears the key by now is renamed.
SupersedeByKey(e) ==
  /\ pc[e] \in {"supersede", "resupersede"}
  /\ row' = [o \in Executions |->
               IF o \in Bearing(asked[e]) THEN [row[o] EXCEPT !.key = Superseded]
               ELSE row[o]]
  /\ Freed(e)
  /\ UNCHANGED <<asked, usage, ttl, now, accountVars>>

\* #replayIfRecorded, the conditional rename: one of two racing retries moves
\* the failed row aside, the other reads again, three times at most.
Supersede(e) ==
  LET seen == local[e].seen
      races == local[e].races + 1
  IN  /\ pc[e] \in {"supersede", "resupersede"}
      /\ \/ /\ row[seen].key = asked[e]
            /\ row' = [row EXCEPT ![seen].key = Superseded]
            /\ Freed(e)
         \/ /\ row[seen].key # asked[e] /\ races < 3
            /\ local' = [local EXCEPT ![e].races = races]
            /\ Goto(e, IF pc[e] = "supersede" THEN "lookup" ELSE "reread")
            /\ UNCHANGED row
         \/ row[seen].key # asked[e] /\ races = 3 /\ Answer(e) /\ UNCHANGED row
      /\ UNCHANGED <<asked, usage, ttl, now, accountVars>>

\* assessBudget, against the requests in flight when it is asked.
Admit(e) ==
  LET concurrent == Cardinality({o \in Executions : row[o].status \in Live})
  IN  /\ pc[e] = "admit"
      /\ \/ concurrent < MaxConcurrent /\ Goto(e, "create") /\ UNCHANGED local
         \/ concurrent >= MaxConcurrent /\ Answer(e)
      /\ UNCHANGED <<asked, tables, ttl, now, accountVars>>

Pending(k) == [status |-> "PENDING", key |-> k, class |-> None,
               charged |-> 0, reserved |-> FALSE]

\* Mutant: no unique index on the key.
CreateUnclaimed(e) ==
  /\ pc[e] = "create"
  /\ row' = [row EXCEPT ![e] = Pending(asked[e])]
  /\ Goto(e, "reserve")
  /\ UNCHANGED <<asked, local, usage, ttl, now, accountVars>>

\* #createRequest: the unique index makes the claim; the loser reads again.
Create(e) ==
  /\ pc[e] = "create"
  /\ \/ /\ Bearing(asked[e]) = {}
        /\ row' = [row EXCEPT ![e] = Pending(asked[e])]
        /\ Goto(e, "reserve")
     \/ /\ Bearing(asked[e]) # {}
        /\ Goto(e, "reread")
        /\ UNCHANGED row
  /\ local' = [local EXCEPT ![e] = NoLocals]
  /\ UNCHANGED <<asked, usage, ttl, now, accountVars>>

-----------------------------------------------------------------------------
(* The hold and the moderation. *)

\* Mutant: the hold's ttl leaves out the request's timeout.
ReserveShortly(e) ==
  /\ pc[e] = "reserve"
  /\ Estimate <= balance - held
  /\ HoldCredits(e, Estimate)
  /\ ttl' = [ttl EXCEPT ![e] = now + Grace]
  /\ Goto(e, "mark")
  /\ UNCHANGED <<asked, local, tables, now>>

\* ledger.reserve; refused when the wallet cannot cover the estimate.
Reserve(e) ==
  /\ pc[e] = "reserve"
  /\ \/ /\ HoldCredits(e, Estimate)
        /\ ttl' = [ttl EXCEPT ![e] = now + Timeout + Grace]
        /\ Goto(e, "mark")
        /\ UNCHANGED local
     \/ /\ Estimate > balance - held
        /\ Fail(e, "QUOTA_EXCEEDED")
        /\ Goto(e, "fail")
        /\ UNCHANGED <<ttl, accountVars>>
  /\ UNCHANGED <<asked, tables, now>>

\* The row learns its reservation.  When that update fails the request is
\* recorded as failed and the hold is left to the ledger's sweep.
Mark(e) ==
  /\ pc[e] = "mark"
  /\ \/ /\ row' = [row EXCEPT ![e].status = "RESERVED", ![e].reserved = TRUE]
        /\ local' = [local EXCEPT ![e].deadline = now + Timeout]
        /\ Goto(e, "moderate")
     \/ /\ "mark" \in Faults
        /\ Fail(e, "UNKNOWN")
        /\ Goto(e, "fail")
        /\ UNCHANGED row
  /\ UNCHANGED <<asked, usage, ttl, now, accountVars>>

\* #moderateInput takes up to the timeout, and lets the input pass when the
\* moderation model cannot be reached.
Moderate(e) ==
  /\ pc[e] = "moderate"
  /\ Goto(e, "start") \/ Goto(e, "unhold blocked")
  /\ UNCHANGED <<asked, local, tables, ttl, now, accountVars>>

\* ledger.release leaves a reservation that is not OPEN as it is.
ReleaseHold(e) ==
  \/ EndHold(e, "RELEASED")
  \/ holds[e].status # "OPEN" /\ UNCHANGED accountVars

\* #blockForModeration: release, then record.
UnholdBlocked(e) ==
  /\ pc[e] = "unhold blocked"
  /\ ReleaseHold(e)
  /\ Goto(e, "block")
  /\ UNCHANGED <<asked, local, tables, ttl, now>>

Block(e) ==
  /\ pc[e] = "block"
  /\ row' = [row EXCEPT ![e].status = "MODERATION_BLOCKED",
                        ![e].class = "CONTENT_FILTERED", ![e].charged = 0]
  /\ Answer(e)
  /\ UNCHANGED <<asked, usage, ttl, now, accountVars>>

-----------------------------------------------------------------------------
(* The chain of models, under one deadline. *)

\* #runChain begins: its deadline counts from here, not from the reservation.
Start(e) ==
  /\ pc[e] = "start"
  /\ row' = [row EXCEPT ![e].status = "RUNNING"]
  /\ local' = [local EXCEPT ![e].deadline = now + Timeout]
  /\ Goto(e, "attempt")
  /\ UNCHANGED <<asked, usage, ttl, now, accountVars>>

\* An attempt starts only before the deadline.
Attempt(e) ==
  /\ pc[e] = "attempt"
  /\ \/ now < local[e].deadline /\ Goto(e, "calling") /\ UNCHANGED local
     \/ now >= local[e].deadline /\ Fail(e, "TIMEOUT") /\ Goto(e, "release")
  /\ UNCHANGED <<asked, tables, ttl, now, accountVars>>

ProviderAnswers(e) ==
  /\ pc[e] = "calling"
  /\ \E cost \in Charges : local' = [local EXCEPT ![e].bill = cost]
  /\ Goto(e, "settle")
  /\ UNCHANGED <<asked, tables, ttl, now, accountVars>>

\* The call fails, or the model has no usable adapter: once more on this model
\* if the backoff ends before the deadline, else the next model, or the end.
ProviderFails(e) ==
  /\ pc[e] = "calling"
  /\ \E class \in ProviderClasses :
       \/ /\ class \in Transient /\ local[e].attempt < MaxAttempts
          /\ now < local[e].deadline
          /\ local' = [local EXCEPT ![e].attempt = @ + 1]
          /\ Goto(e, "attempt")
       \/ /\ class \in FallbackEligible /\ local[e].model < ChainLength
          /\ local' = [local EXCEPT ![e].model = @ + 1, ![e].attempt = 1]
          /\ Goto(e, "attempt")
       \/ /\ class \in FallbackEligible => local[e].model = ChainLength
          /\ Fail(e, class)
          /\ Goto(e, "release")
  /\ UNCHANGED <<asked, tables, ttl, now, accountVars>>

-----------------------------------------------------------------------------
(* The charge, and the record of it. *)

\* Mutant: an answer above the hold is charged up to it before it is refused.
SettleClamped(e) ==
  /\ pc[e] = "settle"
  /\ \/ ChargeHold(e, local[e].bill) /\ Goto(e, "record") /\ UNCHANGED local
     \/ /\ local[e].bill > holds[e].amount
        /\ ChargeHold(e, holds[e].amount)
        /\ Fail(e, "UNKNOWN")
        /\ Goto(e, "release")
  /\ UNCHANGED <<asked, tables, ttl, now>>

\* ledger.settle: a hold that is no longer OPEN is left as it is; an answer
\* above the hold is refused, and is a failure of the request.
Settle(e) ==
  /\ pc[e] = "settle"
  /\ \/ /\ ChargeHold(e, local[e].bill)
        /\ Goto(e, "record")
        /\ UNCHANGED local
     \/ /\ holds[e].status = "OPEN" /\ local[e].bill > holds[e].amount
        /\ Fail(e, "UNKNOWN")
        /\ Goto(e, "release")
        /\ UNCHANGED accountVars
     \/ /\ holds[e].status # "OPEN"
        /\ Goto(e, "record")
        /\ UNCHANGED <<local, accountVars>>
  /\ UNCHANGED <<asked, tables, ttl, now>>

\* The row and its usage entry in one transaction, after the wallet.  When the
\* transaction fails, the error is one more failure of the chain.
Record(e) ==
  LET charged == local[e].bill
  IN  /\ pc[e] = "record"
      /\ \/ /\ charged <= Estimate
            /\ row' = [row EXCEPT ![e].status = "SUCCEEDED", ![e].charged = charged]
            /\ usage' = [usage EXCEPT ![e] = charged]
            /\ Answer(e)
         \/ /\ "record" \in Faults \/ charged > Estimate
            /\ Fail(e, "UNKNOWN")
            /\ Goto(e, "release")
            /\ UNCHANGED tables
      /\ UNCHANGED <<asked, ttl, now, accountVars>>

\* Mutant: the failure is recorded and the hold left to the sweep.
ReleaseNothing(e) ==
  /\ pc[e] = "release"
  /\ Goto(e, "fail")
  /\ UNCHANGED <<asked, local, tables, ttl, now, accountVars>>

\* #releaseAndRecord, its first half: the hold ends before the row does.
ReleaseFailed(e) ==
  /\ pc[e] = "release"
  /\ ReleaseHold(e)
  /\ Goto(e, "fail")
  /\ UNCHANGED <<asked, local, tables, ttl, now>>

FailureStatus(class) == IF class = "TIMEOUT" THEN "TIMEOUT" ELSE "FAILED"

\* Mutant: a failed request keeps the cost of its answer.
RecordFailureBilled(e) ==
  /\ pc[e] = "fail"
  /\ row' = [row EXCEPT ![e].status = FailureStatus(local[e].class),
                        ![e].class = local[e].class, ![e].charged = local[e].bill]
  /\ Answer(e)
  /\ UNCHANGED <<asked, usage, ttl, now, accountVars>>

\* #recordFailure
RecordFailure(e) ==
  /\ pc[e] = "fail"
  /\ row' = [row EXCEPT ![e].status = FailureStatus(local[e].class),
                        ![e].class = local[e].class, ![e].charged = 0]
  /\ Answer(e)
  /\ UNCHANGED <<asked, usage, ttl, now, accountVars>>

-----------------------------------------------------------------------------
(* What goes on beside the requests. *)

\* The process dies, or an update outside every try throws: the execution is
\* over, and its rows stay as they are.
Crash(e) ==
  /\ pc[e] \notin {"idle", "done", "crashed"}
  /\ Leave(e, "crashed")
  /\ UNCHANGED <<asked, tables, ttl, now, accountVars>>

\* Mutant: only the holds a request row points at are swept.
SweepRecordedHold(e) ==
  /\ holds[e].status = "OPEN" /\ ttl[e] < now /\ row[e].reserved
  /\ EndHold(e, "EXPIRED")
  /\ UNCHANGED <<pc, asked, local, tables, ttl, now>>

\* The ledger's sweep of abandoned reservations reaches this one.
SweepHold(e) ==
  /\ holds[e].status = "OPEN" /\ ttl[e] < now
  /\ EndHold(e, "EXPIRED")
  /\ UNCHANGED <<pc, asked, local, tables, ttl, now>>

\* Grants, expiry and the cycle reset.
OtherMovement ==
  /\ MoveBalance
  /\ UNCHANGED <<pc, asked, local, tables, ttl, now>>

\* A request waits in a provider call, which its deadline aborts, or between
\* attempts.  Its other steps are prompt: they take no time worth counting
\* against the timeouts.
Waits(e) ==
  pc[e] \in {"moderate", "calling", "attempt"} /\ now < local[e].deadline

Tick ==
  /\ now < MaxTime
  /\ \A e \in Executions : pc[e] \in {"idle", "done", "crashed"} \/ Waits(e)
  /\ now' = now + 1
  /\ UNCHANGED <<pc, asked, local, tables, ttl, accountVars>>

Step(e) ==
  \/ Lookup(e) \/ Supersede(e) \/ Admit(e) \/ Create(e)
  \/ Reserve(e) \/ Mark(e) \/ Moderate(e) \/ UnholdBlocked(e) \/ Block(e)
  \/ Start(e) \/ Attempt(e) \/ ProviderAnswers(e) \/ ProviderFails(e)
  \/ Settle(e) \/ Record(e) \/ ReleaseFailed(e) \/ RecordFailure(e)

Next ==
  \/ \E e \in Executions : Call(e) \/ Step(e) \/ Crash(e) \/ SweepHold(e)
  \/ OtherMovement
  \/ Tick

Spec == Init /\ [][Next]_vars

\* A running process takes its next step, and a provider call ends: at the
\* deadline at the latest.  The scheduler runs the sweep again and again.
FairSpec ==
  /\ Spec
  /\ \A e \in Executions : WF_vars(Step(e)) /\ WF_vars(SweepHold(e))
  /\ WF_vars(Tick)

-----------------------------------------------------------------------------
(* Properties. *)

\* The rows are what the database accepts: a key names one row, only a success
\* is charged, and never above its estimate.
RowsAccepted ==
  \A e \in Executions :
    /\ row[e].key # Superseded => Cardinality(Bearing(row[e].key)) = 1
    /\ row[e].charged <= Estimate
    /\ row[e].status # "SUCCEEDED" => row[e].charged = 0

\* Every variable has its type, and the rows are what the CHECKs and the
\* unique index of ai_request accept.
TypeOK ==
  /\ balance \in Nat /\ held \in 0..balance /\ now \in 0..MaxTime
  /\ holds \in [HoldIds -> Hold]
  /\ asked \in [Executions -> Keys]
  /\ row \in [Executions -> Rows]
  /\ local \in [Executions -> Locals]
  /\ RowsAccepted

\* From the claim of the key to the record of the outcome.
Running(e) ==
  pc[e] \in {"reserve", "mark", "moderate", "unhold blocked", "block", "start",
             "attempt", "calling", "settle", "record", "release", "fail"}

\* However callers race on one key, retry it and supersede what failed, one of
\* them at most is between the claim of the key and the recorded outcome: one
\* reservation and one provider conversation at a time.
OneRunPerKey ==
  \A d, e \in Executions :
    d # e /\ asked[d] = asked[e] => ~(Running(d) /\ Running(e))

\* Over all the attempts made under one key, the wallet pays once.
ChargedOncePerKey ==
  \A k \in Keys :
    Cardinality({e \in Executions : asked[e] = k /\ holds[e].charged > 0}) <= 1

\* A request that ended without success was not charged.
NoChargeForFailure ==
  \A e \in Executions : row[e].status \in Failures => holds[e].charged = 0

\* A recorded failure that knows its reservation has given it back.
FailureFreesItsHold ==
  \A e \in Executions :
    row[e].status \in Failures /\ row[e].reserved => holds[e].status # "OPEN"

\* A success is paid: the wallet, the row and the usage entry show one charge,
\* although the hold may be swept from under a request that is still running.
SuccessIsPaid ==
  \A e \in Executions :
    row[e].status = "SUCCEEDED" =>
      /\ holds[e].status = "SETTLED"
      /\ holds[e].charged = row[e].charged
      /\ usage[e] = row[e].charged

\* No credits stay held for ever, wherever the process died.
HoldsEnd ==
  \A e \in Executions : holds[e].status = "OPEN" ~> holds[e].status # "OPEN"
=============================================================================
