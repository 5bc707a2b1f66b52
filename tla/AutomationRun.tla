---------------------------- MODULE AutomationRun ---------------------------
(***************************************************************************)
(* Automations: a rule listens for an event, the event waits in an outbox  *)
(* row until a worker has delivered it, and each delivery to a rule is one *)
(* run.  A rule with an external action only proposes: its run waits for a *)
(* person, who asks for a single-use token and spends it within a window.  *)
(*                                                                         *)
(* A rule row, an event row and a run row are database rows; a message is  *)
(* a BullMQ job whose id is the event's, so adding it again while the      *)
(* queue remembers it does nothing.  A worker delivers an event in one     *)
(* READ COMMITTED transaction: it reads the rules, then evaluates them one *)
(* by one, and commits every run, every action and the outbox row at once. *)
(*                                                                         *)
(* Source: packages/automation/src/engine.ts, threshold-producer.ts and    *)
(* schedule.ts; packages/database/src/automation-events.ts;                *)
(* apps/worker/src/processors/automation.ts; apps/api/src/scheduler.ts and *)
(* routes/automation.ts; packages/jobs/src/client.ts.                      *)
(***************************************************************************)
EXTENDS Integers, FiniteSets

CONSTANTS Rules,
          Threshold,      \* rules that watch a metric
          Timed,          \* rules that fire at an hour
          External,       \* rules whose action needs a person
          Refs,           \* domain rows whose event the other rules listen for
          Workers,        \* concurrent deliveries
          Sweepers,       \* schedulers
          People,         \* who may confirm; each with one request at a time
          MaxRules,       \* policy: rules in a workspace
          MaxPerDay,      \* policy: runs of a rule in a day
          MaxDeliveries,  \* queue: attempts, or stalls, before a job has failed
          Lead,           \* policy: minutes between now and a planned post
          Stories,        \* where a behaviour starts: the rules the workspace
                          \* has not yet created (it deleted the others) and
                          \* the faults it has had (bound)
          MaxCycle,       \* bound on the arming cycles
          MaxHour,        \* bound on the due hours
          MaxTokens,      \* bound on the tokens issued for a run
          MaxFaults       \* bound on crashes, stalls and losses

ASSUME AutomationAssumption ==
  /\ Threshold \subseteq Rules
  /\ Timed \subseteq Rules \ Threshold
  /\ External \subseteq Rules \ (Threshold \cup Timed)
  /\ Refs \cap Rules = {}
  /\ Stories \subseteq [new: SUBSET Rules, faults: 0..MaxFaults]
  /\ MaxRules \in Nat /\ MaxPerDay \in Nat /\ MaxDeliveries \in Nat \ {0}
  /\ Lead \in Nat
  /\ MaxCycle \in Nat /\ MaxHour \in Nat /\ MaxTokens \in Nat /\ MaxFaults \in Nat

VARIABLES
  rule,     \* automation_rule: its status, and a threshold's memory
  able,     \* the rules whose creator holds the action's authority now
  metric,   \* where the watched metric of each threshold rule stands
  hour,     \* the number of the due hour the clock is in
  eval,     \* what each scheduler read of the threshold rule it evaluates
  event,    \* automation_event, by its dedupe key
  message,  \* the queue's memory of each event's job
  tries,    \* the attempts of each job that came to nothing
  worker,   \* the delivery each worker is in
  run,      \* automation_run.status, by rule and event
  acts,     \* how often each run's internal action was carried out
  sent,     \* how often each run's external action was carried out
  token,    \* confirmationTokenHash of each run: the live token, or 0
  issued,   \* the tokens issued for each run so far
  closed,   \* the runs whose confirmation window has closed
  desk,     \* the request each person is in
  faults

queueVars == <<message, tries, worker>>
proposalVars == <<token, issued, closed, desk>>
ruleVars == <<rule, able, metric, hour, eval>>
runVars == <<run, acts, sent>>
automationVars == <<ruleVars, event, queueVars, runVars, proposalVars, faults>>

None == "none"

\* An event is the domain row it is about, a threshold rule's arming cycle or a
\* timed rule's hour.
Keys == (Refs \X {0}) \cup (Threshold \X (0..MaxCycle)) \cup (Timed \X (0..MaxHour))

\* An event derived from a rule goes to that rule alone.
Addressed(k) == IF k[1] \in Refs THEN Rules \ (Threshold \cup Timed) ELSE {k[1]}

\* runIdempotencyKeyFor: one run for a rule and an event.
Runs == {n \in Rules \X Keys : n[1] \in Addressed(n[2])}

Sides == {"unknown", "below", "past"}

Outcomes == {"SKIPPED", "BLOCKED_BY_POLICY", "BLOCKED_BY_AUTHORIZATION",
             "AWAITING_CONFIRMATION", "SUCCEEDED", "FAILED"}

RunStatus == Outcomes \cup {None, "EXPIRED"}

Idle == [does |-> "idle"]

Init ==
  /\ \E story \in Stories :
       /\ rule = [r \in Rules |->
            [status |-> IF r \in story.new THEN "absent" ELSE "deleted",
             side |-> "unknown", cycle |-> 0]]
       /\ faults = story.faults
  /\ able = Rules
  /\ metric = [r \in Threshold |-> "unknown"]
  /\ hour = 0
  /\ eval = [s \in Sweepers |-> Idle]
  /\ event = [k \in Keys |-> None]
  /\ message = [k \in Keys |-> None]
  /\ tries = [k \in Keys |-> 0]
  /\ worker = [w \in Workers |-> Idle]
  /\ run = [n \in Runs |-> None]
  /\ acts = [n \in Runs |-> 0]
  /\ sent = [n \in Runs |-> 0]
  /\ token = [n \in Runs |-> 0]
  /\ issued = [n \in Runs |-> 0]
  /\ closed = {}
  /\ desk = [p \in People |-> Idle]

-----------------------------------------------------------------------------
(* Rules *)

Enabled(r) == rule[r].status = "enabled"
Existing == {r \in Rules : rule[r].status \in {"enabled", "disabled"}}

SetRuleStatus(r, s) ==
  /\ rule' = [rule EXCEPT ![r].status = s]
  /\ UNCHANGED <<able, metric, hour, eval, event, queueVars, runVars, proposalVars, faults>>

CreateRule(r) ==
  /\ rule[r].status = "absent"
  /\ r \in able
  /\ Cardinality(Existing) < MaxRules
  /\ \E s \in {"enabled", "disabled"} : SetRuleStatus(r, s)

\* Only a rule whose action the editor may perform is switched on.
UpdateRule(r) ==
  /\ r \in Existing
  /\ SetRuleStatus(r, IF Enabled(r) THEN "disabled" ELSE "enabled")

DeleteRule(r) ==
  /\ r \in Existing
  /\ SetRuleStatus(r, "deleted")

\* The creator leaves, loses the permission or the brand, or has it back.
\* Authority, hours, metrics and domain rows change only while a rule looks at
\* them (bounds the instance).
AuthorityChanges(r) ==
  /\ r \in Existing
  /\ able' = IF r \in able THEN able \ {r} ELSE able \cup {r}
  /\ UNCHANGED <<rule, metric, hour, eval, event, queueVars, runVars, proposalVars, faults>>

-----------------------------------------------------------------------------
(* Producers: every one writes its event ON CONFLICT DO NOTHING *)

RecordEvent(k) == event' = [event EXCEPT ![k] = IF @ = None THEN "recorded" ELSE @]

\* In the transaction that approves, schedules, publishes or ingests.
RecordDomain(ref) ==
  /\ Existing \cap Addressed(<<ref, 0>>) # {}
  /\ RecordEvent(<<ref, 0>>)
  /\ UNCHANGED <<ruleVars, queueVars, runVars, proposalVars, faults>>

\* A due hour begins; one that no sweep looked at is missed.
NextHour ==
  /\ Existing \cap Timed # {}
  /\ hour < MaxHour
  /\ hour' = hour + 1
  /\ UNCHANGED <<rule, able, metric, eval, event, queueVars, runVars, proposalVars, faults>>

ProduceTimed(r) ==
  /\ Enabled(r)
  /\ RecordEvent(<<r, hour>>)
  /\ UNCHANGED <<ruleVars, queueVars, runVars, proposalVars, faults>>

\* "unknown" is a window that could not be measured.
MetricMoves(r) ==
  /\ r \in Existing
  /\ \E m \in Sides \ {metric[r]} : metric' = [metric EXCEPT ![r] = m]
  /\ UNCHANGED <<rule, able, hour, eval, event, queueVars, runVars, proposalVars, faults>>

\* The live rule and the window are read; an unmeasured window and one on the
\* remembered side end the evaluation here.
EvaluateReads(s, r) ==
  /\ eval[s] = Idle
  /\ Enabled(r)
  /\ metric[r] \notin {"unknown", rule[r].side}
  /\ eval' = [eval EXCEPT ![s] = [does |-> "evaluate", rule |-> r, side |-> rule[r].side,
                                  cycle |-> rule[r].cycle, now |-> metric[r]]]
  /\ UNCHANGED <<rule, able, metric, hour, event, queueVars, runVars, proposalVars, faults>>

\* Mutant: the compare-and-swap leaves the cycle out.
UnmovedSide(e) == rule[e.rule].side = e.side

\* moveState: the remembered side and cycle are still the ones read.
Unmoved(e) == rule[e.rule].side = e.side /\ rule[e.rule].cycle = e.cycle

\* Going back re-arms, by advancing the cycle; only a crossing is an event, and
\* it commits with the side.
EvaluateWrites(s) ==
  LET e == eval[s]
      rearms == e.side = "past"
      fires == e.side = "below"
  IN
  /\ e # Idle
  /\ Unmoved(e)
  /\ rearms => e.cycle < MaxCycle
  /\ rule' = [rule EXCEPT ![e.rule].side = e.now,
                          ![e.rule].cycle = IF rearms THEN e.cycle + 1 ELSE e.cycle]
  /\ IF fires THEN RecordEvent(<<e.rule, e.cycle>>) ELSE UNCHANGED event
  /\ eval' = [eval EXCEPT ![s] = Idle]
  /\ UNCHANGED <<able, metric, hour, queueVars, runVars, proposalVars, faults>>

\* The race is lost, the observation is gone, or the transaction fails.
EvaluateAborts(s) ==
  /\ eval[s] # Idle
  /\ eval' = [eval EXCEPT ![s] = Idle]
  /\ UNCHANGED <<rule, able, metric, hour, event, queueVars, runVars, proposalVars, faults>>
-----------------------------------------------------------------------------
(* The queue *)

\* Adding a job the queue still remembers does nothing.
Dispatch(k) ==
  /\ event[k] = "recorded"
  /\ message[k] = None
  /\ message' = [message EXCEPT ![k] = "waiting"]
  /\ tries' = [tries EXCEPT ![k] = 0]
  /\ UNCHANGED <<worker, ruleVars, event, runVars, proposalVars, faults>>

\* A bounded number of completed and failed jobs is remembered.
Evict(k) ==
  /\ message[k] = "kept"
  /\ message' = [message EXCEPT ![k] = None]
  /\ UNCHANGED <<tries, worker, ruleVars, event, runVars, proposalVars, faults>>

\* Redis restarts empty: a delivery under way goes on without its job.
QueueLoses ==
  /\ faults < MaxFaults
  /\ faults' = faults + 1
  /\ message' = [k \in Keys |-> None]
  /\ worker' = [w \in Workers |-> IF worker[w] = Idle THEN Idle
                                  ELSE [worker[w] EXCEPT !.holds = FALSE]]
  /\ UNCHANGED <<tries, ruleVars, event, runVars, proposalVars>>

\* The job goes back for another attempt, or has had its last one.
GoesBack(k) ==
  /\ tries' = [tries EXCEPT ![k] = @ + 1]
  /\ message' = [message EXCEPT ![k] =
       IF tries[k] + 1 < MaxDeliveries THEN "waiting" ELSE "kept"]

\* The lock on the job runs out while its worker goes on.
Stalls(w) ==
  /\ faults < MaxFaults
  /\ worker[w] # Idle
  /\ worker[w].holds
  /\ faults' = faults + 1
  /\ GoesBack(worker[w].key)
  /\ worker' = [worker EXCEPT ![w].holds = FALSE]
  /\ UNCHANGED <<ruleVars, event, runVars, proposalVars>>

\* The worker dies or its transaction fails: nothing of it is left.
Fails(w) ==
  /\ faults < MaxFaults
  /\ worker[w] # Idle
  /\ faults' = faults + 1
  /\ IF worker[w].holds THEN GoesBack(worker[w].key) ELSE UNCHANGED <<message, tries>>
  /\ worker' = [worker EXCEPT ![w] = Idle]
  /\ UNCHANGED <<ruleVars, event, runVars, proposalVars>>

-----------------------------------------------------------------------------
(* A delivery: AutomationEngine.deliver in processAutomationJob *)

\* The rules are read once; done holds the outcome of each new run.
Take(w, k) ==
  /\ worker[w] = Idle
  /\ message[k] = "waiting"
  /\ message' = [message EXCEPT ![k] = "active"]
  /\ worker' = [worker EXCEPT ![w] =
       [does |-> "deliver", key |-> k, holds |-> TRUE,
        todo |-> {r \in Addressed(k) : Enabled(r)}, done |-> [r \in Rules |-> None]]]
  /\ UNCHANGED <<tries, ruleVars, event, runVars, proposalVars, faults>>

Counted(r) == Cardinality({n \in Runs : n[1] = r /\ run[n] \notin
                                          {None, "SKIPPED", "BLOCKED_BY_POLICY"}})

\* Mutant: an action that throws leaves the run as it was inserted.
PossibleRunning(r) == IF r \in External THEN {"SKIPPED", "AWAITING_CONFIRMATION"}
                      ELSE {"SKIPPED", "SUCCEEDED", "RUNNING"}

\* What a new run of r may come to: the conditions may not hold, the ceiling
\* counts the committed runs of the last day, the authority is read now.
Possible(r) ==
  {"SKIPPED"}
  \cup (IF MaxPerDay > 0 /\ Counted(r) >= MaxPerDay THEN {"BLOCKED_BY_POLICY"} ELSE {})
  \cup (IF r \notin able THEN {"BLOCKED_BY_AUTHORIZATION"}
        ELSE IF r \in External THEN {"AWAITING_CONFIRMATION"}
        ELSE {"SUCCEEDED", "FAILED"})

\* Mutant: only the read before the insert looks for the key.
KeyUnread(w, n) == TRUE

\* INSERT ... ON CONFLICT DO NOTHING waits for the open transaction that has
\* inserted the same key.
KeyFree(w, n) == \A v \in Workers \ {w} :
  worker[v] # Idle => worker[v].key # n[2] \/ worker[v].done[n[1]] = None

\* One rule, one event: a run that exists is left alone.
Evaluate(w, r) ==
  LET n == <<r, worker[w].key>> IN
  /\ worker[w] # Idle
  /\ r \in worker[w].todo
  /\ KeyFree(w, n)
  /\ \E o \in IF run[n] = None THEN Possible(r) ELSE {None} :
       worker' = [worker EXCEPT ![w].todo = @ \ {r}, ![w].done[r] = o]
  /\ UNCHANGED <<message, tries, ruleVars, event, runVars, proposalVars, faults>>

\* Runs, actions and the outbox row commit together; a job whose lock is gone
\* is not completed.
Deliver(w) ==
  LET k == worker[w].key
      new == {n \in Runs : n[2] = k /\ worker[w].done[n[1]] # None}
  IN
  /\ worker[w] # Idle
  /\ worker[w].todo = {}
  /\ run' = [n \in Runs |-> IF n \in new THEN worker[w].done[n[1]] ELSE run[n]]
  /\ acts' = [n \in Runs |-> IF n \in new /\ worker[w].done[n[1]] = "SUCCEEDED"
                             THEN acts[n] + 1 ELSE acts[n]]
  /\ event' = [event EXCEPT ![k] = "delivered"]
  /\ message' = [message EXCEPT ![k] = IF worker[w].holds THEN "kept" ELSE @]
  /\ worker' = [worker EXCEPT ![w] = Idle]
  /\ UNCHANGED <<tries, ruleVars, sent, proposalVars, faults>>

-----------------------------------------------------------------------------
(* Proposals: a person asks for a token and spends it *)

Awaits(n) == run[n] = "AWAITING_CONFIRMATION"

\* The row a claimed confirmation has updated and not yet committed.
Locked(n) == \E p \in People : desk[p].does = "publish" /\ desk[p].run = n

Moves(p, does, n, t) == desk' = [desk EXCEPT ![p] = [does |-> does, run |-> n, token |-> t]]

\* Asking reads the digest in flight, and the clock.
AskReads(p, n) ==
  /\ desk[p] = Idle
  /\ Awaits(n) /\ n \notin closed
  /\ Moves(p, "ask", n, token[n])
  /\ UNCHANGED <<token, issued, closed, ruleVars, event, queueVars, runVars, faults>>

\* reissueRunConfirmation: a compare-and-swap on the digest that was read.
Issue(p) ==
  LET n == desk[p].run IN
  /\ desk[p].does = "ask"
  /\ Awaits(n) /\ ~Locked(n) /\ token[n] = desk[p].token
  /\ issued[n] < MaxTokens
  /\ issued' = [issued EXCEPT ![n] = @ + 1]
  /\ token' = [token EXCEPT ![n] = issued[n] + 1]
  /\ Moves(p, "hold", n, issued[n] + 1)
  /\ UNCHANGED <<closed, ruleVars, event, queueVars, runVars, faults>>

\* confirmRun reads the clock before it claims.
ConfirmReads(p) ==
  /\ desk[p].does = "hold"
  /\ desk[p].run \notin closed
  /\ Moves(p, "confirm", desk[p].run, desk[p].token)
  /\ UNCHANGED <<token, issued, closed, ruleVars, event, queueVars, runVars, faults>>

\* One conditional update with every guard in its WHERE.
Claimable(n, t) == Awaits(n) /\ ~Locked(n) /\ token[n] = t

Claim(p) ==
  /\ desk[p].does = "confirm"
  /\ Claimable(desk[p].run, desk[p].token)
  /\ Moves(p, "publish", desk[p].run, desk[p].token)
  /\ UNCHANGED <<token, issued, closed, ruleVars, event, queueVars, runVars, faults>>

\* publishNow plans the post for the minute it is in: `second` seconds ago.
TooSoon(second) == 0 - second < 60 * Lead

\* The item is gone, the calendar refuses, or the post is handed over; the
\* outcome commits with the claim.
ConfirmCommits(p) ==
  LET n == desk[p].run IN
  /\ desk[p].does = "publish"
  /\ \E o \in {"BLOCKED_BY_POLICY", "FAILED"}
             \cup {"SUCCEEDED" : second \in {x \in 0..59 : ~TooSoon(x)}} :
       /\ run' = [run EXCEPT ![n] = o]
       /\ sent' = [sent EXCEPT ![n] = IF o = "SUCCEEDED" THEN @ + 1 ELSE @]
  /\ desk' = [desk EXCEPT ![p] = Idle]
  /\ UNCHANGED <<acts, token, issued, closed, ruleVars, event, queueVars, faults>>

\* The transaction fails and leaves the proposal as it was: the token still is
\* the live one.
Rollback(p) ==
  /\ desk[p].does = "publish"
  /\ Moves(p, "hold", desk[p].run, desk[p].token)
  /\ UNCHANGED <<token, issued, closed, ruleVars, event, queueVars, runVars, faults>>

\* A refusal, or a person who does not come back.
Leaves(p) ==
  /\ desk[p].does \in {"ask", "hold", "confirm"}
  /\ desk' = [desk EXCEPT ![p] = Idle]
  /\ UNCHANGED <<token, issued, closed, ruleVars, event, queueVars, runVars, faults>>

WindowCloses(n) ==
  /\ Awaits(n) /\ n \notin closed
  /\ closed' = closed \cup {n}
  /\ UNCHANGED <<token, issued, desk, ruleVars, event, queueVars, runVars, faults>>

\* Mutant: the sweep looks for a token, as if every proposal had one.
ExpirableIssued(n) == n \in closed /\ Awaits(n) /\ ~Locked(n) /\ token[n] # 0

\* Conditional on the status and the window; waits for a claim's row lock.
Expirable(n) == n \in closed /\ Awaits(n) /\ ~Locked(n)

\* #expireAutomationProposals: the digest is cleared with the status.
Expire(n) ==
  /\ Expirable(n)
  /\ run' = [run EXCEPT ![n] = "EXPIRED"]
  /\ token' = [token EXCEPT ![n] = 0]
  /\ UNCHANGED <<acts, sent, issued, closed, desk, ruleVars, event, queueVars, faults>>

-----------------------------------------------------------------------------

Author(r) ==
  \/ CreateRule(r)
  \/ UpdateRule(r)
  \/ DeleteRule(r)
  \/ AuthorityChanges(r)

Produce ==
  \/ \E ref \in Refs : RecordDomain(ref)
  \/ \E r \in Timed : ProduceTimed(r)
  \/ NextHour
  \/ \E r \in Threshold : MetricMoves(r)
  \/ \E s \in Sweepers :
       \/ \E r \in Threshold : EvaluateReads(s, r)
       \/ EvaluateWrites(s)
       \/ EvaluateAborts(s)

Work(w) ==
  \/ \E k \in Keys : Take(w, k)
  \/ \E r \in Rules : Evaluate(w, r)
  \/ Deliver(w)
  \/ Stalls(w)
  \/ Fails(w)

Confirm(p) ==
  \/ \E n \in Runs : AskReads(p, n)
  \/ Issue(p)
  \/ ConfirmReads(p)
  \/ Claim(p)
  \/ ConfirmCommits(p)
  \/ Rollback(p)
  \/ Leaves(p)

AutomationNext ==
  \/ \E r \in Rules : Author(r)
  \/ Produce
  \/ \E k \in Keys : Dispatch(k) \/ Evict(k)
  \/ QueueLoses
  \/ \E w \in Workers : Work(w)
  \/ \E p \in People : Confirm(p)
  \/ \E n \in Runs : WindowCloses(n) \/ Expire(n)

\* The dispatch and the expiry sweep run every minute, workers serve the queue,
\* a request ends and time passes; none is fair to any one event or run.
AutomationFairness ==
  /\ WF_automationVars(\E k \in Keys : Dispatch(k))
  /\ WF_automationVars(\E w \in Workers, k \in Keys : Take(w, k))
  /\ WF_automationVars(\E w \in Workers : Deliver(w) \/ \E r \in Rules : Evaluate(w, r))
  /\ WF_automationVars(\E p \in People : ConfirmCommits(p) \/ Rollback(p))
  /\ WF_automationVars(\E n \in Runs : WindowCloses(n))
  /\ WF_automationVars(\E n \in Runs : Expire(n))

AutomationSpec == Init /\ [][AutomationNext]_automationVars /\ AutomationFairness

-----------------------------------------------------------------------------
(* Properties *)

\* Every row, message, delivery and request has its type.
TypeOK ==
  /\ rule \in [Rules -> [status: {"absent", "enabled", "disabled", "deleted"},
                         side: Sides, cycle: 0..MaxCycle]]
  /\ able \subseteq Rules
  /\ metric \in [Threshold -> Sides]
  /\ hour \in 0..MaxHour
  /\ eval \in [Sweepers -> {Idle} \cup [does: {"evaluate"}, rule: Threshold, side: Sides,
                                        cycle: 0..MaxCycle, now: {"below", "past"}]]
  /\ event \in [Keys -> {None, "recorded", "delivered"}]
  /\ message \in [Keys -> {None, "waiting", "active", "kept"}]
  /\ tries \in [Keys -> Nat]
  /\ worker \in [Workers -> {Idle} \cup
       [does: {"deliver"}, key: Keys, holds: BOOLEAN, todo: SUBSET Rules,
        done: [Rules -> Outcomes \cup {None}]]]
  /\ run \in [Runs -> RunStatus]
  /\ acts \in [Runs -> Nat] /\ sent \in [Runs -> Nat]
  /\ token \in [Runs -> Nat] /\ issued \in [Runs -> Nat]
  /\ closed \subseteq Runs
  /\ desk \in [People -> {Idle} \cup
       [does: {"ask", "hold", "confirm", "publish"}, run: Runs, token: Nat]]
  /\ faults \in 0..MaxFaults

\* A run says what was done: its action was carried out once if it succeeded
\* and never otherwise, however often its event was delivered, whoever confirmed
\* and whatever the expiry sweep did meanwhile; and of two people who asked, only
\* the one who holds the last token spends it.
OutcomeIsTrue ==
  /\ \A n \in Runs :
       /\ acts[n] = IF run[n] = "SUCCEEDED" /\ n[1] \notin External THEN 1 ELSE 0
       /\ sent[n] = IF run[n] = "SUCCEEDED" /\ n[1] \in External THEN 1 ELSE 0
  /\ \A p \in People :
       desk[p].does = "publish" => desk[p].token = issued[desk[p].run]

\* A rule's memory moves from below the line to past it exactly when a new
\* event for it enters the outbox: no crossing is announced twice or swallowed,
\* whichever schedulers raced.
CrossingIsNews ==
  [][\A r \in Threshold, c \in 0..MaxCycle :
       (rule[r].side = "below" /\ rule'[r].side = "past" /\ rule[r].cycle = c)
         <=> (event[<<r, c>>] = None /\ event'[<<r, c>>] = "recorded")
    ]_automationVars

\* Again and again the outbox holds no event but those whose job the queue
\* gave up, and no proposal waits, whether or not anybody asked for a token.
EverythingEnds ==
  []<>( /\ \A k \in Keys : event[k] = "recorded" => tries[k] >= MaxDeliveries
        /\ \A n \in Runs : ~Awaits(n) )
=============================================================================
