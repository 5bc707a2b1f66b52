--------------------------- MODULE AutomationProofs ---------------------------
(***************************************************************************)
(* What the automation engine guarantees of every run and every crossing,  *)
(* for any rules, workers, schedulers and people, any limits and any       *)
(* number of faults.                                                       *)
(*                                                                         *)
(* The invariant has one part per table that two actors write.             *)
(*   Typed    every row has its type; what a worker is about to write is   *)
(*            an outcome its rule may have                                 *)
(*   Queued   what the queue or a worker knows of was recorded             *)
(*   Armed    the event of the present arming cycle is unwritten until the *)
(*            rule is past the line, those of later cycles always          *)
(*   Fresh    a run that a worker holds is not there yet, and one worker   *)
(*            holds it                                                     *)
(*   Told     the outcome of a run counts its actions                      *)
(*   Spent    a token is the last one issued; who publishes holds the row  *)
(***************************************************************************)
EXTENDS AutomationRun, TLAPS

Deliveries == [does: {"deliver"}, key: Keys, holds: BOOLEAN, todo: SUBSET Rules,
               done: [Rules -> Outcomes \cup {None}]]

Requests == [does: {"ask", "hold", "confirm", "publish"}, run: Runs, token: Nat]

Evaluations == [does: {"evaluate"}, rule: Threshold, side: Sides, cycle: 0..MaxCycle,
                now: {"below", "past"}]

RuleRows == [status: {"absent", "enabled", "disabled", "deleted"}, side: Sides,
             cycle: 0..MaxCycle]

\* The four groups of tables, typed.
RulesTyped ==
  /\ rule \in [Rules -> RuleRows]
  /\ able \subseteq Rules
  /\ metric \in [Threshold -> Sides]
  /\ hour \in 0..MaxHour
  /\ eval \in [Sweepers -> {Idle} \cup Evaluations]

QueueTyped ==
  /\ event \in [Keys -> {None, "recorded", "delivered"}]
  /\ message \in [Keys -> {None, "waiting", "active", "kept"}]
  /\ tries \in [Keys -> Nat]
  /\ worker \in [Workers -> {Idle} \cup Deliveries]
  /\ faults \in 0..MaxFaults

RunsTyped ==
  /\ run \in [Runs -> RunStatus]
  /\ acts \in [Runs -> Nat] /\ sent \in [Runs -> Nat]

ProposalsTyped ==
  /\ token \in [Runs -> Nat] /\ issued \in [Runs -> Nat]
  /\ closed \subseteq Runs
  /\ desk \in [People -> {Idle} \cup Requests]

Typed == RulesTyped /\ QueueTyped /\ RunsTyped /\ ProposalsTyped

Queued ==
  /\ \A k \in Keys : message[k] # None => event[k] # None
  /\ \A w \in Workers : worker[w] # Idle => event[worker[w].key] # None

Armed ==
  /\ \A r \in Threshold, c \in 0..MaxCycle :
       c > rule[r].cycle \/ (c = rule[r].cycle /\ rule[r].side # "past")
         => event[<<r, c>>] = None
  /\ \A s \in Sweepers : eval[s] # Idle => eval[s].side # eval[s].now

\* The run of rule r that worker w has carried out and not committed.
Bears(w, r) == worker[w] # Idle /\ worker[w].done[r] # None

Fresh ==
  /\ \A w \in Workers : worker[w] # Idle => worker[w].todo \subseteq Addressed(worker[w].key)
  /\ \A w \in Workers, r \in Rules : Bears(w, r) =>
       /\ <<r, worker[w].key>> \in Runs
       /\ run[<<r, worker[w].key>>] = None
       /\ worker[w].done[r] = "SUCCEEDED" => r \notin External
       /\ worker[w].done[r] = "AWAITING_CONFIRMATION" => r \in External
  /\ \A v, w \in Workers, r \in Rules :
       Bears(v, r) /\ Bears(w, r) /\ worker[v].key = worker[w].key => v = w

Told ==
  \A n \in Runs :
    /\ acts[n] = IF run[n] = "SUCCEEDED" /\ n[1] \notin External THEN 1 ELSE 0
    /\ sent[n] = IF run[n] = "SUCCEEDED" /\ n[1] \in External THEN 1 ELSE 0

OnlyExternalAwait == \A n \in Runs : Awaits(n) => n[1] \in External

Publishes(p) == desk[p].does = "publish"

Spent ==
  /\ \A n \in Runs : token[n] # 0 => token[n] = issued[n]
  /\ \A p \in People : desk[p].does \in {"hold", "confirm", "publish"} => desk[p].token # 0
  /\ \A p \in People : Publishes(p) =>
       Awaits(desk[p].run) /\ token[desk[p].run] = desk[p].token
  /\ \A p, q \in People :
       Publishes(p) /\ Publishes(q) /\ desk[p].run = desk[q].run => p = q

AutoInv == Typed /\ Queued /\ Armed /\ Fresh /\ Told /\ OnlyExternalAwait /\ Spent

-----------------------------------------------------------------------------

LEMMA DeliveriesAreBusy ==
  ASSUME NEW d \in Deliveries
  PROVE  d # Idle
<1>1. d.does = "deliver" /\ Idle.does = "idle"
  BY DEF Deliveries, Idle
<1> QED
  BY <1>1

LEMMA EvaluationsAreBusy ==
  ASSUME NEW d \in Evaluations
  PROVE  d # Idle
<1>1. d.does = "evaluate" /\ Idle.does = "idle"
  BY DEF Evaluations, Idle
<1> QED
  BY <1>1

LEMMA RunIsAPair ==
  ASSUME NEW n \in Runs
  PROVE  n = <<n[1], n[2]>> /\ n[1] \in Rules /\ n[2] \in Keys
BY DEF Runs

\* A part of the invariant is kept by a step that leaves its tables alone.
LEMMA Untouched ==
  ASSUME AutoInv
  PROVE  /\ UNCHANGED ruleVars => RulesTyped'
         /\ UNCHANGED <<event, queueVars, faults>> => QueueTyped'
         /\ UNCHANGED runVars => RunsTyped'
         /\ UNCHANGED proposalVars => ProposalsTyped'
         /\ UNCHANGED <<event, message, worker>> => Queued'
         /\ UNCHANGED <<rule, event, eval>> => Armed'
         /\ UNCHANGED <<run, worker>> => Fresh'
         /\ UNCHANGED runVars => Told' /\ OnlyExternalAwait'
         /\ UNCHANGED <<run, token, issued, desk>> => Spent'
<1>1. UNCHANGED ruleVars => RulesTyped'
  BY DEF AutoInv, Typed, RulesTyped, ruleVars
<1>2. UNCHANGED <<event, queueVars, faults>> => QueueTyped'
  BY DEF AutoInv, Typed, QueueTyped, queueVars
<1>3. UNCHANGED runVars => RunsTyped'
  BY DEF AutoInv, Typed, RunsTyped, runVars
<1>4. UNCHANGED proposalVars => ProposalsTyped'
  BY DEF AutoInv, Typed, ProposalsTyped, proposalVars
<1>5. UNCHANGED <<event, message, worker>> => Queued'
  BY DEF AutoInv, Queued
<1>6. UNCHANGED <<rule, event, eval>> => Armed'
  BY DEF AutoInv, Armed
<1>7. UNCHANGED <<run, worker>> => Fresh'
  BY DEF AutoInv, Fresh, Bears
<1>8. UNCHANGED runVars => Told' /\ OnlyExternalAwait'
  BY DEF AutoInv, Told, OnlyExternalAwait, Awaits, runVars
<1>9. UNCHANGED <<run, token, issued, desk>> => Spent'
  BY DEF AutoInv, Spent, Awaits, Publishes
<1> QED
  BY <1>1, <1>2, <1>3, <1>4, <1>5, <1>6, <1>7, <1>8, <1>9

-----------------------------------------------------------------------------
(* Rules and producers *)

LEMMA AuthorKeeps ==
  ASSUME AutomationAssumption, AutoInv, NEW r \in Rules, Author(r)
  PROVE  AutoInv'
<1>1. UNCHANGED <<event, queueVars, runVars, proposalVars, faults>>
  BY DEF Author, CreateRule, UpdateRule, DeleteRule, AuthorityChanges, SetRuleStatus
<1>2. QueueTyped' /\ RunsTyped' /\ ProposalsTyped' /\ Queued' /\ Fresh' /\ Told'
        /\ OnlyExternalAwait' /\ Spent'
  BY <1>1, Untouched DEF queueVars, runVars, proposalVars
<1>3. ASSUME NEW s \in {"absent", "enabled", "disabled", "deleted"}, SetRuleStatus(r, s)
      PROVE  RulesTyped' /\ Armed'
  <2>1. rule[r] \in RuleRows /\ rule' = [rule EXCEPT ![r] = [rule[r] EXCEPT !.status = s]]
    BY <1>3 DEF SetRuleStatus, AutoInv, Typed, RulesTyped
  <2>2. [rule[r] EXCEPT !.status = s] \in RuleRows
        /\ [rule[r] EXCEPT !.status = s].side = rule[r].side
        /\ [rule[r] EXCEPT !.status = s].cycle = rule[r].cycle
    BY <2>1 DEF RuleRows
  <2>3. RulesTyped'
    BY <1>3, <2>1, <2>2 DEF SetRuleStatus, AutoInv, Typed, RulesTyped
  <2>4. \A q \in Rules : rule'[q].side = rule[q].side /\ rule'[q].cycle = rule[q].cycle
    BY <2>1, <2>2 DEF AutoInv, Typed, RulesTyped
  <2>5. Armed'
    BY <1>1, <1>3, <2>4 DEF SetRuleStatus, AutoInv, Armed, AutomationAssumption
  <2> QED
    BY <2>3, <2>5
<1>4. ASSUME AuthorityChanges(r)
      PROVE  RulesTyped' /\ Armed'
  BY <1>4 DEF AuthorityChanges, AutoInv, Typed, RulesTyped, Armed
<1>5. RulesTyped' /\ Armed'
  BY <1>3, <1>4 DEF Author, CreateRule, UpdateRule, DeleteRule
<1> QED
  BY <1>2, <1>5 DEF AutoInv, Typed

\* An event that is written is not taken back, and what is not a threshold
\* rule's does not touch the arming.
LEMMA RecordKeeps ==
  ASSUME AutomationAssumption, AutoInv, NEW k \in Keys, k[1] \notin Threshold, RecordEvent(k),
         UNCHANGED <<rule, eval, queueVars, faults>>
  PROVE  QueueTyped' /\ Queued' /\ Armed'
<1>1. QueueTyped'
  BY DEF RecordEvent, AutoInv, Typed, QueueTyped, queueVars
<1>2. \A l \in Keys : event[l] # None => event'[l] # None
  BY DEF RecordEvent, AutoInv, Typed, QueueTyped, None
<1>3. Queued'
  BY <1>2, DeliveriesAreBusy
  DEF AutoInv, Queued, Typed, QueueTyped, queueVars, Deliveries
<1>4. \A r \in Threshold, c \in 0..MaxCycle : event'[<<r, c>>] = event[<<r, c>>]
  BY DEF RecordEvent, AutoInv, Typed, QueueTyped
<1>5. Armed'
  BY <1>4 DEF AutoInv, Armed
<1> QED
  BY <1>1, <1>3, <1>5

\* A crossing is written under the cycle that was read, which nobody moved.
LEMMA EvaluateKeeps ==
  ASSUME AutomationAssumption, AutoInv, NEW s \in Sweepers, EvaluateWrites(s)
  PROVE  RulesTyped' /\ QueueTyped' /\ Queued' /\ Armed'
<1> DEFINE e == eval[s]
           c == IF e.side = "past" THEN e.cycle + 1 ELSE e.cycle
           new == [rule[e.rule] EXCEPT !.side = e.now, !.cycle = c]
<1>1. e \in Evaluations /\ e.rule \in Threshold /\ e.rule \in Rules
  BY DEF EvaluateWrites, AutoInv, Typed, RulesTyped, Evaluations, AutomationAssumption
<1>2. rule[e.rule] \in RuleRows /\ e.cycle \in 0..MaxCycle /\ e.now \in {"below", "past"}
      /\ e.side \in Sides /\ MaxCycle \in Nat
  BY <1>1 DEF AutoInv, Typed, RulesTyped, Evaluations, AutomationAssumption
<1>3. c \in 0..MaxCycle /\ rule[e.rule].side = e.side /\ rule[e.rule].cycle = e.cycle
  BY <1>2 DEF EvaluateWrites, Unmoved
<1>4. rule' = [rule EXCEPT ![e.rule] = new]
  BY <1>1 DEF EvaluateWrites, AutoInv, Typed, RulesTyped
<1>5. new \in RuleRows /\ new.side = e.now /\ new.cycle = c
  BY <1>2, <1>3 DEF RuleRows, Sides
<1>6. RulesTyped'
  <2> HIDE DEF new
  <2>1. rule' \in [Rules -> RuleRows]
    BY <1>1, <1>4, <1>5 DEF AutoInv, Typed, RulesTyped
  <2>2. eval' \in [Sweepers -> {Idle} \cup Evaluations]
    BY DEF EvaluateWrites, AutoInv, Typed, RulesTyped
  <2>3. UNCHANGED <<able, metric, hour>>
    BY DEF EvaluateWrites
  <2> QED
    BY <2>1, <2>2, <2>3 DEF AutoInv, Typed, RulesTyped
<1>7. <<e.rule, e.cycle>> \in Keys
  BY <1>1, <1>2 DEF Keys
<1>8. /\ QueueTyped'
      /\ \A l \in Keys : event[l] # None => event'[l] # None
      /\ \A l \in Keys : event'[l] # event[l] => e.side = "below" /\ l = <<e.rule, e.cycle>>
  BY <1>7 DEF EvaluateWrites, RecordEvent, AutoInv, Typed, QueueTyped, None, queueVars
<1>9. Queued'
  BY <1>8, DeliveriesAreBusy
  DEF EvaluateWrites, AutoInv, Queued, Typed, QueueTyped, queueVars, Deliveries
<1>10. Armed'
  <2>4. \A t \in Sweepers : eval'[t] # Idle => eval'[t].side # eval'[t].now
    BY DEF EvaluateWrites, AutoInv, Typed, RulesTyped, Armed
  <2> SUFFICES ASSUME NEW r \in Threshold, NEW d \in 0..MaxCycle,
                      d > rule'[r].cycle \/ (d = rule'[r].cycle /\ rule'[r].side # "past")
               PROVE  event'[<<r, d>>] = None
    BY <2>4 DEF Armed
  <2>1. <<r, d>> \in Keys /\ r \in Rules
    BY DEF Keys, AutomationAssumption
  <2>2. CASE r # e.rule
    <3>1. rule'[r] = rule[r]
      BY <1>4, <2>1, <2>2 DEF AutoInv, Typed, RulesTyped
    <3>2. event[<<r, d>>] = None
      BY <3>1 DEF AutoInv, Armed
    <3> QED
      BY <1>8, <2>1, <2>2, <3>2
  <2>3. CASE r = e.rule
    <3>1. rule'[r].cycle = c /\ rule'[r].side = e.now
      BY <1>4, <1>5, <2>1, <2>3 DEF AutoInv, Typed, RulesTyped
    <3>2. e.side # e.now
      BY DEF EvaluateWrites, AutoInv, Armed
    <3> QED
      BY <1>2, <1>3, <1>8, <2>1, <2>3, <3>1, <3>2 DEF AutoInv, Armed, Sides
  <2> QED
    BY <2>2, <2>3
<1> QED
  BY <1>6, <1>8, <1>9, <1>10

LEMMA ProduceKeeps ==
  ASSUME AutomationAssumption, AutoInv, Produce
  PROVE  AutoInv'
<1>1. UNCHANGED <<queueVars, runVars, proposalVars, faults>>
  BY DEF Produce, RecordDomain, ProduceTimed, NextHour, MetricMoves, EvaluateReads,
         EvaluateWrites, EvaluateAborts
<1>2. RunsTyped' /\ ProposalsTyped' /\ Fresh' /\ Told' /\ OnlyExternalAwait' /\ Spent'
  BY <1>1, Untouched DEF queueVars, runVars, proposalVars
<1>3. ASSUME NEW ref \in Refs, RecordDomain(ref)
      PROVE  RulesTyped' /\ QueueTyped' /\ Queued' /\ Armed'
  <2>1. <<ref, 0>> \in Keys /\ <<ref, 0>>[1] \notin Threshold
    BY DEF Keys, AutomationAssumption
  <2> QED
    BY <1>3, <2>1, RecordKeeps, Untouched DEF RecordDomain, ruleVars
<1>4. ASSUME NEW r \in Timed, ProduceTimed(r)
      PROVE  RulesTyped' /\ QueueTyped' /\ Queued' /\ Armed'
  <2>1. <<r, hour>> \in Keys /\ <<r, hour>>[1] \notin Threshold
    BY DEF Keys, AutomationAssumption, AutoInv, Typed, RulesTyped
  <2> QED
    BY <1>4, <2>1, RecordKeeps, Untouched DEF ProduceTimed, ruleVars
<1>5. ASSUME NextHour
      PROVE  RulesTyped' /\ QueueTyped' /\ Queued' /\ Armed'
  <2>1. RulesTyped'
    BY <1>5 DEF NextHour, AutoInv, Typed, RulesTyped, AutomationAssumption
  <2> QED
    BY <1>5, <2>1, Untouched DEF NextHour, queueVars
<1>6. ASSUME NEW r \in Threshold, MetricMoves(r)
      PROVE  RulesTyped' /\ QueueTyped' /\ Queued' /\ Armed'
  <2>1. RulesTyped'
    BY <1>6 DEF MetricMoves, AutoInv, Typed, RulesTyped
  <2> QED
    BY <1>6, <2>1, Untouched DEF MetricMoves, queueVars
<1>7. ASSUME NEW s \in Sweepers, NEW r \in Threshold, EvaluateReads(s, r)
      PROVE  RulesTyped' /\ QueueTyped' /\ Queued' /\ Armed'
  <2> DEFINE e == [does |-> "evaluate", rule |-> r, side |-> rule[r].side,
                   cycle |-> rule[r].cycle, now |-> metric[r]]
  <2>1. r \in Rules /\ rule[r] \in RuleRows /\ metric[r] \in {"below", "past"}
    BY <1>7 DEF EvaluateReads, AutoInv, Typed, RulesTyped, AutomationAssumption, Sides
  <2>2. e \in Evaluations /\ e.side # e.now
    BY <1>7, <2>1 DEF Evaluations, RuleRows, EvaluateReads
  <2>3. eval' = [eval EXCEPT ![s] = e]
    BY <1>7 DEF EvaluateReads
  <2>4. RulesTyped'
    BY <1>7, <2>2, <2>3 DEF EvaluateReads, AutoInv, Typed, RulesTyped
  <2>5. Armed'
    BY <1>7, <2>2, <2>3 DEF EvaluateReads, AutoInv, Armed, Typed, RulesTyped
  <2> QED
    BY <1>7, <2>4, <2>5, Untouched DEF EvaluateReads, queueVars
<1>8. ASSUME NEW s \in Sweepers, EvaluateAborts(s)
      PROVE  RulesTyped' /\ QueueTyped' /\ Queued' /\ Armed'
  <2>1. RulesTyped'
    BY <1>8 DEF EvaluateAborts, AutoInv, Typed, RulesTyped
  <2>2. Armed'
    BY <1>8 DEF EvaluateAborts, AutoInv, Typed, RulesTyped, Armed
  <2> QED
    BY <1>8, <2>1, <2>2, Untouched DEF EvaluateAborts, queueVars
<1>9. RulesTyped' /\ QueueTyped' /\ Queued' /\ Armed'
  BY <1>3, <1>4, <1>5, <1>6, <1>7, <1>8, EvaluateKeeps DEF Produce
<1> QED
  BY <1>2, <1>9 DEF AutoInv, Typed

-----------------------------------------------------------------------------
(* The queue and its workers *)

\* Deliveries end, begin with nothing done, or go on as they were.
LEMMA DeliveriesGoOn ==
  ASSUME AutoInv, UNCHANGED run, NEW k \in Keys,
         \A w \in Workers :
           \/ worker'[w] = Idle
           \/ /\ worker[w] # Idle /\ worker'[w].key = worker[w].key
              /\ worker'[w].todo = worker[w].todo /\ worker'[w].done = worker[w].done
           \/ /\ worker'[w].key = k /\ worker'[w].todo \subseteq Addressed(k)
              /\ \A r \in Rules : worker'[w].done[r] = None
  PROVE  Fresh'
<1>1. \A w \in Workers : worker'[w] # Idle => worker'[w].todo \subseteq Addressed(worker'[w].key)
  BY DEF AutoInv, Fresh
<1>2. \A w \in Workers, r \in Rules :
        Bears(w, r)' => Bears(w, r) /\ worker'[w].key = worker[w].key
                          /\ worker'[w].done = worker[w].done
  BY DEF Bears
<1>3. \A w \in Workers, r \in Rules : Bears(w, r)' =>
       /\ <<r, worker'[w].key>> \in Runs
       /\ run'[<<r, worker'[w].key>>] = None
       /\ worker'[w].done[r] = "SUCCEEDED" => r \notin External
       /\ worker'[w].done[r] = "AWAITING_CONFIRMATION" => r \in External
  BY <1>2 DEF AutoInv, Fresh
<1>4. \A v, w \in Workers, r \in Rules :
       Bears(v, r)' /\ Bears(w, r)' /\ worker'[v].key = worker'[w].key => v = w
  BY <1>2 DEF AutoInv, Fresh
<1> QED
  BY <1>1, <1>3, <1>4 DEF Fresh

\* What a step of the queue has to show; the other parts are not its business.
QueueKept == QueueTyped' /\ Queued' /\ Fresh'

LEMMA QueueFrame ==
  ASSUME AutoInv, QueueKept, UNCHANGED <<ruleVars, event, runVars, proposalVars>>
  PROVE  AutoInv'
<1>1. RulesTyped' /\ RunsTyped' /\ ProposalsTyped' /\ Armed' /\ Told' /\ OnlyExternalAwait'
        /\ Spent'
  BY Untouched DEF ruleVars, runVars, proposalVars
<1> QED
  BY <1>1 DEF QueueKept, AutoInv, Typed

LEMMA DispatchKeeps ==
  ASSUME AutoInv, NEW k \in Keys, Dispatch(k) \/ Evict(k)
  PROVE  AutoInv'
<1>1. UNCHANGED <<ruleVars, event, runVars, proposalVars, faults, worker>>
  BY DEF Dispatch, Evict
<1>2. QueueTyped'
  BY DEF Dispatch, Evict, AutoInv, Typed, QueueTyped
<1>3. Queued'
  BY DEF Dispatch, Evict, AutoInv, Queued, Typed, QueueTyped, None
<1>4. Fresh'
  BY <1>1, Untouched DEF runVars
<1> QED
  BY <1>1, <1>2, <1>3, <1>4, QueueFrame DEF QueueKept

\* A delivery whose lock is gone stays the delivery it was.
LEMMA Unlocked ==
  ASSUME NEW d \in Deliveries
  PROVE  LET u == [d EXCEPT !.holds = FALSE]
         IN  u \in Deliveries /\ u.key = d.key /\ u.todo = d.todo /\ u.done = d.done
BY DEF Deliveries

LEMMA QueueLosesKeeps ==
  ASSUME AutomationAssumption, AutoInv, QueueLoses
  PROVE  AutoInv'
<1>1. UNCHANGED <<ruleVars, event, runVars, proposalVars>>
  BY DEF QueueLoses
<1>2. \A w \in Workers : \/ worker[w] = Idle /\ worker'[w] = Idle
                         \/ /\ worker[w] # Idle /\ worker'[w] \in Deliveries
                            /\ worker'[w].key = worker[w].key
                            /\ worker'[w].todo = worker[w].todo
                            /\ worker'[w].done = worker[w].done
  BY Unlocked DEF QueueLoses, AutoInv, Typed, QueueTyped
<1>3. QueueTyped'
  BY <1>2 DEF QueueLoses, AutoInv, Typed, QueueTyped, AutomationAssumption
<1>4. Queued'
  BY <1>2 DEF QueueLoses, AutoInv, Queued, Typed, QueueTyped
<1>5. Fresh'
  <2>1. CASE Keys = {}
    <3>1. \A w \in Workers : worker'[w] = Idle
      BY <1>2, <2>1 DEF Deliveries
    <3> QED
      BY <3>1 DEF Fresh, Bears
  <2>2. CASE Keys # {}
    BY <1>1, <1>2, <2>2, DeliveriesGoOn DEF runVars
  <2> QED
    BY <2>1, <2>2
<1> QED
  BY <1>1, <1>3, <1>4, <1>5, QueueFrame DEF QueueKept

\* The job of a recorded event goes back.
LEMMA GoingBackKeeps ==
  ASSUME AutomationAssumption, AutoInv, NEW k \in Keys, GoesBack(k), event[k] # None
  PROVE  /\ message' \in [Keys -> {None, "waiting", "active", "kept"}]
         /\ tries' \in [Keys -> Nat]
         /\ \A l \in Keys : message'[l] # None => event[l] # None
<1>1. message' \in [Keys -> {None, "waiting", "active", "kept"}] /\ tries' \in [Keys -> Nat]
  BY DEF GoesBack, AutoInv, Typed, QueueTyped
<1>2. \A l \in Keys \ {k} : message'[l] = message[l]
  BY DEF GoesBack, AutoInv, Typed, QueueTyped
<1> QED
  BY <1>1, <1>2 DEF AutoInv, Queued

LEMMA FaultKeeps ==
  ASSUME AutomationAssumption, AutoInv, NEW w \in Workers, Stalls(w) \/ Fails(w)
  PROVE  AutoInv'
<1> DEFINE k == worker[w].key
<1>1. UNCHANGED <<ruleVars, event, runVars, proposalVars>> /\ worker[w] # Idle
  BY DEF Stalls, Fails
<1>2. worker[w] \in Deliveries /\ k \in Keys /\ event[k] # None
  BY <1>1 DEF AutoInv, Typed, QueueTyped, Queued, Deliveries
<1>3. /\ message' \in [Keys -> {None, "waiting", "active", "kept"}]
      /\ tries' \in [Keys -> Nat]
      /\ \A l \in Keys : message'[l] # None => event[l] # None
  <2>1. CASE GoesBack(k)
    BY <1>2, <2>1, GoingBackKeeps
  <2>2. CASE UNCHANGED <<message, tries>>
    BY <2>2 DEF AutoInv, Typed, QueueTyped, Queued
  <2> QED
    BY <2>1, <2>2 DEF Stalls, Fails
<1>4. /\ \A v \in Workers \ {w} : worker'[v] = worker[v]
      /\ \/ worker'[w] = Idle
         \/ /\ worker'[w] \in Deliveries /\ worker'[w].key = k
            /\ worker'[w].todo = worker[w].todo /\ worker'[w].done = worker[w].done
  BY <1>2, Unlocked DEF Stalls, Fails, AutoInv, Typed, QueueTyped
<1>5. QueueTyped'
  <2>1. DOMAIN worker' = Workers /\ worker' = [v \in Workers |-> worker'[v]]
    BY DEF Stalls, Fails, AutoInv, Typed, QueueTyped
  <2>2. worker' \in [Workers -> {Idle} \cup Deliveries]
    BY <1>4, <2>1 DEF AutoInv, Typed, QueueTyped
  <2>3. faults' \in 0..MaxFaults
    BY DEF Stalls, Fails, AutoInv, Typed, QueueTyped, AutomationAssumption
  <2> QED
    BY <1>1, <1>3, <2>2, <2>3 DEF QueueTyped, AutoInv, Typed
<1>6. Queued'
  <2>1. \A v \in Workers : worker'[v] # Idle => worker[v] # Idle /\ worker'[v].key = worker[v].key
    BY <1>1, <1>4
  <2> QED
    BY <1>1, <1>3, <2>1 DEF AutoInv, Queued
<1>7. Fresh'
  <2>1. \A v \in Workers : \/ worker'[v] = Idle
                           \/ /\ worker[v] # Idle /\ worker'[v].key = worker[v].key
                              /\ worker'[v].todo = worker[v].todo
                              /\ worker'[v].done = worker[v].done
    BY <1>1, <1>4
  <2> QED
    BY <1>1, <1>2, <2>1, DeliveriesGoOn DEF runVars
<1> QED
  BY <1>1, <1>5, <1>6, <1>7, QueueFrame DEF QueueKept

LEMMA TakeKeeps ==
  ASSUME AutoInv, NEW w \in Workers, NEW k \in Keys, Take(w, k)
  PROVE  AutoInv'
<1> DEFINE d == [does |-> "deliver", key |-> k, holds |-> TRUE,
                 todo |-> {r \in Addressed(k) : Enabled(r)}, done |-> [r \in Rules |-> None]]
<1>1. UNCHANGED <<ruleVars, event, runVars, proposalVars>> /\ event[k] # None
  BY DEF Take, AutoInv, Queued, None
<1>2. Addressed(k) \subseteq Rules
  BY AutomationAssumption DEF Addressed, Keys, AutomationAssumption
<1>3. d \in Deliveries
  BY <1>2 DEF Deliveries
<1>4. worker' = [worker EXCEPT ![w] = d]
  BY DEF Take
<1>5. QueueTyped'
  BY <1>3, <1>4 DEF Take, AutoInv, Typed, QueueTyped
<1>6. \A v \in Workers : worker'[v] = IF v = w THEN d ELSE worker[v]
  BY <1>4 DEF AutoInv, Typed, QueueTyped
<1>7. Queued'
  <2>1. \A l \in Keys : message'[l] # None => event'[l] # None
    BY <1>1 DEF Take, AutoInv, Queued, Typed, QueueTyped
  <2>2. d.key = k
    OBVIOUS
  <2>3. \A v \in Workers : worker'[v] # Idle => event'[worker'[v].key] # None
    <3> HIDE DEF d
    <3> QED
      BY <1>1, <1>6, <2>2 DEF AutoInv, Queued
  <2> QED
    BY <2>1, <2>3 DEF Queued
<1>8. Fresh'
  <2>1. d.key = k /\ d.todo \subseteq Addressed(k) /\ \A r \in Rules : d.done[r] = None
    OBVIOUS
  <2>2. \A v \in Workers :
           \/ worker'[v] = Idle
           \/ /\ worker[v] # Idle /\ worker'[v].key = worker[v].key
              /\ worker'[v].todo = worker[v].todo /\ worker'[v].done = worker[v].done
           \/ /\ worker'[v].key = k /\ worker'[v].todo \subseteq Addressed(k)
              /\ \A r \in Rules : worker'[v].done[r] = None
    BY <1>6, <2>1
  <2>3. UNCHANGED run
    BY <1>1 DEF runVars
  <2> QED
    BY <2>2, <2>3, DeliveriesGoOn
<1> QED
  BY <1>1, <1>5, <1>7, <1>8, QueueFrame DEF QueueKept

LEMMA PossibleOutcomes ==
  ASSUME NEW r, NEW o \in Possible(r)
  PROVE  /\ o \in Outcomes
         /\ o = "SUCCEEDED" => r \notin External
         /\ o = "AWAITING_CONFIRMATION" => r \in External
BY DEF Possible, Outcomes

LEMMA EvaluateRunKeeps ==
  ASSUME AutoInv, NEW w \in Workers, NEW r \in Rules, Evaluate(w, r)
  PROVE  AutoInv'
<1> DEFINE k == worker[w].key
           n == <<r, k>>
<1>1. /\ UNCHANGED <<ruleVars, event, runVars, proposalVars, faults, message, tries>>
      /\ worker[w] # Idle /\ r \in worker[w].todo /\ KeyFree(w, n)
  BY DEF Evaluate
<1>2. worker[w] \in Deliveries /\ k \in Keys
  BY <1>1 DEF AutoInv, Typed, QueueTyped, Deliveries
<1>3. n \in Runs
  BY <1>1, <1>2 DEF Runs, AutoInv, Fresh
<1>4. PICK o \in Outcomes \cup {None} :
        /\ o # None => run[n] = None
        /\ o = "SUCCEEDED" => r \notin External
        /\ o = "AWAITING_CONFIRMATION" => r \in External
        /\ worker' = [worker EXCEPT ![w].todo = @ \ {r}, ![w].done[r] = o]
  <2>1. PICK o \in IF run[n] = None THEN Possible(r) ELSE {None} :
          worker' = [worker EXCEPT ![w].todo = @ \ {r}, ![w].done[r] = o]
    BY DEF Evaluate
  <2> QED
    BY <2>1, PossibleOutcomes DEF None
<1> DEFINE d == [worker[w] EXCEPT !.todo = @ \ {r}, !.done = [@ EXCEPT ![r] = o]]
<1>5. worker' = [worker EXCEPT ![w] = d]
  BY <1>2, <1>4 DEF AutoInv, Typed, QueueTyped, Deliveries
<1>6. /\ d \in Deliveries /\ d.key = k /\ d.todo = worker[w].todo \ {r}
      /\ \A q \in Rules : d.done[q] = IF q = r THEN o ELSE worker[w].done[q]
  BY <1>2 DEF Deliveries
<1>7. QueueTyped'
  BY <1>1, <1>5, <1>6 DEF AutoInv, Typed, QueueTyped
<1>8. worker'[w] = d /\ \A v \in Workers \ {w} : worker'[v] = worker[v]
  BY <1>5 DEF AutoInv, Typed, QueueTyped
<1> HIDE DEF d
<1>9. Queued'
  BY <1>1, <1>6, <1>8 DEF AutoInv, Queued
<1>10. Fresh'
  <2>1. \A v \in Workers : worker'[v] # Idle
          => worker'[v].todo \subseteq Addressed(worker'[v].key)
    BY <1>1, <1>6, <1>8 DEF AutoInv, Fresh
  <2>2. \A v \in Workers, q \in Rules : Bears(v, q)' =>
          /\ worker'[v].key = worker[v].key
          /\ \/ v = w /\ q = r /\ worker'[v].done[q] = o /\ o # None
             \/ Bears(v, q) /\ worker'[v].done[q] = worker[v].done[q]
    BY <1>1, <1>6, <1>8 DEF Bears
  <2>3. ASSUME NEW v \in Workers, NEW q \in Rules, Bears(v, q)'
        PROVE  /\ <<q, worker'[v].key>> \in Runs
               /\ run'[<<q, worker'[v].key>>] = None
               /\ worker'[v].done[q] = "SUCCEEDED" => q \notin External
               /\ worker'[v].done[q] = "AWAITING_CONFIRMATION" => q \in External
    <3>1. CASE v = w /\ q = r /\ worker'[v].done[q] = o /\ o # None
      BY <1>1, <1>3, <1>4, <2>2, <2>3, <3>1 DEF runVars
    <3>2. CASE Bears(v, q) /\ worker'[v].done[q] = worker[v].done[q]
      BY <1>1, <2>2, <2>3, <3>2 DEF AutoInv, Fresh, runVars
    <3> QED
      BY <2>2, <2>3, <3>1, <3>2
  <2>4. \A v \in Workers : Bears(v, r) /\ worker[v].key = k => v = w
    BY <1>1 DEF KeyFree, Bears
  <2>5. ASSUME NEW u \in Workers, NEW v \in Workers, NEW q \in Rules,
               Bears(u, q)', Bears(v, q)', worker'[u].key = worker'[v].key
        PROVE  u = v
    BY <2>2, <2>4, <2>5 DEF AutoInv, Fresh
  <2> QED
    BY <2>1, <2>3, <2>5 DEF Fresh
<1> QED
  BY <1>1, <1>7, <1>9, <1>10, QueueFrame DEF QueueKept

\* The runs a delivery commits were not there, nor with another worker.
LEMMA DeliverKeeps ==
  ASSUME AutomationAssumption, AutoInv, NEW w \in Workers, Deliver(w)
  PROVE  AutoInv'
<1> DEFINE k == worker[w].key
           done == worker[w].done
           new == {n \in Runs : n[2] = k /\ done[n[1]] # None}
<1>1. /\ UNCHANGED <<tries, ruleVars, sent, proposalVars, faults>>
      /\ worker[w] # Idle
      /\ run' = [n \in Runs |-> IF n \in new THEN done[n[1]] ELSE run[n]]
      /\ acts' = [n \in Runs |-> IF n \in new /\ done[n[1]] = "SUCCEEDED"
                                 THEN acts[n] + 1 ELSE acts[n]]
      /\ event' = [event EXCEPT ![k] = "delivered"]
      /\ message' = [message EXCEPT ![k] = IF worker[w].holds THEN "kept" ELSE @]
      /\ worker' = [worker EXCEPT ![w] = Idle]
  BY DEF Deliver
<1>2. worker[w] \in Deliveries /\ k \in Keys /\ event[k] # None
      /\ done \in [Rules -> Outcomes \cup {None}]
  BY <1>1 DEF AutoInv, Typed, QueueTyped, Queued, Deliveries
<1>3. ASSUME NEW n \in new
      PROVE  /\ n[1] \in Rules /\ n = <<n[1], k>> /\ Bears(w, n[1]) /\ run[n] = None
             /\ done[n[1]] \in Outcomes
             /\ done[n[1]] = "SUCCEEDED" => n[1] \notin External
             /\ done[n[1]] = "AWAITING_CONFIRMATION" => n[1] \in External
  <2>1. n[1] \in Rules /\ n = <<n[1], k>> /\ Bears(w, n[1])
    BY <1>1, RunIsAPair DEF Bears
  <2> QED
    BY <1>2, <2>1 DEF AutoInv, Fresh
<1>4. /\ \A v \in Workers : worker'[v] = IF v = w THEN Idle ELSE worker[v]
      /\ \A l \in Keys : event'[l] = IF l = k THEN "delivered" ELSE event[l]
      /\ \A l \in Keys : l # k => message'[l] = message[l]
  BY <1>1, <1>2 DEF AutoInv, Typed, QueueTyped
<1>5. \A n \in Runs : /\ run'[n] = IF n \in new THEN done[n[1]] ELSE run[n]
                      /\ acts'[n] = IF n \in new /\ done[n[1]] = "SUCCEEDED"
                                    THEN acts[n] + 1 ELSE acts[n]
                      /\ sent'[n] = sent[n]
  BY <1>1
<1>6. Typed'
  <2>1. RulesTyped' /\ ProposalsTyped'
    BY <1>1, Untouched
  <2>2. QueueTyped'
    BY <1>1, <1>2 DEF AutoInv, Typed, QueueTyped
  <2>3. run' \in [Runs -> RunStatus]
    BY <1>1, <1>3 DEF AutoInv, Typed, RunsTyped, RunStatus
  <2>4. acts' \in [Runs -> Nat]
    BY <1>1 DEF AutoInv, Typed, RunsTyped
  <2>5. sent' \in [Runs -> Nat]
    BY <1>1 DEF AutoInv, Typed, RunsTyped
  <2> QED
    BY <2>1, <2>2, <2>3, <2>4, <2>5 DEF Typed, RunsTyped
<1>7. Queued'
  <2>1. \A l \in Keys : event[l] # None => event'[l] # None
    BY <1>4 DEF None
  <2>2. \A l \in Keys : message'[l] # None => event'[l] # None
    BY <1>2, <1>4, <2>1 DEF AutoInv, Queued
  <2>3. \A v \in Workers : worker'[v] # Idle => event'[worker'[v].key] # None
    <3> SUFFICES ASSUME NEW v \in Workers, worker'[v] # Idle
                 PROVE  event'[worker'[v].key] # None
      OBVIOUS
    <3>1. worker'[v] = worker[v] /\ worker[v].key \in Keys
      BY <1>4 DEF AutoInv, Typed, QueueTyped, Deliveries
    <3> QED
      BY <2>1, <3>1 DEF AutoInv, Queued
  <2> QED
    BY <2>2, <2>3 DEF Queued
<1>8. Armed'
  <2>1. \A l \in Keys : event[l] = None => event'[l] = None
    BY <1>2, <1>4
  <2>2. UNCHANGED <<rule, eval>>
    BY <1>1 DEF ruleVars
  <2>3. \A r \in Threshold, c \in 0..MaxCycle : <<r, c>> \in Keys
    BY DEF Keys
  <2> QED
    BY <2>1, <2>2, <2>3 DEF AutoInv, Armed
<1>9. Fresh'
  <2>1. \A v \in Workers : worker'[v] # Idle => v # w /\ worker'[v] = worker[v]
    BY <1>4
  <2>2. \A v \in Workers, r \in Rules :
          Bears(v, r)' => v # w /\ worker'[v] = worker[v] /\ Bears(v, r)
    BY <2>1 DEF Bears
  <2>3. ASSUME NEW v \in Workers, NEW r \in Rules, Bears(v, r)'
        PROVE  run'[<<r, worker[v].key>>] = None
    <3> DEFINE n == <<r, worker[v].key>>
    <3>1. v # w /\ Bears(v, r) /\ n \in Runs /\ run[n] = None
      BY <2>2, <2>3 DEF AutoInv, Fresh
    <3>2. n \notin new
      <4>1. SUFFICES ASSUME n \in new PROVE FALSE
        OBVIOUS
      <4>2. worker[v].key = k /\ Bears(w, r)
        BY <1>3, <4>1
      <4> QED
        BY <3>1, <4>2 DEF AutoInv, Fresh
    <3> QED
      BY <1>5, <3>1, <3>2
  <2> QED
    BY <2>1, <2>2, <2>3 DEF AutoInv, Fresh
<1>10. Told' /\ OnlyExternalAwait'
  <2> SUFFICES ASSUME NEW n \in Runs
               PROVE  /\ acts'[n] = IF run'[n] = "SUCCEEDED" /\ n[1] \notin External THEN 1 ELSE 0
                      /\ sent'[n] = IF run'[n] = "SUCCEEDED" /\ n[1] \in External THEN 1 ELSE 0
                      /\ run'[n] = "AWAITING_CONFIRMATION" => n[1] \in External
    BY DEF Told, OnlyExternalAwait, Awaits
  <2>1. /\ acts[n] = IF run[n] = "SUCCEEDED" /\ n[1] \notin External THEN 1 ELSE 0
        /\ sent[n] = IF run[n] = "SUCCEEDED" /\ n[1] \in External THEN 1 ELSE 0
        /\ run[n] = "AWAITING_CONFIRMATION" => n[1] \in External
    BY DEF AutoInv, Told, OnlyExternalAwait, Awaits
  <2>2. CASE n \in new
    BY <1>3, <1>5, <2>1, <2>2 DEF None
  <2>3. CASE n \notin new
    BY <1>5, <2>1, <2>3
  <2> QED
    BY <2>2, <2>3
<1>11. Spent'
  <2>1. UNCHANGED <<token, issued, desk>>
    BY <1>1 DEF proposalVars
  <2>2. \A n \in Runs : Awaits(n) => Awaits(n)'
    BY <1>3, <1>5 DEF Awaits, None
  <2>3. \A p \in People : Publishes(p) => desk[p].run \in Runs
    <3> SUFFICES ASSUME NEW p \in People, Publishes(p) PROVE desk[p].run \in Runs
      OBVIOUS
    <3>1. desk[p] \in {Idle} \cup Requests
      BY DEF AutoInv, Typed, ProposalsTyped
    <3> QED
      BY <3>1 DEF Publishes, Idle, Requests
  <2> QED
    BY <2>1, <2>2, <2>3 DEF AutoInv, Spent, Publishes
<1> QED
  BY <1>6, <1>7, <1>8, <1>9, <1>10, <1>11 DEF AutoInv

-----------------------------------------------------------------------------
(* Proposals *)

\* Where a person's request is, and what everybody else's still are.
LEMMA DeskMoves ==
  ASSUME AutoInv, NEW p \in People, NEW does \in {"ask", "hold", "confirm", "publish"},
         NEW n \in Runs, NEW t \in Nat, Moves(p, does, n, t)
  PROVE  /\ desk' \in [People -> {Idle} \cup Requests]
         /\ desk'[p].does = does /\ desk'[p].run = n /\ desk'[p].token = t
         /\ \A q \in People : q # p => desk'[q] = desk[q]
<1> DEFINE d == [does |-> does, run |-> n, token |-> t]
<1>1. d \in Requests /\ d.does = does /\ d.run = n /\ d.token = t
  BY DEF Requests
<1>2. desk' = [desk EXCEPT ![p] = d]
  BY DEF Moves
<1> HIDE DEF d
<1> QED
  BY <1>1, <1>2 DEF AutoInv, Typed, ProposalsTyped

LEMMA DeskHolds ==
  ASSUME AutoInv, NEW p \in People, desk[p].does # "idle"
  PROVE  /\ desk[p] \in Requests /\ desk[p].run \in Runs /\ desk[p].token \in Nat
         /\ desk[p].does \in {"ask", "hold", "confirm", "publish"}
<1>1. desk[p] \in {Idle} \cup Requests /\ Idle.does = "idle"
  BY DEF AutoInv, Typed, ProposalsTyped, Idle
<1> QED
  BY <1>1 DEF Requests

\* A request ends.
LEMMA DeskClears ==
  ASSUME AutoInv, NEW p \in People, desk' = [desk EXCEPT ![p] = Idle]
  PROVE  /\ desk' \in [People -> {Idle} \cup Requests]
         /\ desk'[p].does = "idle"
         /\ \A q \in People : q # p => desk'[q] = desk[q]
BY DEF AutoInv, Typed, ProposalsTyped, Idle

LEMMA ProposalFrame ==
  ASSUME AutoInv, UNCHANGED <<ruleVars, event, queueVars, faults>>,
         RunsTyped', ProposalsTyped', Fresh', Told', OnlyExternalAwait', Spent'
  PROVE  AutoInv'
<1>1. RulesTyped' /\ QueueTyped' /\ Queued' /\ Armed'
  BY Untouched DEF ruleVars, queueVars
<1> QED
  BY <1>1 DEF AutoInv, Typed

\* The same, for a step that leaves the run rows alone.
LEMMA RequestFrame ==
  ASSUME AutoInv, UNCHANGED <<ruleVars, event, queueVars, runVars, faults>>,
         ProposalsTyped', Spent'
  PROVE  AutoInv'
<1>1. RunsTyped' /\ Fresh' /\ Told' /\ OnlyExternalAwait'
  BY Untouched DEF runVars, queueVars
<1> QED
  BY <1>1, ProposalFrame

LEMMA AskKeeps ==
  ASSUME AutoInv, NEW p \in People, NEW n \in Runs, AskReads(p, n)
  PROVE  AutoInv'
<1>1. token[n] \in Nat
  BY DEF AutoInv, Typed, ProposalsTyped
<1>2. /\ desk' \in [People -> {Idle} \cup Requests]
      /\ desk'[p].does = "ask"
      /\ \A q \in People : q # p => desk'[q] = desk[q]
  BY <1>1, DeskMoves DEF AskReads
<1>3. UNCHANGED <<token, issued, closed, ruleVars, event, queueVars, runVars, faults>>
  BY DEF AskReads
<1>4. ProposalsTyped'
  BY <1>2, <1>3 DEF AutoInv, Typed, ProposalsTyped
<1>5. Spent'
  BY <1>2, <1>3 DEF AutoInv, Spent, Publishes, Awaits, runVars
<1> QED
  BY <1>3, <1>4, <1>5, RequestFrame

\* A token is issued while nobody publishes the run.
LEMMA IssueKeeps ==
  ASSUME AutoInv, NEW p \in People, Issue(p)
  PROVE  AutoInv'
<1> DEFINE n == desk[p].run
           t == issued[n] + 1
<1>1. n \in Runs /\ t \in Nat \ {0}
  <2>1. n \in Runs
    BY DeskHolds DEF Issue
  <2> QED
    BY <2>1 DEF AutoInv, Typed, ProposalsTyped
<1>2. /\ desk' \in [People -> {Idle} \cup Requests]
      /\ desk'[p].does = "hold" /\ desk'[p].token = t
      /\ \A q \in People : q # p => desk'[q] = desk[q]
  BY <1>1, DeskMoves DEF Issue
<1>3. /\ UNCHANGED <<closed, ruleVars, event, queueVars, runVars, faults>>
      /\ issued' = [issued EXCEPT ![n] = t] /\ token' = [token EXCEPT ![n] = t]
      /\ \A q \in People : Publishes(q) => desk[q].run # n
  BY DEF Issue, Locked, Publishes
<1>4. ProposalsTyped'
  BY <1>1, <1>2, <1>3 DEF AutoInv, Typed, ProposalsTyped
<1>5. \A m \in Runs : /\ issued'[m] = IF m = n THEN t ELSE issued[m]
                      /\ token'[m] = IF m = n THEN t ELSE token[m]
                      /\ run'[m] = run[m]
  BY <1>1, <1>3 DEF AutoInv, Typed, ProposalsTyped, runVars
<1>6. \A q \in People : Publishes(q)' =>
        q # p /\ desk'[q] = desk[q] /\ Publishes(q) /\ desk[q].run \in Runs \ {n}
  BY <1>2, <1>3, DeskHolds DEF Publishes
<1>7. Spent'
  <2>1. \A m \in Runs : token'[m] # 0 => token'[m] = issued'[m]
    BY <1>5 DEF AutoInv, Spent
  <2>2. \A q \in People : desk'[q].does \in {"hold", "confirm", "publish"} => desk'[q].token # 0
    BY <1>1, <1>2 DEF AutoInv, Spent
  <2>3. \A q \in People : Publishes(q)' =>
          Awaits(desk[q].run)' /\ token'[desk'[q].run] = desk'[q].token
    BY <1>5, <1>6 DEF AutoInv, Spent, Awaits
  <2>4. \A q, r \in People :
          Publishes(q)' /\ Publishes(r)' /\ desk'[q].run = desk'[r].run => q = r
    BY <1>6 DEF AutoInv, Spent
  <2>5. \A q \in People : Publishes(q)' => run'[desk'[q].run] = "AWAITING_CONFIRMATION"
    BY <1>5, <1>6 DEF AutoInv, Spent, Awaits
  <2> QED
    BY <2>1, <2>2, <2>3, <2>4, <2>5 DEF Spent, Awaits
<1> QED
  BY <1>3, <1>4, <1>7, RequestFrame

\* A request goes on, with the token it has, to anything but publishing.
LEMMA HolderKeeps ==
  ASSUME AutoInv, NEW p \in People, ConfirmReads(p) \/ Rollback(p)
  PROVE  AutoInv'
<1>1. desk[p].does \in {"hold", "publish"} /\ desk[p].run \in Runs /\ desk[p].token \in Nat
  BY DeskHolds DEF ConfirmReads, Rollback
<1>2. /\ desk' \in [People -> {Idle} \cup Requests]
      /\ desk'[p].does \in {"confirm", "hold"} /\ desk'[p].token = desk[p].token
      /\ \A q \in People : q # p => desk'[q] = desk[q]
  BY <1>1, DeskMoves DEF ConfirmReads, Rollback
<1>3. UNCHANGED <<token, issued, closed, ruleVars, event, queueVars, runVars, faults>>
  BY DEF ConfirmReads, Rollback
<1>4. ProposalsTyped'
  BY <1>2, <1>3 DEF AutoInv, Typed, ProposalsTyped
<1>5. Spent'
  BY <1>1, <1>2, <1>3 DEF AutoInv, Spent, Publishes, Awaits, runVars
<1> QED
  BY <1>3, <1>4, <1>5, RequestFrame

\* A claim finds the live token and nobody else on the row.
LEMMA ClaimKeeps ==
  ASSUME AutoInv, NEW p \in People, Claim(p)
  PROVE  AutoInv'
<1> DEFINE n == desk[p].run
           t == desk[p].token
<1>1. n \in Runs /\ t \in Nat
  BY DeskHolds DEF Claim
<1>2. /\ desk' \in [People -> {Idle} \cup Requests]
      /\ desk'[p].does = "publish" /\ desk'[p].run = n /\ desk'[p].token = t
      /\ \A q \in People : q # p => desk'[q] = desk[q]
  BY <1>1, DeskMoves DEF Claim
<1>3. /\ UNCHANGED <<token, issued, closed, ruleVars, event, queueVars, runVars, faults>>
      /\ Awaits(n) /\ token[n] = t /\ desk[p].does = "confirm"
      /\ \A q \in People : Publishes(q) => desk[q].run # n
  BY DEF Claim, Claimable, Locked, Publishes
<1>4. ProposalsTyped'
  BY <1>2, <1>3 DEF AutoInv, Typed, ProposalsTyped
<1>5. Spent'
  BY <1>2, <1>3 DEF AutoInv, Spent, Publishes, Awaits, runVars
<1> QED
  BY <1>3, <1>4, <1>5, RequestFrame

LEMMA LeavesKeeps ==
  ASSUME AutoInv, NEW p \in People, Leaves(p)
  PROVE  AutoInv'
<1>1. /\ desk' \in [People -> {Idle} \cup Requests]
      /\ desk'[p].does = "idle"
      /\ \A q \in People : q # p => desk'[q] = desk[q]
  BY DeskClears DEF Leaves
<1>2. UNCHANGED <<token, issued, closed, ruleVars, event, queueVars, runVars, faults>>
  BY DEF Leaves
<1>3. ProposalsTyped'
  BY <1>1, <1>2 DEF AutoInv, Typed, ProposalsTyped
<1>4. Spent'
  BY <1>1, <1>2 DEF AutoInv, Spent, Publishes, Awaits, runVars
<1> QED
  BY <1>2, <1>3, <1>4, RequestFrame

LEMMA WindowKeeps ==
  ASSUME AutoInv, NEW n \in Runs, WindowCloses(n)
  PROVE  AutoInv'
<1>1. UNCHANGED <<token, issued, desk, ruleVars, event, queueVars, runVars, faults>>
  BY DEF WindowCloses
<1>2. ProposalsTyped'
  BY DEF WindowCloses, AutoInv, Typed, ProposalsTyped
<1>3. Spent'
  BY <1>1, Untouched DEF runVars
<1> QED
  BY <1>1, <1>2, <1>3, RequestFrame

\* A run that waits is decided: no worker holds it, and its only publisher is
\* done with it.
LEMMA DecisionKeeps ==
  ASSUME AutoInv, NEW n \in Runs, Awaits(n), NEW o \in RunStatus \ {"AWAITING_CONFIRMATION"},
         run' = [run EXCEPT ![n] = o],
         UNCHANGED <<worker, acts>>,
         sent' = [sent EXCEPT ![n] = IF o = "SUCCEEDED" THEN @ + 1 ELSE @]
  PROVE  RunsTyped' /\ Fresh' /\ Told' /\ OnlyExternalAwait'
<1>1. \A m \in Runs : /\ run'[m] = IF m = n THEN o ELSE run[m]
                      /\ sent'[m] = IF m = n /\ o = "SUCCEEDED" THEN sent[m] + 1 ELSE sent[m]
  BY DEF AutoInv, Typed, RunsTyped
<1>2. RunsTyped'
  BY DEF AutoInv, Typed, RunsTyped
<1>3. Fresh'
  <2>1. \A m \in Runs : run[m] = None => run'[m] = None
    BY <1>1 DEF Awaits, None
  <2> QED
    BY <2>1 DEF AutoInv, Fresh, Bears
<1>4. Told' /\ OnlyExternalAwait'
  BY <1>1 DEF AutoInv, Told, OnlyExternalAwait, Awaits
<1> QED
  BY <1>2, <1>3, <1>4

LEMMA ConfirmKeeps ==
  ASSUME AutoInv, NEW p \in People, ConfirmCommits(p)
  PROVE  AutoInv'
<1> DEFINE n == desk[p].run
<1>1. /\ n \in Runs /\ Publishes(p) /\ Awaits(n)
      /\ UNCHANGED <<acts, token, issued, closed, ruleVars, event, queueVars, faults>>
  BY DeskHolds DEF ConfirmCommits, AutoInv, Spent, Publishes
<1>2. PICK o \in {"BLOCKED_BY_POLICY", "FAILED", "SUCCEEDED"} :
        /\ run' = [run EXCEPT ![n] = o]
        /\ sent' = [sent EXCEPT ![n] = IF o = "SUCCEEDED" THEN @ + 1 ELSE @]
  BY DEF ConfirmCommits
<1>3. RunsTyped' /\ Fresh' /\ Told' /\ OnlyExternalAwait'
  <2>1. o \in RunStatus \ {"AWAITING_CONFIRMATION"}
    BY DEF RunStatus, Outcomes
  <2>2. UNCHANGED <<worker, acts>>
    BY <1>1 DEF queueVars
  <2> QED
    BY <1>1, <1>2, <2>1, <2>2, DecisionKeeps
<1>4. /\ desk' \in [People -> {Idle} \cup Requests]
      /\ desk'[p].does = "idle"
      /\ \A q \in People : q # p => desk'[q] = desk[q]
  BY DeskClears DEF ConfirmCommits
<1>5. ProposalsTyped'
  BY <1>1, <1>4 DEF AutoInv, Typed, ProposalsTyped
<1>6. Spent'
  <2>1. \A q \in People : Publishes(q)' =>
          /\ q # p /\ desk'[q] = desk[q] /\ Publishes(q) /\ desk[q].run \in Runs \ {n}
    BY <1>1, <1>4, DeskHolds DEF AutoInv, Spent, Publishes
  <2>2. \A m \in Runs \ {n} : run'[m] = run[m]
    BY <1>2 DEF AutoInv, Typed, RunsTyped
  <2>3. \A q \in People : Publishes(q)' =>
          run'[desk'[q].run] = "AWAITING_CONFIRMATION" /\ token'[desk'[q].run] = desk'[q].token
    BY <1>1, <2>1, <2>2 DEF AutoInv, Spent, Awaits
  <2>4. \A q, r \in People :
          Publishes(q)' /\ Publishes(r)' /\ desk'[q].run = desk'[r].run => q = r
    BY <2>1 DEF AutoInv, Spent
  <2>5. \A q \in People : desk'[q].does \in {"hold", "confirm", "publish"} => desk'[q].token # 0
    BY <1>4 DEF AutoInv, Spent
  <2> QED
    BY <1>1, <2>3, <2>4, <2>5 DEF AutoInv, Spent, Awaits
<1> QED
  BY <1>1, <1>3, <1>5, <1>6, ProposalFrame

LEMMA ExpireKeeps ==
  ASSUME AutoInv, NEW n \in Runs, Expire(n)
  PROVE  AutoInv'
<1>1. /\ Awaits(n) /\ \A q \in People : Publishes(q) => desk[q].run # n
      /\ UNCHANGED <<acts, sent, issued, closed, desk, ruleVars, event, queueVars, faults>>
      /\ run' = [run EXCEPT ![n] = "EXPIRED"] /\ token' = [token EXCEPT ![n] = 0]
  BY DEF Expire, Expirable, Locked, Publishes
<1>2. RunsTyped' /\ Fresh' /\ Told' /\ OnlyExternalAwait'
  <2>1. "EXPIRED" \in RunStatus \ {"AWAITING_CONFIRMATION"}
    BY DEF RunStatus
  <2>2. sent' = [sent EXCEPT ![n] = IF "EXPIRED" = "SUCCEEDED" THEN @ + 1 ELSE @]
    BY <1>1 DEF AutoInv, Typed, RunsTyped
  <2>3. UNCHANGED <<worker, acts>>
    BY <1>1 DEF queueVars
  <2> QED
    BY <1>1, <2>1, <2>2, <2>3, DecisionKeeps
<1>3. ProposalsTyped'
  BY <1>1 DEF AutoInv, Typed, ProposalsTyped
<1>4. Spent'
  <2>1. \A m \in Runs : /\ token'[m] = IF m = n THEN 0 ELSE token[m]
                        /\ m # n => run'[m] = run[m]
    BY <1>1 DEF AutoInv, Typed, ProposalsTyped, RunsTyped
  <2>2. \A q \in People : Publishes(q) => desk[q].run \in Runs \ {n}
    BY <1>1, DeskHolds DEF Publishes
  <2> QED
    BY <1>1, <2>1, <2>2 DEF AutoInv, Spent, Publishes, Awaits
<1> QED
  BY <1>1, <1>2, <1>3, <1>4, ProposalFrame

-----------------------------------------------------------------------------
(* The invariant *)

LEMMA AutoInvStarts ==
  ASSUME AutomationAssumption, Init
  PROVE  AutoInv
<1>1. PICK story \in Stories :
        /\ rule = [r \in Rules |->
             [status |-> IF r \in story.new THEN "absent" ELSE "deleted",
              side |-> "unknown", cycle |-> 0]]
        /\ faults = story.faults
  BY DEF Init
<1>2. story.faults \in 0..MaxFaults
  BY DEF AutomationAssumption
<1>3. RulesTyped
  BY <1>1 DEF Init, RulesTyped, RuleRows, Sides, AutomationAssumption
<1>4. QueueTyped
  BY <1>1, <1>2 DEF Init, QueueTyped
<1>5. RunsTyped /\ ProposalsTyped
  BY DEF Init, RunsTyped, ProposalsTyped, RunStatus
<1>6. Queued
  BY DEF Init, Queued
<1>7. Armed
  <2>1. \A r \in Threshold, c \in 0..MaxCycle : <<r, c>> \in Keys
    BY DEF Keys
  <2> QED
    BY <2>1 DEF Init, Armed
<1>8. Fresh
  BY DEF Init, Fresh, Bears
<1>9. Told /\ OnlyExternalAwait
  BY DEF Init, Told, OnlyExternalAwait, Awaits, None
<1>10. Spent
  BY DEF Init, Spent, Publishes, Idle
<1> QED
  BY <1>3, <1>4, <1>5, <1>6, <1>7, <1>8, <1>9, <1>10 DEF AutoInv, Typed

LEMMA AutoInvStep ==
  ASSUME AutomationAssumption, AutoInv, [AutomationNext]_automationVars
  PROVE  AutoInv'
<1>1. ASSUME NEW r \in Rules, Author(r) PROVE AutoInv'
  BY <1>1, AuthorKeeps
<1>2. CASE Produce
  BY <1>2, ProduceKeeps
<1>3. ASSUME NEW k \in Keys, Dispatch(k) \/ Evict(k) PROVE AutoInv'
  BY <1>3, DispatchKeeps
<1>4. CASE QueueLoses
  BY <1>4, QueueLosesKeeps
<1>5. ASSUME NEW w \in Workers, Work(w) PROVE AutoInv'
  BY <1>5, TakeKeeps, EvaluateRunKeeps, DeliverKeeps, FaultKeeps DEF Work
<1>6. ASSUME NEW p \in People, Confirm(p) PROVE AutoInv'
  BY <1>6, AskKeeps, IssueKeeps, HolderKeeps, ClaimKeeps, ConfirmKeeps, LeavesKeeps DEF Confirm
<1>7. ASSUME NEW n \in Runs, WindowCloses(n) \/ Expire(n) PROVE AutoInv'
  BY <1>7, WindowKeeps, ExpireKeeps
<1>8. CASE UNCHANGED automationVars
  <2>1. UNCHANGED <<ruleVars, event, queueVars, runVars, proposalVars, faults>>
    BY <1>8 DEF automationVars
  <2>2. ProposalsTyped' /\ Spent'
    BY <2>1, Untouched DEF proposalVars, runVars
  <2> QED
    BY <2>1, <2>2, RequestFrame
<1> QED
  BY <1>1, <1>2, <1>3, <1>4, <1>5, <1>6, <1>7, <1>8, Zenon DEF AutomationNext

LEMMA AutoInvHolds == AutomationSpec => []AutoInv
<1>1. Init => AutoInv
  BY AutomationAssumption, AutoInvStarts
<1>2. AutoInv /\ [AutomationNext]_automationVars => AutoInv'
  BY AutomationAssumption, AutoInvStep
<1> QED
  BY <1>1, <1>2, PTL DEF AutomationSpec

-----------------------------------------------------------------------------

\* Every row, message, delivery and request keeps its type: what a worker is
\* about to write is an outcome, whatever races, dies or is lost.
THEOREM AutomationTypeOK == AutomationSpec => []TypeOK
<1>1. AutoInv => TypeOK
  BY DEF AutoInv, Typed, RulesTyped, QueueTyped, RunsTyped, ProposalsTyped, TypeOK,
         RuleRows, Evaluations, Deliveries, Requests
<1> QED
  BY <1>1, AutoInvHolds, PTL

\* However many workers deliver an event again and however many people ask,
\* confirm and let proposals expire: a run's action was carried out once if the
\* run says so and never otherwise, and only the last token is ever spent.
THEOREM OutcomesAreTrue == AutomationSpec => []OutcomeIsTrue
<1>1. AutoInv => OutcomeIsTrue
  <2> SUFFICES ASSUME AutoInv, NEW p \in People, Publishes(p)
               PROVE  desk[p].token = issued[desk[p].run]
    BY DEF OutcomeIsTrue, AutoInv, Told, Publishes
  <2>1. desk[p].run \in Runs
    BY DeskHolds DEF Publishes
  <2>2. desk[p].token # 0 /\ token[desk[p].run] = desk[p].token
    BY DEF AutoInv, Spent, Publishes
  <2> QED
    BY <2>1, <2>2 DEF AutoInv, Spent
<1> QED
  BY <1>1, AutoInvHolds, PTL

\* What CrossingIsNews says of a step.
Crosses(r, c) == rule[r].side = "below" /\ rule'[r].side = "past" /\ rule[r].cycle = c
News(r, c) == event[<<r, c>>] = None /\ event'[<<r, c>>] = "recorded"

\* Where the remembered side stands still and no new event is recorded, there is
\* neither.
LEMMA NothingNew ==
  ASSUME NEW r, NEW c, rule'[r].side = rule[r].side,
         event'[<<r, c>>] \in {event[<<r, c>>], "delivered"}
  PROVE  ~Crosses(r, c) /\ ~News(r, c)
BY DEF Crosses, News, None

LEMMA EvaluationIsNews ==
  ASSUME AutomationAssumption, AutoInv, NEW s \in Sweepers, EvaluateWrites(s),
         NEW r \in Threshold, NEW c \in 0..MaxCycle
  PROVE  Crosses(r, c) <=> News(r, c)
<1> DEFINE e == eval[s]
<1>1. e \in Evaluations /\ e.rule \in Threshold /\ e.rule \in Rules /\ r \in Rules
      /\ e.cycle \in 0..MaxCycle /\ <<e.rule, e.cycle>> \in Keys /\ <<r, c>> \in Keys
      /\ rule[e.rule] \in RuleRows
  BY DEF EvaluateWrites, AutoInv, Typed, RulesTyped, Evaluations, AutomationAssumption, Keys
<1>2. rule[e.rule].side = e.side /\ rule[e.rule].cycle = e.cycle /\ e.side # e.now
      /\ e.side \in Sides /\ e.now \in {"below", "past"}
  BY <1>1 DEF EvaluateWrites, Unmoved, AutoInv, Armed, Evaluations
<1>3. rule'[e.rule].side = e.now /\ (r # e.rule => rule'[r] = rule[r])
  BY <1>1 DEF EvaluateWrites, AutoInv, Typed, RulesTyped, RuleRows
<1>4. CASE r # e.rule \/ e.side # "below"
  <2>1. event'[<<r, c>>] = event[<<r, c>>]
    BY <1>1, <1>4 DEF EvaluateWrites, RecordEvent, AutoInv, Typed, QueueTyped
  <2> QED
    BY <1>2, <1>3, <1>4, <2>1 DEF Crosses, News, None
<1>5. CASE r = e.rule /\ e.side = "below"
  <2>1. e.now = "past"
    BY <1>2, <1>5
  <2>2. event[<<e.rule, e.cycle>>] = None
    BY <1>1, <1>2, <1>5 DEF AutoInv, Armed
  <2>3. \A l \in Keys : event'[l] = IF l = <<e.rule, e.cycle>> THEN "recorded" ELSE event[l]
    BY <1>1, <1>5, <2>2 DEF EvaluateWrites, RecordEvent, AutoInv, Typed, QueueTyped
  <2>4. CASE c = e.cycle
    BY <1>1, <1>2, <1>3, <1>5, <2>1, <2>2, <2>3, <2>4 DEF Crosses, News
  <2>5. CASE c # e.cycle
    <3>1. <<r, c>> # <<e.rule, e.cycle>>
      BY <2>5
    <3> QED
      BY <1>1, <1>2, <1>5, <2>3, <2>5, <3>1 DEF Crosses, News, None
  <2> QED
    BY <2>4, <2>5
<1> QED
  BY <1>4, <1>5

LEMMA StepIsNews ==
  ASSUME AutomationAssumption, AutoInv, AutomationNext,
         NEW r \in Threshold, NEW c \in 0..MaxCycle
  PROVE  Crosses(r, c) <=> News(r, c)
<1>1. <<r, c>> \in Keys /\ r \in Rules /\ rule[r] \in RuleRows
  BY DEF Keys, AutomationAssumption, AutoInv, Typed, RulesTyped
<1>2. ASSUME NEW q \in Rules, Author(q)
      PROVE  Crosses(r, c) <=> News(r, c)
  <2>1. rule'[r].side = rule[r].side
    BY <1>1, <1>2 DEF Author, CreateRule, UpdateRule, DeleteRule, AuthorityChanges,
                      SetRuleStatus, AutoInv, Typed, RulesTyped, RuleRows
  <2>2. event' = event
    BY <1>2 DEF Author, CreateRule, UpdateRule, DeleteRule, AuthorityChanges, SetRuleStatus
  <2> QED
    BY <2>1, <2>2, NothingNew
<1>3. CASE Produce
  <2>1. ASSUME UNCHANGED rule, event'[<<r, c>>] = event[<<r, c>>]
        PROVE  Crosses(r, c) <=> News(r, c)
    BY <2>1, NothingNew
  <2>2. ASSUME NEW ref \in Refs, RecordDomain(ref)
        PROVE  UNCHANGED rule /\ event'[<<r, c>>] = event[<<r, c>>]
    BY <1>1, <2>2 DEF RecordDomain, RecordEvent, ruleVars, AutoInv, Typed, QueueTyped,
                      AutomationAssumption
  <2>3. ASSUME NEW q \in Timed, ProduceTimed(q)
        PROVE  UNCHANGED rule /\ event'[<<r, c>>] = event[<<r, c>>]
    BY <1>1, <2>3 DEF ProduceTimed, RecordEvent, ruleVars, AutoInv, Typed, QueueTyped,
                      AutomationAssumption
  <2>4. ASSUME \/ NextHour
               \/ \E q \in Threshold : MetricMoves(q)
               \/ \E s \in Sweepers : (\E q \in Threshold : EvaluateReads(s, q)) \/ EvaluateAborts(s)
        PROVE  UNCHANGED rule /\ event'[<<r, c>>] = event[<<r, c>>]
    BY <2>4 DEF NextHour, MetricMoves, EvaluateReads, EvaluateAborts
  <2> QED
    BY <1>3, <2>1, <2>2, <2>3, <2>4, EvaluationIsNews DEF Produce
<1>4. ASSUME NEW w \in Workers, Work(w)
      PROVE  Crosses(r, c) <=> News(r, c)
  <2>1. UNCHANGED rule
    BY <1>4 DEF Work, Take, Evaluate, Deliver, Stalls, Fails, ruleVars
  <2>2. event'[<<r, c>>] \in {event[<<r, c>>], "delivered"}
    BY <1>1, <1>4 DEF Work, Take, Evaluate, Deliver, Stalls, Fails, AutoInv, Typed, QueueTyped
  <2> QED
    BY <2>1, <2>2, NothingNew
<1>5. ASSUME UNCHANGED <<rule, event>>
      PROVE  Crosses(r, c) <=> News(r, c)
  BY <1>5, NothingNew
<1>6. ASSUME NEW k \in Keys, Dispatch(k) \/ Evict(k)
      PROVE  UNCHANGED <<rule, event>>
  BY <1>6 DEF Dispatch, Evict, ruleVars
<1>7. ASSUME QueueLoses
      PROVE  UNCHANGED <<rule, event>>
  BY <1>7 DEF QueueLoses, ruleVars
<1>8. ASSUME NEW p \in People, Confirm(p)
      PROVE  UNCHANGED <<rule, event>>
  BY <1>8 DEF Confirm, AskReads, Issue, ConfirmReads, Claim, ConfirmCommits, Rollback, Leaves,
              ruleVars
<1>9. ASSUME NEW n \in Runs, WindowCloses(n) \/ Expire(n)
      PROVE  UNCHANGED <<rule, event>>
  BY <1>9 DEF WindowCloses, Expire, ruleVars
<1> QED
  BY <1>2, <1>3, <1>4, <1>5, <1>6, <1>7, <1>8, <1>9, Zenon DEF AutomationNext

\* Whichever schedulers race, however often a rule re-arms: a rule's memory moves
\* past the line exactly when the event of that crossing enters the outbox.
THEOREM CrossingsAreNews == AutomationSpec => CrossingIsNews
<1> DEFINE A == \A r \in Threshold, c \in 0..MaxCycle :
                  (rule[r].side = "below" /\ rule'[r].side = "past" /\ rule[r].cycle = c)
                    <=> (event[<<r, c>>] = None /\ event'[<<r, c>>] = "recorded")
<1>1. AutoInv /\ [AutomationNext]_automationVars => [A]_automationVars
  <2> SUFFICES ASSUME AutoInv, AutomationNext
               PROVE  A
    OBVIOUS
  <2> QED
    BY AutomationAssumption, StepIsNews DEF Crosses, News
<1> QED
  BY <1>1, AutoInvHolds, PTL DEF AutomationSpec, CrossingIsNews
=============================================================================
