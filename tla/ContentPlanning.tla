--------------------------- MODULE ContentPlanning --------------------------
(***************************************************************************)
(* Reviewing, editing and scheduling content: the status of an item, the   *)
(* approvals of its review cycles, its calendar slots and the monthly      *)
(* quota of scheduled posts.                                               *)
(*                                                                         *)
(* Every request is one READ COMMITTED transaction (withWorkspace): it     *)
(* reads what it decides on in one step and commits its writes in a later  *)
(* one, so whatever other requests commit in between is stale in what it   *)
(* read.  Deciding and withdrawing a review hold the row lock of the       *)
(* approval from the read to the commit; every other read is unlocked.     *)
(* Any transaction may also end without effect (Abort): a refusal by a     *)
(* guard or a unique index, an error, a timeout.                           *)
(*                                                                         *)
(* Source: packages/content/src/approvals.ts, library.ts, studio.ts and    *)
(* calendar.ts; packages/entitlements/src/usage.ts for the quota.          *)
(***************************************************************************)
EXTENDS Integers, FiniteSets, Sequences

CONSTANTS Items,
          Edited,          \* the items users review and edit here; the others
                           \* are only planned (bounds the instance)
          Requests,        \* the requests users make here (bounds the instance)
          Users,           \* sessions, each with one request at a time
          Words,           \* what the variants of an item can say
          Days,            \* the days a post may be planned for
          MaxCycles,       \* policy: review cycles per item
          MaxSlotsPerDay,  \* policy: posts planned for one day
          Limit,           \* limit.scheduled_posts, per month
          MaxSlots,        \* bound on the slots ever created
          MaxMonth         \* bound on the month

ASSUME PlanningAssumption ==
  /\ Edited \subseteq Items
  /\ MaxCycles \in Nat /\ MaxSlotsPerDay \in Nat /\ Limit \in Nat
  /\ MaxSlots \in Nat /\ MaxMonth \in Nat

VARIABLES
  status,     \* status of each item
  deleted,    \* the items whose deletedAt is set
  words,      \* what the variants of each item say now
  approvals,  \* the approvals of each item, in the order of creation
  slots,      \* the calendar slots, in the order of creation
  used,       \* usage_counter.usedValue of each month
  events,     \* usage_event rows: a slot's consumption or refund, and its month
  gate,       \* policy: requireApprovalBeforeScheduling
  month,
  tx          \* the open transaction of each user

planningVars == <<status, deleted, words, approvals, slots, used, events,
                  gate, month, tx>>

ItemStatus == {"DRAFT", "IN_REVIEW", "CHANGES_REQUESTED", "APPROVED",
               "SCHEDULED", "ARCHIVED", "PUBLISHING", "PUBLISHED",
               "PARTIALLY_PUBLISHED", "FAILED"}

ApprovalStatus == {"PENDING", "APPROVED", "CHANGES_REQUESTED", "REJECTED",
                   "CANCELLED"}

SlotStatus == {"SCHEDULED", "PUBLISHING", "PUBLISHED", "PARTIALLY_PUBLISHED",
               "FAILED", "CANCELLED"}

None == "none"

Months == 0..MaxMonth

Operations == {"submit", "withdraw", "approve", "request_changes", "reject", "edit",
               "DRAFT", "ARCHIVED", "schedule", "reschedule", "unschedule", "unscheduling"}

\* A transaction between its reads and its commit: what it runs, on which
\* item, the status it read there, the approval or slot it found, the cycle
\* number, the words it read and the day asked for.
Transactions == [op: Operations, item: Items, seen: ItemStatus \cup {None},
                 target: Nat, cycle: Nat, read: Words \cup {None},
                 day: Days \cup {None}]

Idle == [op |-> "idle"]

Init ==
  /\ status = [i \in Items |-> "DRAFT"]
  /\ deleted = {}
  /\ words \in [Items -> Words]
  /\ approvals = [i \in Items |-> << >>]
  /\ slots = << >>
  /\ used = [m \in Months |-> 0]
  /\ events = {}
  /\ gate \in BOOLEAN
  /\ month = 0
  /\ tx = [u \in Users |-> Idle]

-----------------------------------------------------------------------------
(* Transactions *)

contentVars == <<status, deleted, words>>
calendarVars == <<slots, used, events>>

Asked(op, i) == [op |-> op, item |-> i, seen |-> None, target |-> 0,
                 cycle |-> 0, read |-> None, day |-> None]

\* All that an operation asks of the item's status: is it s?
Sees(i, s) == IF status[i] = s THEN s ELSE None

\* The reads of u's request are done; nothing is written yet.
Opens(u, t) ==
  /\ tx[u] = Idle
  /\ t.op \in Requests
  /\ tx' = [tx EXCEPT ![u] = t]
  /\ UNCHANGED <<contentVars, approvals, calendarVars, gate, month>>

\* u commits a request of one of these operations.
Commits(u, ops) ==
  /\ tx[u].op \in ops
  /\ tx' = [tx EXCEPT ![u] = Idle]
  /\ UNCHANGED <<gate, month>>

Abort(u) ==
  /\ tx[u] # Idle
  /\ tx' = [tx EXCEPT ![u] = Idle]
  /\ UNCHANGED <<contentVars, approvals, calendarVars, gate, month>>

\* contentItem.update: by id alone, whatever the status is by now.
SetStatus(i, s) == status' = [status EXCEPT ![i] = s]

-----------------------------------------------------------------------------
(* Reviews: ContentApprovalService *)

IsPending(i, a) == a \in DOMAIN approvals[i] /\ approvals[i][a].status = "PENDING"

\* approval_one_open_per_item, a partial unique index.
MayOpen(i) == \A a \in DOMAIN approvals[i] : ~IsPending(i, a)

\* The cycle is numbered from a count that is not locked.
SubmitReads(u, i) ==
  /\ i \notin deleted
  /\ status[i] \in {"DRAFT", "CHANGES_REQUESTED"}
  /\ Len(approvals[i]) < MaxCycles
  /\ Opens(u, [Asked("submit", i) EXCEPT !.cycle = Len(approvals[i]) + 1])

SubmitCommits(u) ==
  LET i == tx[u].item IN
  /\ Commits(u, {"submit"})
  /\ MayOpen(i)
  /\ approvals' = [approvals EXCEPT ![i] =
       Append(@, [status |-> "PENDING", cycle |-> tx[u].cycle, covers |-> None])]
  /\ SetStatus(i, "IN_REVIEW")
  /\ UNCHANGED <<deleted, words, calendarVars>>

Verdicts == {"approve", "request_changes", "reject"}

\* SELECT ... FOR UPDATE on the approval, by a decision or a withdrawal.
Locked(i, a) == \E v \in Users : /\ tx[v].op \in Verdicts \cup {"withdraw"}
                                 /\ tx[v].item = i
                                 /\ tx[v].target = a

\* Mutant: a verdict is read without the lock and written by id alone.
MayCloseById(u, i, a) == a \in DOMAIN approvals[i]

\* The approval u may lock, or close under the lock it holds.
MayClose(u, i, a) ==
  /\ IsPending(i, a)
  /\ tx[u] = Idle => ~Locked(i, a)

DecideReads(u, i, a, verdict) ==
  /\ MayClose(u, i, a)
  /\ i \notin deleted
  /\ Opens(u, [Asked(verdict, i) EXCEPT
       !.target = a, !.read = IF verdict = "approve" THEN words[i] ELSE None])

\* updateMany on status PENDING; the fingerprint is of the words as read.
Close(u, s, covers) ==
  LET i == tx[u].item
      a == tx[u].target
  IN  /\ MayClose(u, i, a)
      /\ approvals' = [approvals EXCEPT ![i][a].status = s,
                                        ![i][a].covers = covers]

DecideCommits(u) ==
  /\ Commits(u, Verdicts)
  /\ \/ /\ tx[u].op = "approve"
        /\ Close(u, "APPROVED", tx[u].read)
        /\ SetStatus(tx[u].item, "APPROVED")
     \/ /\ tx[u].op = "request_changes"
        /\ Close(u, "CHANGES_REQUESTED", None)
        /\ SetStatus(tx[u].item, "CHANGES_REQUESTED")
     \/ /\ tx[u].op = "reject"
        /\ Close(u, "REJECTED", None)
        /\ SetStatus(tx[u].item, "DRAFT")
  /\ UNCHANGED <<deleted, words, calendarVars>>

CancelReads(u, i, a) ==
  /\ MayClose(u, i, a)
  /\ Opens(u, [Asked("withdraw", i) EXCEPT !.target = a, !.seen = Sees(i, "IN_REVIEW")])

\* Mutant: the cycle closes and the item is left where it stands.
CancelCommitsCycleOnly(u) ==
  /\ Commits(u, {"withdraw"})
  /\ Close(u, "CANCELLED", None)
  /\ UNCHANGED <<contentVars, calendarVars>>

\* Only an item seen in review goes back to a draft.
CancelCommits(u) ==
  /\ Commits(u, {"withdraw"})
  /\ Close(u, "CANCELLED", None)
  /\ IF tx[u].seen = "IN_REVIEW" THEN SetStatus(tx[u].item, "DRAFT")
                                 ELSE UNCHANGED status
  /\ UNCHANGED <<deleted, words, calendarVars>>

SetPolicy ==
  /\ "policy" \in Requests
  /\ gate' = ~gate
  /\ UNCHANGED <<contentVars, approvals, calendarVars, month, tx>>

-----------------------------------------------------------------------------
(* Edits: ContentLibraryService and the studio's tools *)

EditReads(u, i) == Opens(u, [Asked("edit", i) EXCEPT !.seen = Sees(i, "APPROVED")])

\* The edit of an approved item revokes the approval; a scheduled one is only
\* audited.
EditCommits(u) ==
  LET i == tx[u].item IN
  /\ Commits(u, {"edit"})
  /\ \E w \in Words : words' = [words EXCEPT ![i] = w]
  /\ IF tx[u].seen = "APPROVED" THEN SetStatus(i, "DRAFT") ELSE UNCHANGED status
  /\ UNCHANGED <<deleted, approvals, calendarVars>>

\* A tool of the studio rewrites a variant and looks at no status at all.
ApplyTool(i) ==
  /\ "tool" \in Requests
  /\ \E w \in Words : words' = [words EXCEPT ![i] = w]
  /\ UNCHANGED <<status, deleted, approvals, calendarVars, gate, month, tx>>

\* What the library may move an item to directly.
Allowed(s) == CASE s = "DRAFT" -> {"ARCHIVED"}
                [] s = "CHANGES_REQUESTED" -> {"DRAFT", "ARCHIVED"}
                [] s = "APPROVED" -> {"ARCHIVED"}
                [] s = "ARCHIVED" -> {"DRAFT"}
                [] OTHER -> {}

TransitionReads(u, i, to) ==
  /\ i \notin deleted
  /\ to \in Allowed(status[i])
  /\ Opens(u, Asked(to, i))

TransitionCommits(u) ==
  /\ Commits(u, {"DRAFT", "ARCHIVED"})
  /\ SetStatus(tx[u].item, tx[u].op)
  /\ UNCHANGED <<deleted, words, approvals, calendarVars>>

\* The undo of a draft is conditional on the status it observed: one step.
ArchiveItem(i) ==
  /\ "undo" \in Requests
  /\ i \notin deleted
  /\ status[i] = "DRAFT"
  /\ SetStatus(i, "ARCHIVED")
  /\ deleted' = deleted \cup {i}
  /\ UNCHANGED <<words, approvals, calendarVars, gate, month, tx>>

\* Retention: an expired item is soft-deleted wherever it stands.
PurgeExpired(i) ==
  /\ "purge" \in Requests
  /\ i \notin deleted
  /\ deleted' = deleted \cup {i}
  /\ UNCHANGED <<status, words, approvals, calendarVars, gate, month, tx>>

-----------------------------------------------------------------------------
(* The monthly quota: UsageService *)

Recorded(s, kind) == \E m \in Months : <<s, kind, m>> \in events

\* Mutant: the limit is not part of the statement.
ConsumeUnchecked(s) ==
  /\ used' = [used EXCEPT ![month] = @ + 1]
  /\ events' = events \cup {<<s, "consume", month>>}

\* One conditional statement, the event in the same transaction.
Consume(s) ==
  /\ used[month] + 1 <= Limit
  /\ used' = [used EXCEPT ![month] = @ + 1]
  /\ events' = events \cup {<<s, "consume", month>>}

\* Mutant: the counter is not clamped.
Minus1Unclamped(n) == n - 1

\* GREATEST(0, usedValue - 1)
Minus1(n) == IF n = 0 THEN 0 ELSE n - 1

\* Mutant: a repeated refund gives the unit back again.
RefundAgain(s) ==
  /\ used' = [used EXCEPT ![month] = Minus1(@)]
  /\ events' = events \cup {<<s, "refund", month>>}

\* Against the counter of the month of the refund, at most once by its key; a
\* month without a counter has nothing to give back.
Refund(s) ==
  IF Recorded(s, "refund") \/ \A e \in events : e[3] # month
  THEN UNCHANGED <<used, events>>
  ELSE /\ used' = [used EXCEPT ![month] = Minus1(@)]
       /\ events' = events \cup {<<s, "refund", month>>}

NextMonth ==
  /\ month < MaxMonth
  /\ month' = month + 1
  /\ UNCHANGED <<contentVars, approvals, calendarVars, gate, tx>>

-----------------------------------------------------------------------------
(* The calendar: ContentCalendarService *)

Live(s) == s \in DOMAIN slots /\ slots[s].status # "CANCELLED"
LiveSlots(i) == {s \in DOMAIN slots : Live(s) /\ slots[s].item = i}

DayHasRoom(d, except) ==
  Cardinality({s \in DOMAIN slots \ {except} : Live(s) /\ slots[s].day = d})
    < MaxSlotsPerDay

ScheduleReads(u, i, d) ==
  /\ i \notin deleted
  /\ status[i] \in IF gate THEN {"APPROVED"} ELSE {"DRAFT", "APPROVED", "SCHEDULED"}
  /\ LiveSlots(i) = {}
  /\ DayHasRoom(d, 0)
  /\ Opens(u, [Asked("schedule", i) EXCEPT !.day = d])

\* calendar_slot_one_live_per_item, a partial unique index, backs the read.
ScheduleCommits(u) ==
  LET i == tx[u].item IN
  /\ Len(slots) < MaxSlots
  /\ Commits(u, {"schedule"})
  /\ LiveSlots(i) = {}
  /\ Consume(Len(slots) + 1)
  /\ slots' = Append(slots, [item |-> i, day |-> tx[u].day, month |-> month,
                             status |-> "SCHEDULED"])
  /\ SetStatus(i, "SCHEDULED")
  /\ UNCHANGED <<deleted, words, approvals>>

RescheduleReads(u, s, d) ==
  /\ Live(s)
  /\ DayHasRoom(d, s)
  /\ Opens(u, [Asked("reschedule", slots[s].item) EXCEPT !.target = s, !.day = d])

RescheduleCommits(u) ==
  /\ Commits(u, {"reschedule"})
  /\ slots' = [slots EXCEPT ![tx[u].target].day = tx[u].day]
  /\ UNCHANGED <<contentVars, approvals, used, events>>

\* The slot is read first; its update takes the row lock, under which the item
\* is read, and the item's update follows.
UnscheduleReads(u, s) ==
  /\ Live(s)
  /\ Opens(u, [Asked("unschedule", slots[s].item) EXCEPT !.target = s])

UnscheduleLocks(u) ==
  LET t == tx[u] IN
  /\ t.op = "unschedule"
  /\ \A v \in Users : ~(tx[v].op = "unscheduling" /\ tx[v].target = t.target)
  /\ tx' = [tx EXCEPT ![u].op = "unscheduling", ![u].seen = Sees(t.item, "SCHEDULED")]
  /\ UNCHANGED <<contentVars, approvals, calendarVars, gate, month>>

\* Mutant: the item of a slot taken off the calendar stays scheduled.
UnscheduleCommitsSlotOnly(u) ==
  /\ Commits(u, {"unscheduling"})
  /\ slots' = [slots EXCEPT ![tx[u].target].status = "CANCELLED"]
  /\ Refund(tx[u].target)
  /\ UNCHANGED <<contentVars, approvals>>

UnscheduleCommits(u) ==
  /\ Commits(u, {"unscheduling"})
  /\ slots' = [slots EXCEPT ![tx[u].target].status = "CANCELLED"]
  /\ Refund(tx[u].target)
  /\ IF tx[u].seen = "SCHEDULED" THEN SetStatus(tx[u].item, "DRAFT")
                                 ELSE UNCHANGED status
  /\ UNCHANGED <<deleted, words, approvals>>

-----------------------------------------------------------------------------

Review(u) ==
  \/ \E i \in Edited : SubmitReads(u, i)
  \/ SubmitCommits(u)
  \/ \E i \in Edited : \E a \in DOMAIN approvals[i] :
        CancelReads(u, i, a) \/ \E v \in Verdicts : DecideReads(u, i, a, v)
  \/ DecideCommits(u)
  \/ CancelCommits(u)

EditContent(u) ==
  \/ \E i \in Edited : EditReads(u, i)
  \/ EditCommits(u)
  \/ \E i \in Edited, to \in {"DRAFT", "ARCHIVED"} : TransitionReads(u, i, to)
  \/ TransitionCommits(u)

Plan(u) ==
  \/ \E i \in Items, d \in Days : ScheduleReads(u, i, d)
  \/ ScheduleCommits(u)
  \/ \E s \in DOMAIN slots, d \in Days : RescheduleReads(u, s, d)
  \/ RescheduleCommits(u)
  \/ \E s \in DOMAIN slots : UnscheduleReads(u, s)
  \/ UnscheduleLocks(u)
  \/ UnscheduleCommits(u)

PlanningNext ==
  \/ \E u \in Users : Review(u) \/ EditContent(u) \/ Plan(u) \/ Abort(u)
  \/ \E i \in Edited : ApplyTool(i) \/ ArchiveItem(i) \/ PurgeExpired(i)
  \/ SetPolicy
  \/ NextMonth

PlanningSpec == Init /\ [][PlanningNext]_planningVars

-----------------------------------------------------------------------------
(* Properties *)

Approval == [status: ApprovalStatus, cycle: Nat, covers: Words \cup {None}]
Slot == [item: Items, day: Days, month: Months, status: SlotStatus]

\* Every row and every open transaction has its type.
TypeOK ==
  /\ status \in [Items -> ItemStatus]
  /\ deleted \subseteq Items
  /\ words \in [Items -> Words]
  /\ approvals \in [Items -> Seq(Approval)]
  /\ slots \in Seq(Slot)
  /\ used \in [Months -> Nat]
  /\ events \subseteq Nat \X {"consume", "refund"} \X Months
  /\ gate \in BOOLEAN
  /\ month \in Months
  /\ tx \in [Users -> Transactions \cup {Idle}]

\* An item in review has an open approval behind it: otherwise no operation of
\* the library, the calendar or the reviews could move it again (submit refuses
\* IN_REVIEW, transition allows nothing, decide and cancel need a PENDING row).
ReviewIsOpen ==
  \A i \in Items : status[i] = "IN_REVIEW" => ~MayOpen(i)

\* A scheduled item has a live slot: otherwise only schedule, with the gate
\* off, could ever move it (submit and transition refuse SCHEDULED).
ScheduledIsPlanned ==
  \A i \in Items : status[i] = "SCHEDULED" => LiveSlots(i) # {}

\* Two reviewers, or a reviewer and a withdrawal, never both close a cycle: a
\* verdict, once given, is neither replaced nor erased.
VerdictsStand ==
  [][\A i \in Items : \A a \in DOMAIN approvals[i] :
       approvals[i][a].status # "PENDING" => approvals'[i][a] = approvals[i][a]
    ]_planningVars

Of(kind, m) == {e \in events : e[2] = kind /\ e[3] = m}

\* The counter of a month never falls below what its events add up to, however
\* refunds repeat or reach a month that consumed less.
CounterCoversEvents ==
  \A m \in Months :
    used[m] + Cardinality(Of("refund", m)) >= Cardinality(Of("consume", m))

\* The posts placed in a month and still on the calendar exceed the plan only
\* by the refunds that month's counter took for placements of other months.
MonthIsMetered ==
  \A m \in Months :
    Cardinality({s \in DOMAIN slots : Live(s) /\ slots[s].month = m})
      <= Limit + Cardinality({e \in Of("refund", m) : slots[e[1]].month # m})
=============================================================================
