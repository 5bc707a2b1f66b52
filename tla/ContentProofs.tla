---------------------------- MODULE ContentProofs ----------------------------
(***************************************************************************)
(* The proofs about the content, in three parts: what planning guarantees  *)
(* by itself (ContentPlanning), what the publishing pipeline guarantees of *)
(* every job (PublishPipeline, which extends it), and what the two         *)
(* guarantee together of the words that go out and of what a slot shows.   *)
(***************************************************************************)
EXTENDS PublishPipeline, SequenceTheorems, FiniteSetTheorems, TLAPS

-----------------------------------------------------------------------------
(***************************************************************************)
(* What reviews, the calendar and the monthly quota guarantee, for any     *)
(* number of items, users, words, days, review cycles and months.          *)
(*                                                                         *)
(* A request writes an item by id alone, on what it read earlier.  That no *)
(* item is stranded all the same rests on what a request holds while it is *)
(* open: a verdict or a withdrawal holds the row of a cycle that is still  *)
(* pending (Holding), so nobody else can open one; a slot being taken off  *)
(* the calendar holds its row, and an item has one live slot at a time     *)
(* (OneLive), so what replaced it is not the slot at hand.                 *)
(*                                                                         *)
(* The invariant comes in two layers.  Base holds of the requests whatever *)
(* else writes the slots; publishing builds on it.  What the calendar and  *)
(* the quota promise on top of it (PlanInv) holds until a post is due.     *)
(***************************************************************************)

ItemsTyped ==
  /\ status \in [Items -> ItemStatus]
  /\ deleted \subseteq Items
  /\ words \in [Items -> Words]
  /\ gate \in BOOLEAN
  /\ month \in Months

ApprovalsTyped == approvals \in [Items -> Seq(Approval)]

SlotsTyped == slots \in Seq(Slot)

MeterTyped ==
  /\ used \in [Months -> Nat]
  /\ events \subseteq Nat \X {"consume", "refund"} \X Months

RequestsTyped == tx \in [Users -> Transactions \cup {Idle}]

Closing(u) == tx[u].op \in Verdicts \cup {"withdraw"}

\* A verdict or a withdrawal holds the row of a pending cycle, alone; and a
\* withdrawal that did not see the item in review is right to leave it.
Holding ==
  /\ \A u \in Users : Closing(u) => IsPending(tx[u].item, tx[u].target)
  /\ \A u, v \in Users :
       Closing(u) /\ Closing(v) /\ tx[u].item = tx[v].item /\ tx[u].target = tx[v].target
         => u = v
  /\ \A u \in Users : tx[u].op = "withdraw" /\ status[tx[u].item] = "IN_REVIEW"
       => tx[u].seen = "IN_REVIEW"

OneLive ==
  \A s, t \in DOMAIN slots : Live(s) /\ Live(t) /\ slots[s].item = slots[t].item => s = t

\* A request about a slot knows its row.
Requested ==
  /\ \A u \in Users : tx[u].op \in {"schedule", "reschedule"} => tx[u].day \in Days
  /\ \A u \in Users : tx[u].op \in {"reschedule", "unschedule", "unscheduling"} =>
       tx[u].target \in DOMAIN slots /\ slots[tx[u].target].item = tx[u].item

\* A request that takes a slot off the calendar and did not see the item
\* scheduled leaves another slot behind if it is.
Replaced ==
  \A u \in Users : tx[u].op = "unscheduling" /\ status[tx[u].item] = "SCHEDULED" =>
    tx[u].seen = "SCHEDULED" \/ \E s \in LiveSlots(tx[u].item) : s # tx[u].target

\* Every slot was paid for once in its month, and given back once at most, when
\* it left the calendar.
Metered ==
  /\ IsFiniteSet(events)
  /\ \A m \in Months : used[m] <= Limit
  /\ \A e \in events : e[1] \in DOMAIN slots
  /\ \A s \in DOMAIN slots : <<s, "consume", slots[s].month>> \in events
  /\ \A s \in DOMAIN slots : Recorded(s, "refund") => slots[s].status = "CANCELLED"

Typed == ItemsTyped /\ ApprovalsTyped /\ SlotsTyped /\ MeterTyped /\ RequestsTyped

Base == Typed /\ Holding /\ ReviewIsOpen /\ Requested

Calendar == OneLive /\ Replaced /\ ScheduledIsPlanned

Quota == Metered /\ CounterCoversEvents

PlanInv == Base /\ Calendar /\ Quota

-----------------------------------------------------------------------------

LEMMA IdleIsIdle ==
  /\ Idle.op = "idle"
  /\ \A t \in Transactions : t \in [op: Operations, item: Items, seen: ItemStatus \cup {None},
         target: Nat, cycle: Nat, read: Words \cup {None}, day: Days \cup {None}]
BY DEF Idle, Transactions

LEMMA OpenRequest ==
  ASSUME RequestsTyped, NEW u \in Users, tx[u].op # "idle"
  PROVE  tx[u] \in Transactions /\ tx[u].item \in Items /\ tx[u].target \in Nat
         /\ tx[u].cycle \in Nat /\ tx[u].read \in Words \cup {None}
         /\ tx[u].day \in Days \cup {None}
BY DEF RequestsTyped, Idle, Transactions

\* A part of the invariant is kept by a step that leaves its tables alone.
LEMMA Untouched ==
  ASSUME Base
  PROVE  /\ UNCHANGED <<contentVars, gate, month>> => ItemsTyped'
         /\ UNCHANGED approvals => ApprovalsTyped'
         /\ UNCHANGED slots => SlotsTyped'
         /\ UNCHANGED <<used, events>> => MeterTyped'
         /\ UNCHANGED tx => RequestsTyped'
         /\ UNCHANGED <<status, approvals>> => ReviewIsOpen'
<1>1. UNCHANGED <<contentVars, gate, month>> => ItemsTyped'
  BY DEF Base, Typed, ItemsTyped, contentVars
<1>2. UNCHANGED approvals => ApprovalsTyped'
  BY DEF Base, Typed, ApprovalsTyped
<1>3. UNCHANGED slots => SlotsTyped'
  BY DEF Base, Typed, SlotsTyped
<1>4. UNCHANGED <<used, events>> => MeterTyped'
  BY DEF Base, Typed, MeterTyped
<1>5. UNCHANGED tx => RequestsTyped'
  BY DEF Base, Typed, RequestsTyped
<1>6. UNCHANGED <<status, approvals>> => ReviewIsOpen'
  BY DEF Base, ReviewIsOpen, MayOpen, IsPending
<1> QED
  BY <1>1, <1>2, <1>3, <1>4, <1>5, <1>6

LEMMA SlotRows ==
  ASSUME Base
  PROVE  /\ slots \in Seq(Slot) /\ Len(slots) \in Nat /\ DOMAIN slots = 1..Len(slots)
         /\ \A s \in DOMAIN slots : s \in Nat /\ slots[s] \in Slot
<1>1. slots \in Seq(Slot)
  BY DEF Base, Typed, SlotsTyped
<1>2. Len(slots) \in Nat /\ slots \in [1..Len(slots) -> Slot] /\ DOMAIN slots = 1..Len(slots)
  BY <1>1, LenProperties
<1> QED
  BY <1>1, <1>2

LEMMA ApprovalRows ==
  ASSUME Base, NEW i \in Items
  PROVE  /\ approvals[i] \in Seq(Approval) /\ Len(approvals[i]) \in Nat
         /\ DOMAIN approvals[i] = 1..Len(approvals[i])
         /\ \A a \in DOMAIN approvals[i] : approvals[i][a] \in Approval
<1>1. approvals[i] \in Seq(Approval)
  BY DEF Base, Typed, ApprovalsTyped
<1>2. /\ Len(approvals[i]) \in Nat /\ approvals[i] \in [1..Len(approvals[i]) -> Approval]
      /\ DOMAIN approvals[i] = 1..Len(approvals[i])
  BY <1>1, LenProperties
<1> QED
  BY <1>1, <1>2

-----------------------------------------------------------------------------
(* Requests that open, and those that end without touching a review or a slot *)

\* What the reads of a request have established when it opens.
Proper(t) ==
  /\ t.op # "unscheduling"
  /\ t.op \in {"schedule", "reschedule"} => t.day \in Days
  /\ t.op \in {"reschedule", "unschedule"} =>
       t.target \in DOMAIN slots /\ slots[t.target].item = t.item
  /\ t.op \in Verdicts \cup {"withdraw"} =>
       IsPending(t.item, t.target) /\ ~Locked(t.item, t.target)
  /\ t.op = "withdraw" => t.seen = Sees(t.item, "IN_REVIEW")

LEMMA OpensBase ==
  ASSUME Base, NEW u \in Users, NEW t \in Transactions, Opens(u, t), Proper(t)
  PROVE  Base'
<1>1. /\ tx' = [tx EXCEPT ![u] = t]
      /\ UNCHANGED <<contentVars, approvals, calendarVars, gate, month>>
  BY DEF Opens
<1>2. RequestsTyped' /\ tx'[u] = t /\ \A v \in Users : v # u => tx'[v] = tx[v]
  BY <1>1 DEF Base, Typed, RequestsTyped
<1>3. ItemsTyped' /\ ApprovalsTyped' /\ SlotsTyped' /\ MeterTyped' /\ ReviewIsOpen'
  BY <1>1, Untouched DEF contentVars, calendarVars
<1>4. Holding'
  <2>1. \A v \in Users : Closing(v)' => IsPending(tx[v].item, tx[v].target)'
    BY <1>1, <1>2 DEF Base, Holding, Closing, IsPending, Proper
  <2>2. \A v \in Users : v # u /\ Closing(u)' /\ Closing(v)'
          => ~(tx[v].item = t.item /\ tx[v].target = t.target)
    BY <1>1, <1>2 DEF Closing, Locked, Proper
  <2>3. \A v, w \in Users :
          Closing(v)' /\ Closing(w)' /\ tx'[v].item = tx'[w].item /\ tx'[v].target = tx'[w].target
            => v = w
    BY <1>2, <2>2 DEF Base, Holding, Closing
  <2>4. \A v \in Users : tx'[v].op = "withdraw" /\ status'[tx'[v].item] = "IN_REVIEW"
          => tx'[v].seen = "IN_REVIEW"
    BY <1>1, <1>2 DEF Base, Holding, Sees, contentVars, Proper
  <2> QED
    BY <2>1, <2>3, <2>4 DEF Holding
<1>5. Requested'
  <2>1. UNCHANGED slots
    BY <1>1 DEF calendarVars
  <2> QED
    BY <1>2, <2>1 DEF Base, Requested, Proper
<1> QED
  BY <1>2, <1>3, <1>4, <1>5 DEF Base, Typed

\* Every request goes on as it was, or is over.
GoOn == \A v \in Users : tx'[v].op = "idle" \/ tx'[v] = tx[v]

LEMMA RequestEnds ==
  ASSUME Base, NEW u \in Users, tx' = [tx EXCEPT ![u] = Idle]
  PROVE  /\ RequestsTyped' /\ GoOn /\ tx'[u].op = "idle"
         /\ \A v \in Users : v # u => tx'[v] = tx[v]
BY IdleIsIdle DEF Base, Typed, RequestsTyped, GoOn

LEMMA HoldingKept ==
  ASSUME Base, UNCHANGED approvals, \A v \in Users : Closing(v)' => tx'[v] = tx[v],
         \A i \in Items : status'[i] = "IN_REVIEW" => status[i] = "IN_REVIEW"
  PROVE  Holding' /\ ReviewIsOpen'
<1>1. \A v \in Users : Closing(v)' => Closing(v) /\ tx'[v] = tx[v]
  BY DEF Closing
<1>2. \A v \in Users : Closing(v)' => tx'[v] = tx[v] /\ tx[v].item \in Items
  BY <1>1, OpenRequest DEF Base, Typed, Closing, Verdicts
<1>3. \A v \in Users : Closing(v)' => IsPending(tx[v].item, tx[v].target)'
  BY <1>1 DEF Base, Holding, IsPending
<1>4. \A v, w \in Users :
        Closing(v)' /\ Closing(w)' /\ tx'[v].item = tx'[w].item /\ tx'[v].target = tx'[w].target
          => v = w
  BY <1>1 DEF Base, Holding
<1>5. \A v \in Users : tx'[v].op = "withdraw" /\ status'[tx'[v].item] = "IN_REVIEW"
        => tx'[v].seen = "IN_REVIEW"
  BY <1>2 DEF Base, Holding, Closing
<1>6. Holding'
  BY <1>3, <1>4, <1>5 DEF Holding
<1>7. ReviewIsOpen'
  BY DEF Base, ReviewIsOpen, MayOpen, IsPending
<1> QED
  BY <1>6, <1>7

LEMMA RequestedKept ==
  ASSUME Base, GoOn,
         \A s \in DOMAIN slots : s \in DOMAIN slots' /\ slots'[s].item = slots[s].item
  PROVE  Requested'
BY DEF Base, Requested, GoOn

\* A step of the library or the studio, a refusal, the policy, the month.
LEMMA ContentBase ==
  ASSUME Base, GoOn, RequestsTyped', ItemsTyped', UNCHANGED <<approvals, calendarVars>>,
         \A i \in Items : status'[i] = "IN_REVIEW" => status[i] = "IN_REVIEW"
  PROVE  Base'
<1>1. UNCHANGED <<slots, used, events, approvals>>
  BY DEF calendarVars
<1>2. ApprovalsTyped' /\ SlotsTyped' /\ MeterTyped'
  BY <1>1, Untouched
<1>3. \A v \in Users : Closing(v)' => tx'[v] = tx[v]
  BY DEF GoOn, Closing, Verdicts
<1>4. Holding' /\ ReviewIsOpen' /\ Requested'
  BY <1>1, <1>3, HoldingKept, RequestedKept
<1> QED
  BY <1>2, <1>4 DEF Base, Typed

\* What an edit, a transition or a refusal does to the items.
LEMMA EditIs ==
  ASSUME Base, NEW u \in Users, EditCommits(u) \/ TransitionCommits(u) \/ Abort(u)
  PROVE  /\ UNCHANGED <<approvals, calendarVars>> /\ GoOn /\ RequestsTyped' /\ ItemsTyped'
         /\ \A i \in Items : status'[i] \in {status[i], "DRAFT", "ARCHIVED"}
<1>1. tx' = [tx EXCEPT ![u] = Idle] /\ tx[u] # Idle /\ UNCHANGED <<approvals, calendarVars>>
  BY IdleIsIdle DEF EditCommits, TransitionCommits, Abort, Commits
<1>2. RequestsTyped' /\ GoOn
  BY <1>1, RequestEnds
<1>3. tx[u].item \in Items
  BY <1>1 DEF Base, Typed, RequestsTyped, Transactions
<1>4. ItemsTyped' /\ \A i \in Items : status'[i] \in {status[i], "DRAFT", "ARCHIVED"}
  <2>1. CASE EditCommits(u)
    BY <1>3, <2>1 DEF EditCommits, Commits, SetStatus, Base, Typed, ItemsTyped, ItemStatus
  <2>2. CASE TransitionCommits(u)
    BY <1>3, <2>2 DEF TransitionCommits, Commits, SetStatus, Base, Typed, ItemsTyped, ItemStatus
  <2>3. CASE Abort(u)
    BY <2>3 DEF Abort, contentVars, Base, Typed, ItemsTyped
  <2> QED
    BY <2>1, <2>2, <2>3
<1> QED
  BY <1>1, <1>2, <1>4

LEMMA BesideIs ==
  ASSUME Base,
         (\E i \in Edited : ApplyTool(i) \/ ArchiveItem(i) \/ PurgeExpired(i)) \/ SetPolicy \/ NextMonth
  PROVE  /\ UNCHANGED <<approvals, calendarVars, tx>> /\ GoOn /\ RequestsTyped' /\ ItemsTyped'
         /\ \A i \in Items : status'[i] \in {status[i], "DRAFT", "ARCHIVED"}
<1>1. UNCHANGED <<approvals, calendarVars, tx>> /\ Edited \subseteq Items
  BY PlanningAssumption DEF ApplyTool, ArchiveItem, PurgeExpired, SetPolicy, NextMonth
<1>2. RequestsTyped' /\ GoOn
  BY <1>1, Untouched DEF GoOn
<1>3. ItemsTyped' /\ \A j \in Items : status'[j] \in {status[j], "DRAFT", "ARCHIVED"}
  <2>1. CASE \E i \in Edited : ApplyTool(i)
    BY <1>1, <2>1 DEF ApplyTool, Base, Typed, ItemsTyped
  <2>2. CASE \E i \in Edited : ArchiveItem(i)
    BY <1>1, <2>2 DEF ArchiveItem, SetStatus, Base, Typed, ItemsTyped, ItemStatus
  <2>3. CASE \E i \in Edited : PurgeExpired(i)
    BY <1>1, <2>3 DEF PurgeExpired, Base, Typed, ItemsTyped
  <2>4. CASE SetPolicy
    BY <2>4 DEF SetPolicy, contentVars, Base, Typed, ItemsTyped
  <2>5. CASE NextMonth
    BY <2>5, PlanningAssumption DEF NextMonth, contentVars, Base, Typed, ItemsTyped, Months
  <2> QED
    BY <1>1, <2>1, <2>2, <2>3, <2>4, <2>5, Zenon
<1> QED
  BY <1>1, <1>2, <1>3

LEMMA AskedIs ==
  ASSUME NEW op \in Operations, NEW i \in Items
  PROVE  Asked(op, i) \in Transactions /\ Asked(op, i).op = op /\ Asked(op, i).item = i
BY DEF Asked, Transactions, Operations

\* Every request opens with reads that fit.
LEMMA PlainReads ==
  ASSUME Base, NEW u \in Users,
         \/ \E i \in Edited : SubmitReads(u, i) \/ EditReads(u, i)
         \/ \E i \in Edited, to \in {"DRAFT", "ARCHIVED"} : TransitionReads(u, i, to)
  PROVE  \E t \in Transactions : Opens(u, t) /\ Proper(t)
<1>1. \E t \in Transactions : Opens(u, t) /\ t.op \in {"submit", "edit", "DRAFT", "ARCHIVED"}
  <2>1. CASE \E i \in Edited : SubmitReads(u, i)
    <3>1. PICK i \in Edited : SubmitReads(u, i)
      BY <2>1
    <3> DEFINE t == [Asked("submit", i) EXCEPT !.cycle = Len(approvals[i]) + 1]
    <3>2. i \in Items /\ Len(approvals[i]) + 1 \in Nat
      BY PlanningAssumption, ApprovalRows
    <3>3. t \in Transactions /\ t.op = "submit"
      BY <3>2 DEF Asked, Transactions, Operations
    <3> QED
      BY <3>1, <3>3 DEF SubmitReads
  <2>2. CASE \E i \in Edited : EditReads(u, i)
    <3>1. PICK i \in Edited : EditReads(u, i)
      BY <2>2
    <3> DEFINE t == [Asked("edit", i) EXCEPT !.seen = Sees(i, "APPROVED")]
    <3>2. i \in Items /\ Sees(i, "APPROVED") \in ItemStatus \cup {None}
      BY PlanningAssumption DEF Sees, ItemStatus
    <3>3. t \in Transactions /\ t.op = "edit"
      BY <3>2 DEF Asked, Transactions, Operations
    <3> QED
      BY <3>1, <3>3 DEF EditReads
  <2>3. CASE \E i \in Edited, to \in {"DRAFT", "ARCHIVED"} : TransitionReads(u, i, to)
    BY <2>3, AskedIs, PlanningAssumption DEF TransitionReads, Operations
  <2> QED
    BY <2>1, <2>2, <2>3
<1>2. PICK t \in Transactions : Opens(u, t) /\ t.op \in {"submit", "edit", "DRAFT", "ARCHIVED"}
  BY <1>1
<1> QED
  BY <1>2 DEF Verdicts, Proper

\* A verdict or a withdrawal takes the lock on a pending cycle that is free.
LEMMA ReviewReads ==
  ASSUME Base, NEW u \in Users, NEW i \in Edited,
         NEW a \in DOMAIN approvals[i],
         CancelReads(u, i, a) \/ \E v \in Verdicts : DecideReads(u, i, a, v)
  PROVE  \E t \in Transactions : Opens(u, t) /\ Proper(t)
<1>1. i \in Items
  BY PlanningAssumption
<1>2. a \in Nat /\ words[i] \in Words
  BY <1>1, ApprovalRows DEF Base, Typed, ItemsTyped
<1>3. CASE CancelReads(u, i, a)
  <2> DEFINE t == [Asked("withdraw", i) EXCEPT !.target = a, !.seen = Sees(i, "IN_REVIEW")]
  <2>1. Sees(i, "IN_REVIEW") \in ItemStatus \cup {None}
    BY DEF Sees, ItemStatus
  <2>2. /\ t \in Transactions /\ t.op = "withdraw" /\ t.item = i /\ t.target = a
        /\ t.seen = Sees(i, "IN_REVIEW")
    BY <1>1, <1>2, <2>1 DEF Asked, Transactions, Operations
  <2>3. Opens(u, t) /\ IsPending(i, a) /\ ~Locked(i, a)
    BY <1>3 DEF CancelReads, MayClose, Opens
  <2> HIDE DEF t
  <2> QED
    BY <2>2, <2>3 DEF Proper, Verdicts
<1>4. ASSUME NEW v \in Verdicts, DecideReads(u, i, a, v)
      PROVE  \E t \in Transactions : Opens(u, t) /\ Proper(t)
  <2> DEFINE t == [Asked(v, i) EXCEPT
                     !.target = a, !.read = IF v = "approve" THEN words[i] ELSE None]
  <2>1. t \in Transactions /\ t.op = v /\ t.item = i /\ t.target = a
    BY <1>1, <1>2 DEF Asked, Transactions, Operations, Verdicts
  <2>2. Opens(u, t) /\ IsPending(i, a) /\ ~Locked(i, a)
    BY <1>4 DEF DecideReads, MayClose, Opens
  <2> HIDE DEF t
  <2> QED
    BY <2>1, <2>2 DEF Proper, Verdicts
<1> QED
  BY <1>3, <1>4

\* A request of the calendar knows a day, or the slot it is about.
LEMMA PlanReads ==
  ASSUME Base, NEW u \in Users,
         \/ \E i \in Items, d \in Days : ScheduleReads(u, i, d)
         \/ \E s \in DOMAIN slots, d \in Days : RescheduleReads(u, s, d)
         \/ \E s \in DOMAIN slots : UnscheduleReads(u, s)
  PROVE  \E t \in Transactions : Opens(u, t) /\ Proper(t)
<1>1. ASSUME NEW i \in Items, NEW d \in Days, ScheduleReads(u, i, d)
      PROVE  \E t \in Transactions : Opens(u, t) /\ Proper(t)
  <2> DEFINE t == [Asked("schedule", i) EXCEPT !.day = d]
  <2>1. t \in Transactions /\ t.op = "schedule" /\ t.day = d
    BY DEF Asked, Transactions, Operations
  <2>2. Opens(u, t)
    BY <1>1 DEF ScheduleReads
  <2> HIDE DEF t
  <2> QED
    BY <2>1, <2>2 DEF Proper, Verdicts
<1>2. \A s \in DOMAIN slots : s \in Nat /\ slots[s].item \in Items
  BY SlotRows DEF Slot
<1>3. ASSUME NEW s \in DOMAIN slots, NEW d \in Days, RescheduleReads(u, s, d)
      PROVE  \E t \in Transactions : Opens(u, t) /\ Proper(t)
  <2> DEFINE t == [Asked("reschedule", slots[s].item) EXCEPT !.target = s, !.day = d]
  <2>1. /\ t \in Transactions /\ t.op = "reschedule" /\ t.day = d
        /\ t.target = s /\ t.item = slots[s].item
    BY <1>2 DEF Asked, Transactions, Operations
  <2>2. Opens(u, t)
    BY <1>3 DEF RescheduleReads
  <2> HIDE DEF t
  <2> QED
    BY <2>1, <2>2 DEF Proper, Verdicts
<1>4. ASSUME NEW s \in DOMAIN slots, UnscheduleReads(u, s)
      PROVE  \E t \in Transactions : Opens(u, t) /\ Proper(t)
  <2> DEFINE t == [Asked("unschedule", slots[s].item) EXCEPT !.target = s]
  <2>1. /\ t \in Transactions /\ t.op = "unschedule" /\ t.target = s /\ t.item = slots[s].item
    BY <1>2 DEF Asked, Transactions, Operations
  <2>2. Opens(u, t)
    BY <1>4 DEF UnscheduleReads
  <2> HIDE DEF t
  <2> QED
    BY <2>1, <2>2 DEF Proper, Verdicts
<1> QED
  BY <1>1, <1>3, <1>4

-----------------------------------------------------------------------------
(* Reviews *)

\* A cycle opens where none is open: no withdrawal is under way on the item.
LEMMA SubmitBase ==
  ASSUME Base, NEW u \in Users, SubmitCommits(u)
  PROVE  Base'
<1> DEFINE i == tx[u].item
           row == [status |-> "PENDING", cycle |-> tx[u].cycle, covers |-> None]
           n == Len(approvals[i]) + 1
<1>1. i \in Items /\ tx[u].cycle \in Nat
  BY OpenRequest DEF SubmitCommits, Commits, Base, Typed
<1>2. /\ MayOpen(i) /\ approvals' = [approvals EXCEPT ![i] = Append(@, row)]
      /\ status' = [status EXCEPT ![i] = "IN_REVIEW"]
      /\ tx' = [tx EXCEPT ![u] = Idle] /\ UNCHANGED <<deleted, words, gate, month, calendarVars>>
  BY DEF SubmitCommits, Commits, SetStatus
<1>3. row \in Approval /\ row.status = "PENDING"
  BY <1>1 DEF Approval, ApprovalStatus
<1> HIDE DEF row
<1>4. /\ Append(approvals[i], row) \in Seq(Approval) /\ Len(Append(approvals[i], row)) = n
      /\ DOMAIN Append(approvals[i], row) = 1..n /\ n \in Nat /\ n > 0
      /\ Append(approvals[i], row)[n] = row
      /\ \A a \in DOMAIN approvals[i] :
           a \in 1..n /\ Append(approvals[i], row)[a] = approvals[i][a]
  BY <1>1, <1>3, ApprovalRows, AppendProperties, LenProperties
<1>5. \A j \in Items : approvals'[j] = IF j = i THEN Append(approvals[i], row) ELSE approvals[j]
  BY <1>2 DEF Base, Typed, ApprovalsTyped
<1>6. /\ RequestsTyped' /\ GoOn /\ tx'[u].op = "idle"
      /\ \A v \in Users : v # u => tx'[v] = tx[v]
  BY <1>2, RequestEnds
<1>7. ItemsTyped'
  BY <1>1, <1>2 DEF Base, Typed, ItemsTyped, ItemStatus
<1>8. ApprovalsTyped'
  BY <1>1, <1>2, <1>4 DEF Base, Typed, ApprovalsTyped
<1>9. SlotsTyped' /\ MeterTyped'
  BY <1>2, Untouched DEF calendarVars
<1>10. Requested'
  BY <1>2, <1>6, RequestedKept DEF calendarVars
<1>11. \A j \in Items : \A a : IsPending(j, a) => IsPending(j, a)'
  BY <1>4, <1>5 DEF IsPending
<1>12. \A v \in Users : Closing(v)' =>
         v # u /\ tx'[v] = tx[v] /\ Closing(v) /\ tx[v].item \in Items \ {i}
  <2> SUFFICES ASSUME NEW v \in Users, Closing(v)'
               PROVE  v # u /\ tx'[v] = tx[v] /\ Closing(v) /\ tx[v].item \in Items \ {i}
    OBVIOUS
  <2>1. v # u /\ tx'[v] = tx[v] /\ Closing(v)
    BY <1>6 DEF Closing, Verdicts
  <2>2. tx[v].item \in Items
    BY <2>1, OpenRequest DEF Base, Typed, Closing, Verdicts
  <2>3. tx[v].item # i
    BY <1>2, <2>1 DEF Base, Holding, MayOpen, IsPending
  <2> QED
    BY <2>1, <2>2, <2>3
<1>13. Holding'
  <2>1. \A v \in Users : Closing(v)' => IsPending(tx[v].item, tx[v].target)'
    BY <1>11, <1>12 DEF Base, Holding
  <2>2. \A v, w \in Users :
          Closing(v)' /\ Closing(w)' /\ tx'[v].item = tx'[w].item /\ tx'[v].target = tx'[w].target
            => v = w
    BY <1>12 DEF Base, Holding
  <2>3. \A v \in Users : tx'[v].op = "withdraw" => Closing(v)'
    BY DEF Closing
  <2>4. \A j \in Items \ {i} : status'[j] = status[j]
    BY <1>2 DEF Base, Typed, ItemsTyped
  <2>5. \A v \in Users : tx'[v].op = "withdraw" /\ status'[tx'[v].item] = "IN_REVIEW"
          => tx'[v].seen = "IN_REVIEW"
    BY <1>12, <2>3, <2>4 DEF Base, Holding
  <2> QED
    BY <1>12, <2>1, <2>2, <2>5 DEF Holding
<1>14. ReviewIsOpen'
  <2>1. ASSUME NEW j \in Items, j = i
        PROVE  ~MayOpen(j)'
    <3>1. approvals'[j] = Append(approvals[i], row)
      BY <1>5, <2>1
    <3>2. n \in DOMAIN Append(approvals[i], row) /\ Append(approvals[i], row)[n] = row
      BY <1>4
    <3>3. \E k : k \in DOMAIN approvals'[j] /\ approvals'[j][k].status = "PENDING"
      BY <1>3, <3>1, <3>2, Zenon
    <3> QED
      BY <3>3 DEF MayOpen, IsPending
  <2>2. \A j \in Items \ {i} : status'[j] = status[j] /\ approvals'[j] = approvals[j]
    BY <1>2, <1>5 DEF Base, Typed, ItemsTyped
  <2> QED
    BY <2>1, <2>2 DEF Base, ReviewIsOpen, MayOpen, IsPending
<1> QED
  BY <1>6, <1>7, <1>8, <1>9, <1>10, <1>13, <1>14 DEF Base, Typed

\* What a verdict or a withdrawal does to the table: it decides its own row.
LEMMA CloseIs ==
  ASSUME Base, NEW u \in Users, Closing(u), NEW s \in ApprovalStatus \ {"PENDING"},
         NEW covers \in Words \cup {None}, Close(u, s, covers)
  PROVE  /\ tx[u].item \in Items /\ IsPending(tx[u].item, tx[u].target)
         /\ ApprovalsTyped'
         /\ \A j \in Items : DOMAIN approvals'[j] = DOMAIN approvals[j]
         /\ \A j \in Items : \A b \in DOMAIN approvals[j] :
              j # tx[u].item \/ b # tx[u].target => approvals'[j][b] = approvals[j][b]
<1> DEFINE i == tx[u].item
           a == tx[u].target
           row == [approvals[i][a] EXCEPT !.status = s, !.covers = covers]
<1>1. i \in Items /\ IsPending(i, a) /\ a \in DOMAIN approvals[i]
  BY OpenRequest DEF Base, Typed, Holding, Closing, IsPending, Verdicts
<1>2. approvals[i][a] \in Approval /\ approvals[i] \in Seq(Approval)
      /\ a \in 1..Len(approvals[i])
  BY <1>1, ApprovalRows
<1>3. row \in Approval
  BY <1>2 DEF Approval
<1>4. approvals' = [approvals EXCEPT ![i] = [approvals[i] EXCEPT ![a] = row]]
  <2>1. approvals' = [approvals EXCEPT ![i][a].status = s, ![i][a].covers = covers]
    BY DEF Close
  <2>2. approvals \in [Items -> Seq(Approval)] /\ DOMAIN approvals[i] = 1..Len(approvals[i])
    BY <1>1, ApprovalRows DEF Base, Typed, ApprovalsTyped
  <2> QED
    BY <1>1, <1>2, <2>1, <2>2
<1> HIDE DEF row
<1>5. /\ [approvals[i] EXCEPT ![a] = row] \in Seq(Approval)
      /\ Len([approvals[i] EXCEPT ![a] = row]) = Len(approvals[i])
      /\ \A b \in 1..Len(approvals[i]) :
           [approvals[i] EXCEPT ![a] = row][b] = IF b = a THEN row ELSE approvals[i][b]
  BY <1>2, <1>3, ExceptSeq
<1>6. \A j \in Items :
        approvals'[j] = IF j = i THEN [approvals[i] EXCEPT ![a] = row] ELSE approvals[j]
  BY <1>1, <1>4 DEF Base, Typed, ApprovalsTyped
<1>7. ApprovalsTyped'
  BY <1>4, <1>5 DEF Base, Typed, ApprovalsTyped
<1>8. DOMAIN [approvals[i] EXCEPT ![a] = row] = DOMAIN approvals[i]
  OBVIOUS
<1>9. DOMAIN approvals[i] = 1..Len(approvals[i])
  BY <1>1, ApprovalRows
<1> QED
  BY <1>1, <1>5, <1>6, <1>7, <1>8, <1>9

LEMMA CloseBase ==
  ASSUME Base, NEW u \in Users, Closing(u), NEW s \in ApprovalStatus \ {"PENDING"},
         NEW covers \in Words \cup {None}, Close(u, s, covers),
         tx' = [tx EXCEPT ![u] = Idle],
         UNCHANGED <<deleted, words, gate, month, calendarVars>>,
         \/ \E x \in {"APPROVED", "CHANGES_REQUESTED", "DRAFT"} : SetStatus(tx[u].item, x)
         \/ UNCHANGED status /\ status[tx[u].item] # "IN_REVIEW"
  PROVE  Base'
<1> DEFINE i == tx[u].item
           a == tx[u].target
<1>1. /\ i \in Items /\ IsPending(i, a)
      /\ ApprovalsTyped'
      /\ \A j \in Items : DOMAIN approvals'[j] = DOMAIN approvals[j]
      /\ \A j \in Items : \A b \in DOMAIN approvals[j] :
           j # i \/ b # a => approvals'[j][b] = approvals[j][b]
  BY CloseIs
<1>2. /\ RequestsTyped' /\ GoOn /\ tx'[u].op = "idle"
      /\ \A v \in Users : v # u => tx'[v] = tx[v]
  BY RequestEnds
<1>3. /\ ItemsTyped'
      /\ \A j \in Items \ {i} : status'[j] = status[j]
      /\ status'[i] # "IN_REVIEW"
  BY <1>1 DEF SetStatus, Base, Typed, ItemsTyped, ItemStatus
<1>4. SlotsTyped' /\ MeterTyped'
  BY Untouched DEF calendarVars
<1>5. Requested'
  BY <1>2, RequestedKept DEF calendarVars
<1>6. \A v \in Users : Closing(v)' =>
        /\ v # u /\ tx'[v] = tx[v] /\ Closing(v) /\ tx[v].item \in Items
        /\ tx[v].item # i \/ tx[v].target # a
  <2> SUFFICES ASSUME NEW v \in Users, Closing(v)'
               PROVE  /\ v # u /\ tx'[v] = tx[v] /\ Closing(v) /\ tx[v].item \in Items
                      /\ tx[v].item # i \/ tx[v].target # a
    OBVIOUS
  <2>1. v # u /\ tx'[v] = tx[v] /\ Closing(v)
    BY <1>2 DEF Closing, Verdicts
  <2>2. tx[v].item \in Items
    BY <2>1, OpenRequest DEF Base, Typed, Closing, Verdicts
  <2> QED
    BY <2>1, <2>2 DEF Base, Holding
<1>7. Holding'
  <2>1. \A v \in Users : Closing(v)' => IsPending(tx[v].item, tx[v].target)'
    BY <1>1, <1>6 DEF Base, Holding, IsPending
  <2>2. \A v, w \in Users :
          Closing(v)' /\ Closing(w)' /\ tx'[v].item = tx'[w].item /\ tx'[v].target = tx'[w].target
            => v = w
    BY <1>6 DEF Base, Holding
  <2>3. \A v \in Users : tx'[v].op = "withdraw" => Closing(v)'
    BY DEF Closing
  <2>4. \A v \in Users : tx'[v].op = "withdraw" /\ status'[tx'[v].item] = "IN_REVIEW"
          => tx'[v].seen = "IN_REVIEW"
    BY <1>3, <1>6, <2>3 DEF Base, Holding
  <2> QED
    BY <1>6, <2>1, <2>2, <2>4 DEF Holding
<1>8. ReviewIsOpen'
  BY <1>1, <1>3 DEF Base, ReviewIsOpen, MayOpen, IsPending
<1> QED
  BY <1>1, <1>2, <1>3, <1>4, <1>5, <1>7, <1>8 DEF Base, Typed

LEMMA DecideBase ==
  ASSUME Base, NEW u \in Users, DecideCommits(u) \/ CancelCommits(u)
  PROVE  Base'
<1>1. Closing(u) /\ tx' = [tx EXCEPT ![u] = Idle]
      /\ UNCHANGED <<deleted, words, gate, month, calendarVars>>
  BY DEF DecideCommits, CancelCommits, Commits, Closing
<1>2. tx[u].read \in Words \cup {None} /\ None \in Words \cup {None}
  BY <1>1, OpenRequest DEF Base, Typed, Closing, Verdicts
<1>3. CASE DecideCommits(u)
  BY <1>1, <1>2, <1>3, CloseBase DEF DecideCommits, ApprovalStatus
<1>4. CASE CancelCommits(u)
  <2>1. tx[u].op = "withdraw" /\ Close(u, "CANCELLED", None)
    BY <1>4 DEF CancelCommits, Commits
  <2>2. \/ SetStatus(tx[u].item, "DRAFT")
        \/ UNCHANGED status /\ status[tx[u].item] # "IN_REVIEW"
    BY <1>4, <2>1 DEF CancelCommits, Base, Holding
  <2> QED
    BY <1>1, <1>2, <2>1, <2>2, CloseBase DEF ApprovalStatus
<1> QED
  BY <1>3, <1>4

-----------------------------------------------------------------------------
(* The calendar *)

\* A step of the calendar that leaves the reviews alone.
LEMMA ReviewsAside ==
  ASSUME Base, NEW u \in Users, tx' = [tx EXCEPT ![u] = Idle], UNCHANGED approvals,
         \A i \in Items : status'[i] = "IN_REVIEW" => status[i] = "IN_REVIEW"
  PROVE  Holding' /\ ReviewIsOpen' /\ ApprovalsTyped'
<1>1. GoOn
  BY RequestEnds
<1>2. \A v \in Users : Closing(v)' => tx'[v] = tx[v]
  BY <1>1 DEF GoOn, Closing, Verdicts
<1> QED
  BY <1>2, HoldingKept, Untouched

\* Only the day of the slot changes.
LEMMA RescheduleIs ==
  ASSUME Base, NEW u \in Users, RescheduleCommits(u)
  PROVE  /\ UNCHANGED <<contentVars, approvals, used, events, gate, month>>
         /\ tx' = [tx EXCEPT ![u] = Idle]
         /\ SlotsTyped' /\ DOMAIN slots' = DOMAIN slots
         /\ \A s \in DOMAIN slots : slots'[s].item = slots[s].item
               /\ slots'[s].status = slots[s].status /\ slots'[s].month = slots[s].month
<1>1. PICK t \in DOMAIN slots, d \in Days :
        /\ t = tx[u].target /\ d = tx[u].day
        /\ slots' = [slots EXCEPT ![t].day = d]
  BY DEF RescheduleCommits, Commits, Base, Requested
<1>2. /\ tx' = [tx EXCEPT ![u] = Idle]
      /\ UNCHANGED <<contentVars, approvals, used, events, gate, month>>
  BY DEF RescheduleCommits, Commits
<1> DEFINE row == [slots[t] EXCEPT !.day = d]
<1>3. slots \in Seq(Slot) /\ t \in 1..Len(slots) /\ slots[t] \in Slot
  BY SlotRows
<1>4. /\ row \in Slot /\ row.item = slots[t].item /\ row.status = slots[t].status
      /\ row.month = slots[t].month
  BY <1>3 DEF Slot
<1>5. slots' = [slots EXCEPT ![t] = row]
  BY <1>1
<1>6. /\ slots' \in Seq(Slot) /\ DOMAIN slots' = DOMAIN slots
      /\ \A s \in DOMAIN slots : slots'[s] = IF s = t THEN row ELSE slots[s]
  BY <1>3, <1>4, <1>5, ExceptSeq
<1> HIDE DEF row
<1> QED
  BY <1>2, <1>4, <1>6 DEF SlotsTyped

\* What is read under the lock of the slot's row decides about the item.
LEMMA UnscheduleLocksIs ==
  ASSUME Base, NEW u \in Users, UnscheduleLocks(u)
  PROVE  /\ UNCHANGED <<contentVars, approvals, calendarVars, gate, month>>
         /\ RequestsTyped' /\ tx[u].op = "unschedule"
         /\ tx'[u].op = "unscheduling" /\ tx'[u].item = tx[u].item
         /\ tx'[u].target = tx[u].target /\ tx'[u].seen = Sees(tx[u].item, "SCHEDULED")
         /\ \A v \in Users : v # u => tx'[v] = tx[v]
<1>1. /\ tx[u].op = "unschedule"
      /\ tx' = [tx EXCEPT ![u].op = "unscheduling",
                          ![u].seen = Sees(tx[u].item, "SCHEDULED")]
      /\ UNCHANGED <<contentVars, approvals, calendarVars, gate, month>>
  BY DEF UnscheduleLocks
<1>2. tx[u] \in Transactions /\ Sees(tx[u].item, "SCHEDULED") \in ItemStatus \cup {None}
  BY <1>1, OpenRequest DEF Base, Typed, Sees, ItemStatus
<1> QED
  BY <1>1, <1>2 DEF Base, Typed, RequestsTyped, Transactions, Operations

\* A slot is placed: its row is new, and the month counts it.
Placed(u, i, n) ==
  /\ i \in Items /\ n \in Nat /\ n \notin DOMAIN slots /\ month \in Months
  /\ LiveSlots(i) = {} /\ used[month] + 1 <= Limit
  /\ used' = [used EXCEPT ![month] = @ + 1]
  /\ events' = events \cup {<<n, "consume", month>>}
  /\ status' = [status EXCEPT ![i] = "SCHEDULED"]
  /\ tx' = [tx EXCEPT ![u] = Idle]
  /\ UNCHANGED <<deleted, words, approvals, gate, month>>
  /\ SlotsTyped' /\ DOMAIN slots' = DOMAIN slots \cup {n}
  /\ \A s \in DOMAIN slots : slots'[s] = slots[s]
  /\ slots'[n].item = i /\ slots'[n].month = month /\ slots'[n].status = "SCHEDULED"

LEMMA ScheduleIs ==
  ASSUME Base, NEW u \in Users, ScheduleCommits(u)
  PROVE  \E i, n : Placed(u, i, n)
<1>1. PICK i \in Items, d \in Days, n \in Nat :
        i = tx[u].item /\ d = tx[u].day /\ n = Len(slots) + 1
  BY OpenRequest, SlotRows DEF ScheduleCommits, Commits, Base, Typed, Requested
<1> DEFINE row == [item |-> i, day |-> d, month |-> month, status |-> "SCHEDULED"]
<1>2. /\ LiveSlots(i) = {} /\ used[month] + 1 <= Limit
      /\ used' = [used EXCEPT ![month] = @ + 1]
      /\ events' = events \cup {<<n, "consume", month>>}
      /\ slots' = Append(slots, row)
      /\ status' = [status EXCEPT ![i] = "SCHEDULED"]
      /\ tx' = [tx EXCEPT ![u] = Idle]
      /\ UNCHANGED <<deleted, words, approvals, gate, month>>
  BY <1>1 DEF ScheduleCommits, Commits, Consume, SetStatus
<1>3. /\ row \in Slot /\ row.item = i /\ row.month = month /\ row.status = "SCHEDULED"
      /\ month \in Months
  BY DEF Slot, SlotStatus, Base, Typed, ItemsTyped
<1> HIDE DEF row
<1>4. /\ slots' \in Seq(Slot) /\ DOMAIN slots' = 1..n /\ slots'[n] = row
      /\ \A s \in 1..Len(slots) : slots'[s] = slots[s]
  BY <1>1, <1>2, <1>3, SlotRows, AppendProperties, LenProperties
<1>5. /\ \A s \in DOMAIN slots : slots'[s] = slots[s]
      /\ DOMAIN slots' = DOMAIN slots \cup {n} /\ n \notin DOMAIN slots
  BY <1>1, <1>4, SlotRows
<1> QED
  BY <1>2, <1>3, <1>4, <1>5 DEF Placed, SlotsTyped

\* A slot is taken off the calendar, and its unit given back once.
Removed(u, i, t) ==
  /\ i \in Items /\ t \in DOMAIN slots /\ t \in Nat
  /\ t = tx[u].target /\ i = tx[u].item /\ slots[t].item = i
  /\ tx[u].op = "unscheduling" /\ tx' = [tx EXCEPT ![u] = Idle]
  /\ \/ UNCHANGED <<used, events>>
     \/ /\ ~Recorded(t, "refund") /\ month \in Months
        /\ used' = [used EXCEPT ![month] = Minus1(@)]
        /\ events' = events \cup {<<t, "refund", month>>}
  /\ UNCHANGED <<deleted, words, approvals, gate, month>>
  /\ ItemsTyped' /\ SlotsTyped' /\ DOMAIN slots' = DOMAIN slots
  /\ \A s \in DOMAIN slots \ {t} : slots'[s] = slots[s]
  /\ slots'[t].item = i /\ slots'[t].month = slots[t].month
  /\ slots'[t].status = "CANCELLED"
  /\ \A j \in Items \ {i} : status'[j] = status[j]
  /\ status'[i] \in {status[i], "DRAFT"}
  /\ tx[u].seen = "SCHEDULED" => status'[i] = "DRAFT"

LEMMA UnscheduleIs ==
  ASSUME Base, NEW u \in Users, UnscheduleCommits(u)
  PROVE  \E i, t : Removed(u, i, t)
<1>1. PICK t \in DOMAIN slots, i \in Items : t = tx[u].target /\ i = tx[u].item /\ slots[t].item = i
  BY SlotRows DEF UnscheduleCommits, Commits, Base, Requested, Slot
<1>2. /\ tx[u].op = "unscheduling" /\ tx' = [tx EXCEPT ![u] = Idle]
      /\ slots' = [slots EXCEPT ![t].status = "CANCELLED"]
      /\ Refund(t)
      /\ IF tx[u].seen = "SCHEDULED" THEN status' = [status EXCEPT ![i] = "DRAFT"]
                                     ELSE UNCHANGED status
      /\ UNCHANGED <<deleted, words, approvals, gate, month>>
  BY <1>1 DEF UnscheduleCommits, Commits, SetStatus
<1> DEFINE row == [slots[t] EXCEPT !.status = "CANCELLED"]
<1>3. slots \in Seq(Slot) /\ t \in 1..Len(slots) /\ t \in Nat /\ slots[t] \in Slot
  BY SlotRows
<1>4. /\ row \in Slot /\ row.item = slots[t].item /\ row.status = "CANCELLED"
      /\ row.month = slots[t].month
  BY <1>3 DEF Slot, SlotStatus
<1>5. slots' = [slots EXCEPT ![t] = row]
  BY <1>2
<1>6. /\ slots' \in Seq(Slot) /\ DOMAIN slots' = DOMAIN slots
      /\ \A s \in DOMAIN slots : slots'[s] = IF s = t THEN row ELSE slots[s]
  BY <1>3, <1>4, <1>5, ExceptSeq
<1> HIDE DEF row
<1>7. /\ \A j \in Items \ {i} : status'[j] = status[j]
      /\ status'[i] \in {status[i], "DRAFT"}
      /\ tx[u].seen = "SCHEDULED" => status'[i] = "DRAFT"
      /\ ItemsTyped'
  BY <1>2 DEF Base, Typed, ItemsTyped, ItemStatus
<1>8. \/ UNCHANGED <<used, events>>
      \/ /\ ~Recorded(t, "refund") /\ month \in Months
         /\ used' = [used EXCEPT ![month] = Minus1(@)]
         /\ events' = events \cup {<<t, "refund", month>>}
  BY <1>2 DEF Refund, Base, Typed, ItemsTyped
<1> QED
  BY <1>1, <1>2, <1>3, <1>4, <1>6, <1>7, <1>8 DEF Removed, SlotsTyped

LEMMA CalendarBase ==
  ASSUME Base, NEW u \in Users,
         \/ RescheduleCommits(u) \/ UnscheduleLocks(u)
         \/ ScheduleCommits(u) \/ UnscheduleCommits(u)
  PROVE  Base'
<1>1. CASE RescheduleCommits(u)
  <2>1. /\ UNCHANGED <<contentVars, approvals, used, events, gate, month>>
        /\ tx' = [tx EXCEPT ![u] = Idle] /\ SlotsTyped'
        /\ \A s \in DOMAIN slots : s \in DOMAIN slots' /\ slots'[s].item = slots[s].item
    BY <1>1, RescheduleIs
  <2>2. GoOn /\ RequestsTyped' /\ ItemsTyped' /\ MeterTyped'
    BY <2>1, RequestEnds, Untouched
  <2>3. Holding' /\ ReviewIsOpen' /\ ApprovalsTyped' /\ Requested'
    BY <2>1, <2>2, ReviewsAside, RequestedKept DEF contentVars
  <2> QED
    BY <2>1, <2>2, <2>3 DEF Base, Typed
<1>2. CASE UnscheduleLocks(u)
  <2>1. /\ UNCHANGED <<contentVars, approvals, calendarVars, gate, month>>
        /\ RequestsTyped' /\ tx[u].op = "unschedule"
        /\ tx'[u].op = "unscheduling" /\ tx'[u].item = tx[u].item
        /\ tx'[u].target = tx[u].target
        /\ \A v \in Users : v # u => tx'[v] = tx[v]
    BY <1>2, UnscheduleLocksIs
  <2>2. UNCHANGED <<status, slots, used, events>>
    BY <2>1 DEF contentVars, calendarVars
  <2>3. \A v \in Users : Closing(v)' => tx'[v] = tx[v]
    BY <2>1 DEF Closing, Verdicts
  <2>4. Holding' /\ ReviewIsOpen'
    BY <2>1, <2>2, <2>3, HoldingKept
  <2>5. ItemsTyped' /\ ApprovalsTyped' /\ SlotsTyped' /\ MeterTyped'
    BY <2>1, <2>2, Untouched
  <2>6. Requested'
    BY <2>1, <2>2 DEF Base, Requested
  <2> QED
    BY <2>1, <2>4, <2>5, <2>6 DEF Base, Typed
<1>3. CASE ScheduleCommits(u)
  <2>1. PICK i, n : Placed(u, i, n)
    BY <1>3, ScheduleIs
  <2>2. GoOn /\ RequestsTyped'
    BY <2>1, RequestEnds DEF Placed
  <2>3. /\ ItemsTyped' /\ MeterTyped' /\ SlotsTyped'
        /\ \A j \in Items : status'[j] = "IN_REVIEW" => status[j] = "IN_REVIEW"
    BY <2>1 DEF Placed, Base, Typed, ItemsTyped, MeterTyped, ItemStatus
  <2>4. Holding' /\ ReviewIsOpen' /\ ApprovalsTyped'
    BY <2>1, <2>3, ReviewsAside DEF Placed
  <2>5. Requested'
    BY <2>1, <2>2, RequestedKept DEF Placed
  <2> QED
    BY <2>2, <2>3, <2>4, <2>5 DEF Base, Typed
<1>4. CASE UnscheduleCommits(u)
  <2>1. PICK i, t : Removed(u, i, t)
    BY <1>4, UnscheduleIs
  <2>2. GoOn /\ RequestsTyped'
    BY <2>1, RequestEnds DEF Removed
  <2>3. \A j \in Items : status'[j] = "IN_REVIEW" => status[j] = "IN_REVIEW"
    BY <2>1 DEF Removed
  <2>4. MeterTyped'
    BY <2>1 DEF Removed, Base, Typed, MeterTyped, Minus1
  <2>5. Holding' /\ ReviewIsOpen' /\ ApprovalsTyped'
    BY <2>1, <2>3, ReviewsAside DEF Removed
  <2>6. Requested'
    BY <2>1, <2>2, RequestedKept DEF Removed
  <2> QED
    BY <2>1, <2>2, <2>4, <2>5, <2>6 DEF Base, Typed, Removed
<1> QED
  BY <1>1, <1>2, <1>3, <1>4

-----------------------------------------------------------------------------
(* The first layer *)

LEMMA BaseStarts ==
  ASSUME Init
  PROVE  Base
<1>1. ItemsTyped
  BY PlanningAssumption DEF Init, ItemsTyped, ItemStatus, Months
<1>2. approvals \in [Items -> Seq(Approval)] /\ slots \in Seq(Slot)
  <2>1. << >> \in Seq(Approval) /\ << >> \in Seq(Slot)
    BY EmptySeq
  <2> QED
    BY <2>1 DEF Init
<1>3. Typed
  BY <1>1, <1>2 DEF Init, Typed, ApprovalsTyped, SlotsTyped, MeterTyped, RequestsTyped
<1>4. DOMAIN slots = {} /\ events = {} /\ \A u \in Users : tx[u].op = "idle"
  BY IdleIsIdle, EmptySeq, LenProperties DEF Init
<1>5. \A i \in Items : status[i] = "DRAFT"
  BY DEF Init
<1>6. Holding /\ ReviewIsOpen /\ Requested
  BY <1>4, <1>5 DEF Holding, Closing, Verdicts, ReviewIsOpen, Requested
<1> QED
  BY <1>3, <1>6 DEF Base

\* Every step of a request is one of these; the others are beside the requests.
LEMMA StepsAre ==
  ASSUME Base, PlanningNext
  PROVE  \/ \E u \in Users : \E t \in Transactions : Opens(u, t) /\ Proper(t)
         \/ \E u \in Users :
              \/ SubmitCommits(u) \/ DecideCommits(u) \/ CancelCommits(u)
              \/ EditCommits(u) \/ TransitionCommits(u) \/ Abort(u)
              \/ RescheduleCommits(u) \/ UnscheduleLocks(u)
              \/ ScheduleCommits(u) \/ UnscheduleCommits(u)
         \/ (\E i \in Edited : ApplyTool(i) \/ ArchiveItem(i) \/ PurgeExpired(i))
              \/ SetPolicy \/ NextMonth
<1>1. ASSUME NEW u \in Users, Review(u)
      PROVE  \/ \E t \in Transactions : Opens(u, t) /\ Proper(t)
             \/ SubmitCommits(u) \/ DecideCommits(u) \/ CancelCommits(u)
  BY <1>1, PlainReads, ReviewReads, Zenon DEF Review
<1>2. ASSUME NEW u \in Users, EditContent(u)
      PROVE  \/ \E t \in Transactions : Opens(u, t) /\ Proper(t)
             \/ EditCommits(u) \/ TransitionCommits(u)
  BY <1>2, PlainReads, Zenon DEF EditContent
<1>3. ASSUME NEW u \in Users, Plan(u)
      PROVE  \/ \E t \in Transactions : Opens(u, t) /\ Proper(t)
             \/ RescheduleCommits(u) \/ UnscheduleLocks(u)
             \/ ScheduleCommits(u) \/ UnscheduleCommits(u)
  BY <1>3, PlanReads, Zenon DEF Plan
<1> QED
  BY <1>1, <1>2, <1>3, Zenon DEF PlanningNext

LEMMA NothingHappens ==
  ASSUME Base, UNCHANGED planningVars
  PROVE  /\ UNCHANGED <<approvals, calendarVars, status, tx>>
         /\ GoOn /\ RequestsTyped' /\ ItemsTyped'
<1>1. UNCHANGED <<approvals, calendarVars, status, deleted, words, gate, month, tx>>
  BY DEF planningVars, calendarVars
<1> QED
  BY <1>1, Untouched DEF GoOn, contentVars

LEMMA BaseStep ==
  ASSUME Base, [PlanningNext]_planningVars
  PROVE  Base'
<1>1. ASSUME NEW u \in Users, NEW t \in Transactions, Opens(u, t), Proper(t)
      PROVE  Base'
  BY <1>1, OpensBase
<1>2. ASSUME NEW u \in Users, EditCommits(u) \/ TransitionCommits(u) \/ Abort(u)
      PROVE  Base'
  BY <1>2, EditIs, ContentBase
<1>3. CASE (\E i \in Edited : ApplyTool(i) \/ ArchiveItem(i) \/ PurgeExpired(i))
             \/ SetPolicy \/ NextMonth
  BY <1>3, BesideIs, ContentBase
<1>4. CASE UNCHANGED planningVars
  BY <1>4, NothingHappens, ContentBase
<1>5. ASSUME NEW u \in Users,
             \/ SubmitCommits(u) \/ DecideCommits(u) \/ CancelCommits(u)
             \/ RescheduleCommits(u) \/ UnscheduleLocks(u)
             \/ ScheduleCommits(u) \/ UnscheduleCommits(u)
      PROVE  Base'
  BY <1>5, SubmitBase, DecideBase, CalendarBase
<1> QED
  BY <1>1, <1>2, <1>3, <1>4, <1>5, StepsAre, Zenon

-----------------------------------------------------------------------------
(* The second layer: the calendar and the quota *)

\* A step that writes no slot and schedules no item.
LEMMA CalendarKept ==
  ASSUME PlanInv, UNCHANGED slots,
         \A i \in Items : status'[i] = "SCHEDULED" => status[i] = "SCHEDULED",
         \A v \in Users : tx'[v].op = "unscheduling" => tx'[v] = tx[v]
  PROVE  Calendar'
<1>1. \A v \in Users : tx'[v].op = "unscheduling" => tx[v].item \in Items
  BY OpenRequest DEF PlanInv, Base, Typed
<1>2. \A i : LiveSlots(i)' = LiveSlots(i)
  BY DEF LiveSlots, Live
<1>3. Replaced'
  BY <1>1, <1>2 DEF PlanInv, Calendar, Replaced
<1>4. ScheduledIsPlanned' /\ OneLive'
  BY <1>2 DEF PlanInv, Calendar, ScheduledIsPlanned, OneLive, Live
<1> QED
  BY <1>3, <1>4 DEF Calendar

\* A step that leaves every slot where it is keeps the quota as it is.
LEMMA QuotaKept ==
  ASSUME PlanInv, UNCHANGED <<used, events>>, DOMAIN slots' = DOMAIN slots,
         \A s \in DOMAIN slots : slots'[s].status = slots[s].status /\ slots'[s].month = slots[s].month
  PROVE  Quota'
BY DEF PlanInv, Quota, Metered, CounterCoversEvents, Recorded, Of

LEMMA ElsewhereKeeps ==
  ASSUME PlanInv, UNCHANGED calendarVars,
         \A i \in Items : status'[i] = "SCHEDULED" => status[i] = "SCHEDULED",
         \A v \in Users : tx'[v].op = "unscheduling" => tx'[v] = tx[v]
  PROVE  Calendar' /\ Quota'
<1>1. UNCHANGED <<slots, used, events>>
  BY DEF calendarVars
<1> QED
  BY <1>1, CalendarKept, QuotaKept

LEMMA EventSets ==
  ASSUME PlanInv, NEW m \in Months
  PROVE  /\ IsFiniteSet(Of("refund", m)) /\ IsFiniteSet(Of("consume", m))
         /\ Cardinality(Of("refund", m)) \in Nat /\ Cardinality(Of("consume", m)) \in Nat
         /\ used[m] \in Nat
<1>1. IsFiniteSet(events) /\ Of("refund", m) \subseteq events /\ Of("consume", m) \subseteq events
  BY DEF PlanInv, Quota, Metered, Of
<1>2. used[m] \in Nat
  BY DEF PlanInv, Base, Typed, MeterTyped
<1> QED
  BY <1>1, <1>2, FS_Subset, FS_CardinalityType

\* A new slot is the item's only live one, and the month paid for it.
LEMMA ScheduleKeeps ==
  ASSUME PlanInv, NEW u \in Users, ScheduleCommits(u)
  PROVE  Calendar' /\ Quota'
<1>1. Base
  BY DEF PlanInv
<1>2. PICK i, n : Placed(u, i, n)
  BY <1>1, ScheduleIs
<1>3. /\ i \in Items /\ n \in Nat /\ n \notin DOMAIN slots /\ month \in Months
      /\ LiveSlots(i) = {} /\ used[month] + 1 <= Limit
      /\ used' = [used EXCEPT ![month] = @ + 1]
      /\ events' = events \cup {<<n, "consume", month>>}
      /\ tx' = [tx EXCEPT ![u] = Idle]
      /\ month' = month
  BY <1>2 DEF Placed
<1>4. slots'[n].item = i /\ slots'[n].month = month /\ slots'[n].status = "SCHEDULED"
  BY <1>2 DEF Placed
<1>5. /\ \A s \in DOMAIN slots : s \in DOMAIN slots' /\ s # n /\ slots'[s] = slots[s]
      /\ \A s \in DOMAIN slots' : s = n \/ s \in DOMAIN slots
      /\ n \in DOMAIN slots' /\ n \notin DOMAIN slots
  BY <1>2 DEF Placed
<1>6. GoOn
  BY <1>1, <1>3, RequestEnds
<1>7. \A j \in Items : status'[j] = IF j = i THEN "SCHEDULED" ELSE status[j]
  BY <1>1, <1>2 DEF Placed, Base, Typed, ItemsTyped
<1>9. /\ \A s \in DOMAIN slots : Live(s)' <=> Live(s)
      /\ Live(n)'
      /\ \A j : LiveSlots(j) \subseteq LiveSlots(j)'
      /\ n \in LiveSlots(i)'
  BY <1>3, <1>4, <1>5 DEF LiveSlots, Live
<1>10. OneLive'
  <2>1. \A s \in DOMAIN slots : Live(s) => slots[s].item # i
    BY <1>3 DEF LiveSlots
  <2>2. \A s \in DOMAIN slots' : Live(s)' /\ slots'[s].item = i => s = n
    BY <1>5, <1>9, <2>1
  <2>3. \A s, t \in DOMAIN slots' :
          Live(s)' /\ Live(t)' /\ slots'[s].item = slots'[t].item /\ slots'[s].item # i => s = t
    BY <1>3, <1>4, <1>5, <1>9 DEF PlanInv, Calendar, OneLive
  <2> QED
    BY <2>2, <2>3 DEF OneLive
<1>11. ScheduledIsPlanned'
  BY <1>7, <1>9 DEF PlanInv, Calendar, ScheduledIsPlanned
<1>12. Replaced'
  <2> SUFFICES ASSUME NEW v \in Users, tx'[v].op = "unscheduling",
                      status'[tx'[v].item] = "SCHEDULED", tx'[v].seen # "SCHEDULED"
               PROVE  \E s \in LiveSlots(tx[v].item)' : s # tx'[v].target
    BY DEF Replaced
  <2>1. tx'[v] = tx[v] /\ tx[v].target \in DOMAIN slots /\ slots[tx[v].target].item = tx[v].item
    BY <1>1, <1>6 DEF Base, Requested, GoOn
  <2>2. PICK j \in Items : j = tx[v].item
    BY <1>1, <2>1, SlotRows DEF Slot
  <2>3. status[j] = "SCHEDULED" => \E s \in LiveSlots(j) : s # tx[v].target
    BY <2>1, <2>2 DEF PlanInv, Calendar, Replaced
  <2>4. \E s \in LiveSlots(j)' : s # tx[v].target
    BY <1>5, <1>7, <1>9, <2>1, <2>2, <2>3
  <2> QED
    BY <2>1, <2>2, <2>4
<1>14. Metered'
  <2>1. IsFiniteSet(events')
    BY <1>3, FS_AddElement DEF PlanInv, Quota, Metered
  <2>2. \A m \in Months : used'[m] <= Limit
    BY <1>3, <1>3 DEF PlanInv, Base, Typed, MeterTyped, Quota, Metered
  <2>3. \A e \in events' : e[1] \in DOMAIN slots'
    BY <1>3, <1>5 DEF PlanInv, Quota, Metered
  <2>4. \A s \in DOMAIN slots' : <<s, "consume", slots'[s].month>> \in events'
    BY <1>3, <1>3, <1>4, <1>5 DEF PlanInv, Quota, Metered
  <2>5. \A s \in DOMAIN slots' : Recorded(s, "refund")' => Recorded(s, "refund") /\ s \in DOMAIN slots
    BY <1>3 DEF PlanInv, Quota, Metered, Recorded
  <2>6. \A s \in DOMAIN slots' : Recorded(s, "refund")' => slots'[s].status = "CANCELLED"
    BY <1>5, <2>5 DEF PlanInv, Quota, Metered
  <2> QED
    BY <2>1, <2>2, <2>3, <2>4, <2>6 DEF Metered
<1>15. CounterCoversEvents'
  <2> SUFFICES ASSUME NEW m \in Months
               PROVE  used'[m] + Cardinality(Of("refund", m)') >= Cardinality(Of("consume", m)')
    BY DEF CounterCoversEvents
  <2>1. used[m] + Cardinality(Of("refund", m)) >= Cardinality(Of("consume", m))
    BY DEF PlanInv, Quota, CounterCoversEvents
  <2>2. Of("refund", m)' = Of("refund", m)
    BY <1>3 DEF Of
  <2>3. CASE m = month
    <3>1. Of("consume", m)' = Of("consume", m) \cup {<<n, "consume", month>>}
      BY <1>3, <2>3 DEF Of
    <3>2. <<n, "consume", month>> \notin Of("consume", m)
      BY <1>5 DEF PlanInv, Quota, Metered, Of
    <3>3. Cardinality(Of("consume", m)') = Cardinality(Of("consume", m)) + 1
      BY <3>1, <3>2, EventSets, FS_AddElement
    <3>4. used'[m] = used[m] + 1
      BY <1>3, <2>3 DEF PlanInv, Base, Typed, MeterTyped
    <3> QED
      BY <2>1, <2>2, <3>3, <3>4, EventSets
  <2>4. CASE m # month
    <3>1. Of("consume", m)' = Of("consume", m)
      BY <1>3, <2>4 DEF Of
    <3>2. used'[m] = used[m]
      BY <1>3, <2>4 DEF PlanInv, Base, Typed, MeterTyped
    <3> QED
      BY <2>1, <2>2, <3>1, <3>2
  <2> QED
    BY <2>3, <2>4
<1> QED
  BY <1>10, <1>11, <1>12, <1>14, <1>15 DEF Calendar, Quota

\* The slot leaves the calendar; its unit is given back once; and the item goes
\* back to a draft unless another slot of it is on the calendar.
LEMMA UnscheduleKeeps ==
  ASSUME PlanInv, NEW u \in Users, UnscheduleCommits(u)
  PROVE  Calendar' /\ Quota'
<1>1. Base
  BY DEF PlanInv
<1>2. PICK i, t : Removed(u, i, t)
  BY <1>1, UnscheduleIs
<1>3. /\ i \in Items /\ t \in DOMAIN slots /\ t \in Nat
      /\ t = tx[u].target /\ i = tx[u].item /\ slots[t].item = i
      /\ tx[u].op = "unscheduling" /\ tx' = [tx EXCEPT ![u] = Idle]
      /\ \/ UNCHANGED <<used, events>>
         \/ /\ ~Recorded(t, "refund") /\ month \in Months
            /\ used' = [used EXCEPT ![month] = Minus1(@)]
            /\ events' = events \cup {<<t, "refund", month>>}
  BY <1>2 DEF Removed
<1>4. /\ DOMAIN slots' = DOMAIN slots /\ slots'[t].status = "CANCELLED"
      /\ \A s \in DOMAIN slots : slots'[s].item = slots[s].item /\ slots'[s].month = slots[s].month
      /\ \A s \in DOMAIN slots : s # t => slots'[s] = slots[s]
  BY <1>2 DEF Removed
<1>5. /\ \A j \in Items \ {i} : status'[j] = status[j]
      /\ status'[i] \in {status[i], "DRAFT"}
      /\ tx[u].seen = "SCHEDULED" => status'[i] = "DRAFT"
  BY <1>2 DEF Removed
<1>6. GoOn /\ tx'[u].op = "idle" /\ \A v \in Users : v # u => tx'[v] = tx[v]
  BY <1>1, <1>3, RequestEnds
<1>8. /\ \A s : Live(s)' <=> Live(s) /\ s # t
      /\ \A j : LiveSlots(j)' = LiveSlots(j) \ {t}
  BY <1>3, <1>4 DEF LiveSlots, Live
<1>11. OneLive'
  <2> SUFFICES ASSUME NEW r \in DOMAIN slots', NEW s \in DOMAIN slots',
                      Live(r)', Live(s)', slots'[r].item = slots'[s].item
               PROVE  r = s
    BY DEF OneLive
  <2>1. Live(r) /\ Live(s) /\ slots[r].item = slots[s].item
    BY <1>4, <1>8
  <2> QED
    BY <1>4, <2>1 DEF PlanInv, Calendar, OneLive
<1>12. status'[i] = "SCHEDULED" => \E s \in LiveSlots(i) : s # t
  BY <1>3, <1>5 DEF PlanInv, Calendar, Replaced
<1>13. ScheduledIsPlanned'
  <2> SUFFICES ASSUME NEW j \in Items, status'[j] = "SCHEDULED"
               PROVE  LiveSlots(j)' # {}
    BY DEF ScheduledIsPlanned
  <2>1. CASE j = i
    BY <1>8, <1>12, <2>1
  <2>2. CASE j # i
    <3>1. t \notin LiveSlots(j)
      BY <1>3, <2>2 DEF LiveSlots
    <3> QED
      BY <1>5, <1>8, <2>2, <3>1 DEF PlanInv, Calendar, ScheduledIsPlanned
  <2> QED
    BY <2>1, <2>2
<1>14. Replaced'
  <2> SUFFICES ASSUME NEW v \in Users, tx'[v].op = "unscheduling",
                      status'[tx'[v].item] = "SCHEDULED", tx'[v].seen # "SCHEDULED"
               PROVE  \E s \in LiveSlots(tx[v].item)' : s # tx'[v].target
    BY DEF Replaced
  <2>1. tx'[v] = tx[v] /\ tx[v].target \in DOMAIN slots /\ slots[tx[v].target].item = tx[v].item
    BY <1>1, <1>6 DEF Base, Requested, GoOn
  <2>2. PICK j \in Items : j = tx[v].item
    BY <1>1, <2>1, SlotRows DEF Slot
  <2>3. status[j] = "SCHEDULED"
    BY <1>5, <2>1, <2>2
  <2>4. PICK s \in LiveSlots(j) : s # tx[v].target
    BY <2>1, <2>2, <2>3 DEF PlanInv, Calendar, Replaced
  <2>5. s # t
    <3> SUFFICES ASSUME s = t PROVE FALSE
      OBVIOUS
    <3>1. j = i /\ Live(t) /\ status'[i] = "SCHEDULED"
      BY <1>3, <2>1, <2>2, <2>4 DEF LiveSlots
    <3>2. PICK r \in LiveSlots(i) : r # t
      BY <1>12, <3>1
    <3> QED
      BY <1>3, <3>1, <3>2 DEF PlanInv, Calendar, OneLive, LiveSlots
  <2> QED
    BY <1>8, <2>1, <2>2, <2>4, <2>5
<1>17. Metered'
  <2>1. IsFiniteSet(events')
    BY <1>3, FS_AddElement DEF PlanInv, Quota, Metered
  <2>2. \A m \in Months : used'[m] <= Limit
    BY <1>3, PlanningAssumption DEF PlanInv, Base, Typed, MeterTyped, Quota, Metered, Minus1
  <2>3. \A e \in events' : e[1] \in DOMAIN slots'
    BY <1>4, <1>3 DEF PlanInv, Quota, Metered
  <2>4. ASSUME NEW s \in DOMAIN slots'
        PROVE  <<s, "consume", slots'[s].month>> \in events'
    <3>1. s \in DOMAIN slots /\ slots'[s].month = slots[s].month
      BY <1>4
    <3>2. <<s, "consume", slots[s].month>> \in events
      BY <3>1 DEF PlanInv, Quota, Metered
    <3> QED
      BY <1>3, <3>1, <3>2
  <2>5. \A s \in DOMAIN slots' : Recorded(s, "refund")' => s = t \/ Recorded(s, "refund")
    BY <1>3 DEF Recorded
  <2>6. \A s \in DOMAIN slots' : Recorded(s, "refund")' => slots'[s].status = "CANCELLED"
    <3> SUFFICES ASSUME NEW s \in DOMAIN slots', Recorded(s, "refund")', s # t
                 PROVE  slots'[s].status = "CANCELLED"
      BY <1>4
    <3>1. s \in DOMAIN slots /\ slots'[s] = slots[s] /\ Recorded(s, "refund")
      BY <1>4, <2>5
    <3> QED
      BY <3>1 DEF PlanInv, Quota, Metered
  <2> QED
    BY <2>1, <2>2, <2>3, <2>4, <2>6 DEF Metered
<1>18. CounterCoversEvents'
  <2> SUFFICES ASSUME NEW m \in Months
               PROVE  used'[m] + Cardinality(Of("refund", m)') >= Cardinality(Of("consume", m)')
    BY DEF CounterCoversEvents
  <2>1. used[m] + Cardinality(Of("refund", m)) >= Cardinality(Of("consume", m))
    BY DEF PlanInv, Quota, CounterCoversEvents
  <2>2. Of("consume", m)' = Of("consume", m)
    BY <1>3 DEF Of
  <2>3. CASE UNCHANGED <<used, events>> \/ m # month
    <3>1. Of("refund", m)' = Of("refund", m)
      BY <1>3, <2>3 DEF Of
    <3>2. used'[m] = used[m]
      BY <1>3, <2>3 DEF PlanInv, Base, Typed, MeterTyped
    <3> QED
      BY <2>1, <2>2, <3>1, <3>2
  <2>4. CASE m = month /\ ~UNCHANGED <<used, events>>
    <3>1. Of("refund", m)' = Of("refund", m) \cup {<<t, "refund", m>>}
      BY <1>3, <2>4 DEF Of
    <3>2. <<t, "refund", m>> \notin Of("refund", m)
      BY <1>3, <2>4 DEF Recorded, Of
    <3>3. Cardinality(Of("refund", m)') = Cardinality(Of("refund", m)) + 1
      BY <3>1, <3>2, EventSets, FS_AddElement
    <3>4. used'[m] = Minus1(used[m])
      BY <1>3, <2>4 DEF PlanInv, Base, Typed, MeterTyped
    <3> QED
      BY <2>1, <2>2, <3>3, <3>4, EventSets DEF Minus1
  <2> QED
    BY <2>3, <2>4
<1> QED
  BY <1>11, <1>13, <1>14, <1>17, <1>18 DEF Calendar, Quota

LEMMA RescheduleKeeps ==
  ASSUME PlanInv, NEW u \in Users, RescheduleCommits(u)
  PROVE  Calendar' /\ Quota'
<1>1. Base
  BY DEF PlanInv
<1>2. /\ UNCHANGED <<contentVars, used, events>> /\ tx' = [tx EXCEPT ![u] = Idle]
      /\ DOMAIN slots' = DOMAIN slots
      /\ \A s \in DOMAIN slots : slots'[s].item = slots[s].item
            /\ slots'[s].status = slots[s].status /\ slots'[s].month = slots[s].month
  BY <1>1, RescheduleIs
<1>3. GoOn
  BY <1>1, <1>2, RequestEnds
<1>4. \A i : LiveSlots(i)' = LiveSlots(i)
  BY <1>2 DEF LiveSlots, Live
<1>5. OneLive' /\ ScheduledIsPlanned'
  BY <1>2, <1>4 DEF PlanInv, Calendar, OneLive, Live, ScheduledIsPlanned, contentVars
<1>6. Replaced'
  BY <1>2, <1>3, <1>4 DEF PlanInv, Calendar, Replaced, GoOn, contentVars
<1> QED
  BY <1>2, <1>5, <1>6, QuotaKept DEF Calendar

LEMMA UnscheduleLocksKeeps ==
  ASSUME PlanInv, NEW u \in Users, UnscheduleLocks(u)
  PROVE  Calendar' /\ Quota'
<1>1. Base
  BY DEF PlanInv
<1>2. /\ UNCHANGED <<contentVars, calendarVars>>
      /\ tx'[u].op = "unscheduling" /\ tx'[u].item = tx[u].item
      /\ tx'[u].target = tx[u].target /\ tx'[u].seen = Sees(tx[u].item, "SCHEDULED")
      /\ \A v \in Users : v # u => tx'[v] = tx[v]
  BY <1>1, UnscheduleLocksIs
<1>3. UNCHANGED <<status, slots, used, events>>
  BY <1>2 DEF contentVars, calendarVars
<1>4. \A i : LiveSlots(i)' = LiveSlots(i)
  BY <1>3 DEF LiveSlots, Live
<1>5. OneLive' /\ ScheduledIsPlanned'
  BY <1>3, <1>4 DEF PlanInv, Calendar, OneLive, Live, ScheduledIsPlanned
<1>6. \A v \in Users : tx'[v].op = "unscheduling" /\ status'[tx'[v].item] = "SCHEDULED" =>
        tx'[v].seen = "SCHEDULED" \/ \E s \in LiveSlots(tx'[v].item) : s # tx'[v].target
  BY <1>2, <1>3 DEF PlanInv, Calendar, Replaced, Sees
<1>7. Replaced'
  BY <1>4, <1>6 DEF Replaced
<1> QED
  BY <1>3, <1>5, <1>7, QuotaKept DEF Calendar

-----------------------------------------------------------------------------
(* The invariant *)

LEMMA PlanInvStarts ==
  ASSUME Init
  PROVE  PlanInv
<1>1. Base
  BY BaseStarts
<1>2. DOMAIN slots = {} /\ events = {} /\ \A u \in Users : tx[u].op = "idle"
  BY IdleIsIdle, EmptySeq, LenProperties DEF Init
<1>3. \A i \in Items : status[i] = "DRAFT"
  BY DEF Init
<1>4. Calendar
  BY <1>2, <1>3 DEF Calendar, OneLive, Replaced, ScheduledIsPlanned
<1>5. Metered
  BY <1>2, FS_EmptySet, PlanningAssumption DEF Init, Metered
<1>6. CounterCoversEvents
  <2>1. \A m \in Months : Of("refund", m) = {} /\ Of("consume", m) = {} /\ used[m] = 0
    BY <1>2 DEF Init, Of
  <2> QED
    BY <2>1, FS_EmptySet DEF CounterCoversEvents
<1> QED
  BY <1>1, <1>4, <1>5, <1>6 DEF PlanInv, Quota

LEMMA PlanInvStep ==
  ASSUME PlanInv, [PlanningNext]_planningVars
  PROVE  PlanInv'
<1>1. Base /\ Base'
  BY BaseStep DEF PlanInv
<1>2. ASSUME NEW u \in Users, NEW t \in Transactions, Opens(u, t), Proper(t)
      PROVE  Calendar' /\ Quota'
  <2>1. UNCHANGED calendarVars /\ UNCHANGED status /\ tx' = [tx EXCEPT ![u] = t]
    BY <1>2 DEF Opens, contentVars
  <2>2. \A v \in Users : tx'[v].op = "unscheduling" => tx'[v] = tx[v]
    BY <1>1, <1>2, <2>1 DEF Base, Typed, RequestsTyped, Proper
  <2> QED
    BY <2>1, <2>2, ElsewhereKeeps
<1>3. ASSUME NEW u \in Users, SubmitCommits(u) \/ DecideCommits(u) \/ CancelCommits(u)
      PROVE  Calendar' /\ Quota'
  <2>1. UNCHANGED calendarVars /\ tx' = [tx EXCEPT ![u] = Idle]
    BY <1>3 DEF SubmitCommits, DecideCommits, CancelCommits, Commits
  <2>2. tx[u].item \in Items
    BY <1>1, <1>3, OpenRequest
       DEF SubmitCommits, DecideCommits, CancelCommits, Commits, Verdicts, Base, Typed
  <2>3. \A i \in Items : status'[i] = "SCHEDULED" => status[i] = "SCHEDULED"
    BY <1>1, <1>3, <2>2 DEF SubmitCommits, DecideCommits, CancelCommits, SetStatus, Base, Typed, ItemsTyped
  <2>4. GoOn
    BY <1>1, <2>1, RequestEnds
  <2> QED
    BY <2>1, <2>3, <2>4, ElsewhereKeeps DEF GoOn
<1>4. ASSUME NEW u \in Users, EditCommits(u) \/ TransitionCommits(u) \/ Abort(u)
      PROVE  Calendar' /\ Quota'
  BY <1>1, <1>4, EditIs, ElsewhereKeeps DEF GoOn
<1>5. ASSUME \/ \E i \in Edited : ApplyTool(i) \/ ArchiveItem(i) \/ PurgeExpired(i)
             \/ SetPolicy \/ NextMonth
      PROVE  Calendar' /\ Quota'
  BY <1>1, <1>5, BesideIs, ElsewhereKeeps DEF GoOn
<1>6. ASSUME UNCHANGED planningVars
      PROVE  Calendar' /\ Quota'
  <2>1. UNCHANGED calendarVars /\ UNCHANGED status /\ tx' = tx
    BY <1>6 DEF planningVars, calendarVars
  <2> QED
    BY <2>1, ElsewhereKeeps
<1>7. ASSUME NEW u \in Users,
             \/ RescheduleCommits(u) \/ UnscheduleLocks(u)
             \/ ScheduleCommits(u) \/ UnscheduleCommits(u)
      PROVE  Calendar' /\ Quota'
  BY <1>7, RescheduleKeeps, UnscheduleLocksKeeps, ScheduleKeeps, UnscheduleKeeps
<1>8. Calendar' /\ Quota'
  BY <1>1, <1>2, <1>3, <1>4, <1>5, <1>6, <1>7, StepsAre, Zenon
<1> QED
  BY <1>1, <1>8 DEF PlanInv

THEOREM PlanInvHolds == PlanningSpec => []PlanInv
<1>1. Init => PlanInv
  BY PlanInvStarts
<1>2. PlanInv /\ [PlanningNext]_planningVars => PlanInv'
  BY PlanInvStep
<1> QED
  BY <1>1, <1>2, PTL DEF PlanningSpec

-----------------------------------------------------------------------------
(* What follows *)

\* Every row of the tables and every open request has its type.
THEOREM PlanningTypeOK == PlanningSpec => []TypeOK
<1>1. PlanInv => TypeOK
  BY DEF PlanInv, Base, Typed, ItemsTyped, ApprovalsTyped, SlotsTyped, MeterTyped, RequestsTyped, TypeOK
<1> QED
  BY <1>1, PlanInvHolds, PTL

\* No item is stranded in review, whatever submits, decides, withdraws, edits
\* or schedules it at the same time.
THEOREM ReviewsStayOpen == PlanningSpec => []ReviewIsOpen
<1>1. PlanInv => ReviewIsOpen
  BY DEF PlanInv, Base
<1> QED
  BY <1>1, PlanInvHolds, PTL

\* No item says it is scheduled once its last slot has left the calendar.
THEOREM ScheduledArePlanned == PlanningSpec => []ScheduledIsPlanned
<1>1. PlanInv => ScheduledIsPlanned
  BY DEF PlanInv, Calendar
<1> QED
  BY <1>1, PlanInvHolds, PTL

\* The counter of a month covers the events that were charged to it.
THEOREM CounterIsCovered == PlanningSpec => []CounterCoversEvents
<1>1. PlanInv => CounterCoversEvents
  BY DEF PlanInv, Quota
<1> QED
  BY <1>1, PlanInvHolds, PTL

LEMMA DisjointParts ==
  ASSUME NEW S, NEW T, IsFiniteSet(S), IsFiniteSet(T), S \cap T = {}
  PROVE  Cardinality(S \cup T) = Cardinality(S) + Cardinality(T)
<1>1. Cardinality(S) \in Nat /\ Cardinality(T) \in Nat /\ Cardinality(S \cap T) = 0
  BY FS_CardinalityType, FS_EmptySet
<1>2. Cardinality(S \cup T) = Cardinality(S) + Cardinality(T) - Cardinality(S \cap T)
  BY FS_Union
<1> QED
  BY <1>1, <1>2

\* The slots of a month still on the calendar and the refunds it gave back for
\* its own slots are different units, and the month consumed them all.
LEMMA MeteredMonth ==
  ASSUME PlanInv
  PROVE  MonthIsMetered
<1> SUFFICES ASSUME NEW m \in Months
             PROVE  Cardinality({s \in DOMAIN slots : Live(s) /\ slots[s].month = m})
                      <= Limit + Cardinality({e \in Of("refund", m) : slots[e[1]].month # m})
  BY DEF MonthIsMetered
<1> DEFINE L == {s \in DOMAIN slots : Live(s) /\ slots[s].month = m}
           A == {e \in Of("refund", m) : slots[e[1]].month # m}
           B == {e \in Of("refund", m) : slots[e[1]].month = m}
           C == Of("consume", m)
           P == {e \in C : Live(e[1])}
           Q == {e \in C : ~Live(e[1])}
           f == [s \in L |-> <<s, "consume", m>>]
           g == [e \in B |-> <<e[1], "consume", m>>]
<1>1. \A e \in events : e = <<e[1], e[2], e[3]>> /\ e[1] \in DOMAIN slots
  BY DEF PlanInv, Base, Typed, MeterTyped, Quota, Metered
<1>2. IsFiniteSet(C) /\ IsFiniteSet(Of("refund", m)) /\ Cardinality(C) \in Nat
      /\ Cardinality(Of("refund", m)) \in Nat /\ used[m] \in Nat
  BY EventSets
<1>3. IsFiniteSet(A) /\ IsFiniteSet(B) /\ IsFiniteSet(P) /\ IsFiniteSet(Q)
  BY <1>2, FS_Subset
<1>4. Cardinality(Of("refund", m)) = Cardinality(A) + Cardinality(B)
  <2>1. Of("refund", m) = A \cup B /\ A \cap B = {}
    OBVIOUS
  <2> HIDE DEF A, B, C, P, Q
  <2> QED
    BY <1>3, <2>1, DisjointParts
<1>5. Cardinality(C) = Cardinality(P) + Cardinality(Q)
  <2>1. C = P \cup Q /\ P \cap Q = {}
    OBVIOUS
  <2> HIDE DEF A, B, C, P, Q
  <2> QED
    BY <1>3, <2>1, DisjointParts
<1>6. Cardinality(L) <= Cardinality(P)
  <2>1. f \in Injection(L, P)
    <3>1. \A s \in L : <<s, "consume", m>> \in P
      BY DEF PlanInv, Quota, Metered, Of
    <3> QED
      BY <3>1 DEF Injection, IsInjective
  <2> QED
    BY <1>3, <2>1, FS_Injection
<1>7. Cardinality(B) <= Cardinality(Q)
  <2>1. g \in Injection(B, Q)
    <3>1. ASSUME NEW e \in B
          PROVE  <<e[1], "consume", m>> \in Q
      <4>1. e \in events /\ e = <<e[1], "refund", m>> /\ e[1] \in DOMAIN slots
            /\ slots[e[1]].month = m
        BY <1>1 DEF Of
      <4>2. ~Live(e[1]) /\ <<e[1], "consume", m>> \in events
        BY <4>1 DEF PlanInv, Quota, Metered, Recorded, Live
      <4> QED
        BY <4>2 DEF Of
    <3>2. \A e \in B : e = <<e[1], "refund", m>>
      BY <1>1 DEF Of
    <3>3. \A a, b \in B : g[a] = g[b] => a = b
      BY <3>2
    <3> QED
      BY <3>1, <3>3 DEF Injection, IsInjective
  <2> QED
    BY <1>3, <2>1, FS_Injection
<1>8. used[m] + Cardinality(Of("refund", m)) >= Cardinality(C) /\ used[m] <= Limit
  BY DEF PlanInv, Quota, CounterCoversEvents, Metered
<1>9. IsFiniteSet(L) /\ Cardinality(L) \in Nat /\ Cardinality(A) \in Nat
      /\ Cardinality(B) \in Nat /\ Cardinality(P) \in Nat /\ Cardinality(Q) \in Nat
  <2>1. IsFiniteSet(1..Len(slots)) /\ L \subseteq 1..Len(slots)
    BY SlotRows, FS_Interval DEF PlanInv
  <2>2. IsFiniteSet(L)
    BY <2>1, FS_Subset
  <2> QED
    BY <1>3, <2>2, FS_CardinalityType
<1> HIDE DEF L, A, B, C, P, Q
<1> QED
  BY <1>2, <1>4, <1>5, <1>6, <1>7, <1>8, <1>9, PlanningAssumption DEF L, A

\* The plan's monthly limit is never exceeded by more than what the month gave
\* back for posts placed in another.
THEOREM MonthsAreMetered == PlanningSpec => []MonthIsMetered
<1>1. PlanInv => MonthIsMetered
  BY MeteredMonth
<1> QED
  BY <1>1, PlanInvHolds, PTL

\* Whoever decides or withdraws holds the row of the cycle, and the cycle is
\* pending: what was decided stays.
LEMMA VerdictsStay ==
  ASSUME Base, [PlanningNext]_planningVars
  PROVE  \A i \in Items : \A a \in DOMAIN approvals[i] :
           /\ a \in DOMAIN approvals'[i]
           /\ approvals[i][a].status # "PENDING" => approvals'[i][a] = approvals[i][a]
<1> DEFINE Stands == \A i \in Items : \A a \in DOMAIN approvals[i] :
             /\ a \in DOMAIN approvals'[i]
             /\ approvals[i][a].status # "PENDING" => approvals'[i][a] = approvals[i][a]
<1>1. ASSUME NEW u \in Users, SubmitCommits(u)
      PROVE  Stands
  <2>1. PICK j \in Items, row \in Approval : approvals' = [approvals EXCEPT ![j] = Append(@, row)]
    <3>1. tx[u].item \in Items /\ tx[u].cycle \in Nat
      BY <1>1, OpenRequest DEF SubmitCommits, Commits, Base, Typed
    <3> QED
      BY <1>1, <3>1 DEF SubmitCommits, Approval, ApprovalStatus
  <2>2. approvals[j] \in Seq(Approval) /\ DOMAIN approvals[j] = 1..Len(approvals[j])
        /\ Len(approvals[j]) \in Nat
    BY ApprovalRows
  <2>3. /\ Append(approvals[j], row) \in Seq(Approval)
        /\ Len(Append(approvals[j], row)) = Len(approvals[j]) + 1
        /\ \A a \in DOMAIN approvals[j] : Append(approvals[j], row)[a] = approvals[j][a]
    BY <2>2, AppendProperties
  <2>4. \A a \in DOMAIN approvals[j] : a \in DOMAIN Append(approvals[j], row)
    BY <2>2, <2>3, LenProperties
  <2> QED
    BY <2>1, <2>3, <2>4 DEF Base, Typed, ApprovalsTyped
<1>2. ASSUME NEW u \in Users, DecideCommits(u) \/ CancelCommits(u)
      PROVE  Stands
  <2>1. Closing(u) /\ tx[u].read \in Words \cup {None}
    BY <1>2, OpenRequest DEF DecideCommits, CancelCommits, Commits, Closing, Verdicts, Base, Typed
  <2>2. \E s \in ApprovalStatus \ {"PENDING"}, c \in Words \cup {None} : Close(u, s, c)
    BY <1>2, <2>1 DEF DecideCommits, CancelCommits, ApprovalStatus
  <2> QED
    BY <2>1, <2>2, CloseIs DEF IsPending
<1>3. UNCHANGED approvals => Stands
  OBVIOUS
<1>4. UNCHANGED approvals \/ \E u \in Users :
               SubmitCommits(u) \/ DecideCommits(u) \/ CancelCommits(u)
  <2>1. ASSUME NEW u \in Users, Review(u) \/ EditContent(u) \/ Plan(u) \/ Abort(u)
        PROVE  UNCHANGED approvals \/ SubmitCommits(u) \/ DecideCommits(u) \/ CancelCommits(u)
    BY <2>1, Zenon DEF Review, EditContent, Plan, Abort, SubmitReads, CancelReads, DecideReads,
       EditReads, EditCommits, TransitionReads, TransitionCommits, ScheduleReads, ScheduleCommits,
       RescheduleReads, RescheduleCommits, UnscheduleReads, UnscheduleLocks, UnscheduleCommits, Opens
  <2>2. ASSUME \/ \E i \in Edited : ApplyTool(i) \/ ArchiveItem(i) \/ PurgeExpired(i)
               \/ SetPolicy \/ NextMonth
        PROVE  UNCHANGED approvals
    BY <2>2 DEF ApplyTool, ArchiveItem, PurgeExpired, SetPolicy, NextMonth
  <2>3. CASE UNCHANGED planningVars
    BY <2>3 DEF planningVars
  <2> QED
    BY <2>1, <2>2, <2>3, Zenon DEF PlanningNext
<1> QED
  BY <1>1, <1>2, <1>3, <1>4

\* A verdict is given once, for any number of reviewers and withdrawals.
THEOREM VerdictsStandFast == PlanningSpec => VerdictsStand
<1> DEFINE Stands == \A i \in Items : \A a \in DOMAIN approvals[i] :
             approvals[i][a].status # "PENDING" => approvals'[i][a] = approvals[i][a]
<1>1. PlanInv /\ [PlanningNext]_planningVars => [Stands]_planningVars
  BY VerdictsStay DEF PlanInv
<1> QED
  BY <1>1, PlanInvHolds, PTL DEF PlanningSpec, VerdictsStand

-----------------------------------------------------------------------------
(***************************************************************************)
(* What the publishing pipeline guarantees of every job, for every number  *)
(* of slots, connections, schedulers and requests, every set of answers    *)
(* and any number of lost transactions: another post of a job, and a       *)
(* status that contradicts the platform, only after the job went astray by *)
(* one of the causes of the model.                                         *)
(*                                                                         *)
(* The argument is about one job at a time (JobInv).  The row of a job     *)
(* says nothing while a worker is on it, so the invariant follows the      *)
(* claim: a job that has not been claimed, or whose claim has not sent     *)
(* yet, has no post; what a transaction is about to write is true of the   *)
(* platform already when it holds the row and waits for its commit.        *)
(***************************************************************************)

IsSeq(s) == \E S : s \in Seq(S)

Fields == {"status", "attempts", "manual", "byHand", "recorded"}

\* The tables keep their rows, and the rows of jobs their fields.
PipeShape ==
  /\ DOMAIN jobs = Jobs /\ DOMAIN run = Jobs /\ DOMAIN message = Jobs
  /\ DOMAIN posts = Jobs /\ DOMAIN astray = Jobs /\ DOMAIN clicks = Clicks
  /\ \A j \in Jobs : DOMAIN jobs[j] = Fields
  /\ \A j \in Jobs : IsSeq(posts[j])

\* A request of the history is about a job; a retry of one that had a post
\* found it astray.
ClicksSound ==
  \A q \in Clicks : clicks[q].at # "idle" =>
    /\ clicks[q].job \in Jobs
    /\ clicks[q].at = "retry" /\ clicks[q].saw > 0 => astray[clicks[q].job] # None

\* A message is active while its transaction holds the row of a queued job,
\* and only a message brings a job to its preflight.
Worker(j) ==
  /\ message[j] = "active" => jobs[j].status = "QUEUED" /\ run[j].at # "idle"
  /\ run[j].at \in {"claimed", "checked"} => message[j] = "active"

\* What is published went out, or a person named it.
Shows(j) ==
  /\ jobs[j].status = "PUBLISHED" => Landed(j) > 0 \/ jobs[j].byHand
  /\ run[j].at = "settling" /\ run[j].to = "PUBLISHED" => Landed(j) > 0 \/ run[j].byHand

Unsent == {"NONE", "QUEUED", "FAILED", "CANCELLED"}

\* What the row, and a transaction on its way to it, deny of the platform.
Sound(j) ==
  /\ jobs[j].status \in Unsent /\ message[j] # "active" => Landed(j) = 0
  /\ run[j].at \in {"claimed", "checked"} => Landed(j) = 0
  /\ run[j].at = "settling" /\ run[j].to \in Unsent => Landed(j) = 0

JobInv(j) == Worker(j) /\ Shows(j) /\ (astray[j] = None => Sound(j))

PipeInv == PipeShape /\ ClicksSound /\ \A j \in Jobs : JobInv(j)

\* What went astray stays so.
Marked == DOMAIN astray' = Jobs /\ \A k \in Jobs : astray[k] # None => astray'[k] # None

\* A step is about job j: the others keep their rows.
About(j) ==
  /\ \A k \in Jobs \ {j} : /\ jobs'[k] = jobs[k] /\ run'[k] = run[k]
                           /\ message'[k] = message[k] /\ posts'[k] = posts[k]
  /\ Marked

LEMMA OneMorePost ==
  ASSUME NEW s, IsSeq(s), NEW w
  PROVE  IsSeq(Append(s, w)) /\ Len(Append(s, w)) = Len(s) + 1 /\ Len(s) \in Nat
<1>1. PICK S : s \in Seq(S)
  BY DEF IsSeq
<1>2. s \in Seq(S \cup {w})
  BY <1>1
<1>3. Append(s, w) \in Seq(S \cup {w}) /\ Len(Append(s, w)) = Len(s) + 1 /\ Len(s) \in Nat
  BY <1>2
<1> QED
  BY <1>3 DEF IsSeq

LEMMA PostsCount ==
  ASSUME PipeInv, NEW j \in Jobs
  PROVE  Landed(j) \in Nat
BY OneMorePost DEF PipeInv, PipeShape, Landed

\* A job that a step is not about keeps its invariant.
LEMMA OthersKeep ==
  ASSUME PipeInv, NEW j \in Jobs, About(j), JobInv(j)'
  PROVE  \A k \in Jobs : JobInv(k)'
<1> SUFFICES ASSUME NEW k \in Jobs \ {j} PROVE JobInv(k)'
  OBVIOUS
<1>1. JobInv(k)
  BY DEF PipeInv
<1>2. /\ jobs'[k] = jobs[k] /\ run'[k] = run[k] /\ message'[k] = message[k]
      /\ posts'[k] = posts[k] /\ (astray[k] # None => astray'[k] # None)
  BY DEF About, Marked
<1>3. Worker(k)' /\ Shows(k)'
  BY <1>1, <1>2 DEF JobInv, Worker, Shows, Landed
<1>4. astray'[k] = None => Sound(k)'
  BY <1>1, <1>2 DEF JobInv, Sound, Landed
<1> QED
  BY <1>3, <1>4 DEF JobInv

LEMMA NothingMoves ==
  ASSUME PipeInv, UNCHANGED <<jobs, run, message, posts, astray, clicks>>
  PROVE  PipeInv'
<1>1. PipeShape' /\ ClicksSound'
  BY DEF PipeInv, PipeShape, ClicksSound
<1>2. ASSUME NEW k \in Jobs PROVE JobInv(k)'
  <2>1. JobInv(k)
    BY DEF PipeInv
  <2> QED
    BY <2>1 DEF JobInv, Worker, Shows, Sound, Landed
<1> QED
  BY <1>1, <1>2 DEF PipeInv

\* A step about j that leaves the requests and the number of rows alone.
LEMMA StepKeeps ==
  ASSUME PipeInv, NEW j \in Jobs, PipeShape', ClicksSound', About(j), JobInv(j)'
  PROVE  PipeInv'
BY OthersKeep DEF PipeInv

\* Requests under way, and what a step leaves of them.
LEMMA ClicksKeep ==
  ASSUME PipeInv, Marked,
         UNCHANGED clicks \/ \E q \in Clicks : clicks' = [clicks EXCEPT ![q] = NoRun]
  PROVE  DOMAIN clicks' = Clicks /\ ClicksSound'
<1>1. /\ DOMAIN clicks' = Clicks
      /\ \A q \in Clicks : clicks'[q].at # "idle" => clicks'[q] = clicks[q]
  BY DEF PipeInv, PipeShape, NoRun
<1> QED
  BY <1>1 DEF PipeInv, ClicksSound, Marked

\* Blaming keeps the marks, and marks j when the cause holds.
LEMMA BlameMarks ==
  ASSUME PipeInv, NEW j \in Jobs, NEW cause \in Causes, NEW holds \in BOOLEAN,
         Blame(j, cause, holds)
  PROVE  Marked /\ (holds => astray'[j] # None)
<1>1. cause # None
  BY DEF Causes, None
<1>2. /\ DOMAIN astray' = Jobs /\ \A k \in Jobs \ {j} : astray'[k] = astray[k]
      /\ astray'[j] = IF astray[j] = None /\ holds THEN cause ELSE astray[j]
  BY DEF Blame, PipeInv, PipeShape
<1> QED
  BY <1>1, <1>2 DEF Marked

LEMMA PipeInvInit == PublishInit => PipeInv
<1> SUFFICES ASSUME PublishInit PROVE PipeInv
  OBVIOUS
<1>1. \A j \in Jobs : posts[j] = << >> /\ << >> \in Seq(Words)
  BY DEF PublishInit
<1>2. PipeShape
  BY <1>1 DEF PublishInit, PipeShape, IsSeq, Fields
<1>3. ClicksSound
  BY DEF PublishInit, ClicksSound, NoRun
<1>4. ASSUME NEW j \in Jobs PROVE JobInv(j)
  <2>1. Landed(j) = 0
    BY <1>1 DEF Landed
  <2> QED
    BY <2>1 DEF PublishInit, JobInv, Worker, Shows, Sound, NoRun
<1> QED
  BY <1>2, <1>3, <1>4 DEF PipeInv

-----------------------------------------------------------------------------
(* The scheduler and the queue. *)

\* Jobs are made from NONE, which says that nothing was sent.
LEMMA MaterialiseKeeps ==
  ASSUME PipeInv, NEW w \in Sweepers, MaterialiseCommits(w)
  PROVE  PipeInv'
<1>1. UNCHANGED <<run, message, posts, astray, clicks>>
  BY DEF MaterialiseCommits
<1>2. PICK made : /\ \A j \in made : jobs[j].status = "NONE"
                  /\ jobs' = [j \in Jobs |-> IF j \in made
                                THEN [jobs[j] EXCEPT !.status = "QUEUED"] ELSE jobs[j]]
  BY DEF MaterialiseCommits
<1>3. PipeShape'
  BY <1>1, <1>2 DEF PipeInv, PipeShape
<1>4. ClicksSound'
  BY <1>1 DEF PipeInv, ClicksSound
<1>5. ASSUME NEW j \in Jobs PROVE JobInv(j)'
  <2>1. JobInv(j) /\ DOMAIN jobs[j] = Fields
    BY DEF PipeInv, PipeShape
  <2>2. CASE j \notin made
    <3>1. jobs'[j] = jobs[j]
      BY <1>2, <2>2
    <3> QED
      BY <1>1, <2>1, <3>1 DEF JobInv, Worker, Shows, Sound, Landed
  <2>3. CASE j \in made
    <3>1. jobs[j].status = "NONE" /\ jobs'[j].status = "QUEUED"
      BY <1>2, <2>1, <2>3 DEF Fields
    <3> QED
      BY <1>1, <2>1, <3>1 DEF JobInv, Worker, Shows, Sound, Landed, Unsent
  <2> QED
    BY <2>2, <2>3
<1> QED
  BY <1>3, <1>4, <1>5 DEF PipeInv

LEMMA DispatchKeeps ==
  ASSUME PipeInv, NEW j \in Jobs, Dispatch(j) \/ Evict(j)
  PROVE  PipeInv'
<1>1. PICK m \in {"waiting", "absent"} : message' = [message EXCEPT ![j] = m]
  BY DEF Dispatch, Evict
<1>2. UNCHANGED <<jobs, run, posts, astray, clicks>> /\ message[j] # "active"
  BY DEF Dispatch, Evict
<1>3. PipeShape' /\ ClicksSound' /\ About(j)
  BY <1>1, <1>2 DEF PipeInv, PipeShape, ClicksSound, About, Marked
<1>4. JobInv(j) /\ message'[j] # "active"
  BY <1>1 DEF PipeInv, PipeShape
<1>5. JobInv(j)'
  BY <1>2, <1>4 DEF JobInv, Worker, Shows, Sound, Landed
<1> QED
  BY <1>3, <1>5, StepKeeps

-----------------------------------------------------------------------------
(* The worker. *)

\* What the transaction of j holds, when a step moves it to r.
LEMMA RunMoves ==
  ASSUME PipeInv, NEW j \in Jobs, NEW r, run' = [run EXCEPT ![j] = r],
         UNCHANGED <<jobs, message>>,
         UNCHANGED clicks \/ \E q \in Clicks : clicks' = [clicks EXCEPT ![q] = NoRun],
         posts' = posts \/ \E w : posts' = [posts EXCEPT ![j] = Append(@, w)],
         Marked
  PROVE  /\ PipeShape' /\ ClicksSound' /\ About(j)
         /\ run'[j] = r /\ jobs'[j] = jobs[j] /\ message'[j] = message[j]
<1>1. DOMAIN posts' = Jobs /\ \A k \in Jobs \ {j} : posts'[k] = posts[k]
  BY DEF PipeInv, PipeShape
<1>2. \A k \in Jobs : IsSeq(posts'[k])
  <2>1. \A k \in Jobs : IsSeq(posts[k])
    BY DEF PipeInv, PipeShape
  <2>2. ASSUME NEW w, posts' = [posts EXCEPT ![j] = Append(@, w)]
        PROVE  IsSeq(posts'[j])
    <3>1. posts'[j] = Append(posts[j], w)
      BY <2>2 DEF PipeInv, PipeShape
    <3> QED
      BY <2>1, <3>1, OneMorePost
  <2> QED
    BY <1>1, <2>1, <2>2
<1>3. DOMAIN clicks' = Clicks /\ ClicksSound'
  BY ClicksKeep
<1>4. PipeShape'
  BY <1>1, <1>2, <1>3 DEF PipeInv, PipeShape, Marked
<1>5. About(j) /\ run'[j] = r
  BY <1>1 DEF PipeInv, PipeShape, About
<1> QED
  BY <1>3, <1>4, <1>5

LEMMA SettlingIs ==
  ASSUME NEW j, NEW to, NEW n, NEW class
  PROVE  /\ Settling(j, to, n, class).at = "settling" /\ Settling(j, to, n, class).to = to
         /\ Settling(j, to, n, class).attempts = n
         /\ Settling(j, to, n, class).byHand = (to = "PUBLISHED" /\ run[j] = NoRun)
         /\ Settling(j, to, n, class).slot = Lifecycle(j, to)
BY DEF Settling

\* A transaction that is nothing but on its way.
LEMMA Claimed ==
  \A w : /\ [at |-> "claimed"].at = "claimed"
         /\ [at |-> "checked", words |-> w].at = "checked"
         /\ [at |-> "checked", words |-> w].words = w
OBVIOUS

\* A duplicate delivery retires its message; the claim of a queued job finds
\* nothing sent.
LEMMA ClaimKeeps ==
  ASSUME PipeInv, NEW j \in Jobs, Claim(j)
  PROVE  PipeInv'
<1>1. JobInv(j) /\ run[j] = NoRun /\ message[j] = "waiting"
  BY DEF PipeInv, Claim
<1>2. UNCHANGED <<jobs, posts, astray, clicks>>
  BY DEF Claim
<1>3. CASE jobs[j].status = "QUEUED"
  <2>1. /\ run' = [run EXCEPT ![j] = [at |-> "claimed"]]
        /\ message' = [message EXCEPT ![j] = "active"]
    BY <1>3 DEF Claim
  <2>2. PipeShape' /\ ClicksSound' /\ About(j)
    BY <1>2, <2>1 DEF PipeInv, PipeShape, ClicksSound, About, Marked
  <2>3. run'[j].at = "claimed" /\ message'[j] = "active"
    BY <2>1 DEF PipeInv, PipeShape
  <2>4. JobInv(j)'
    BY <1>1, <1>2, <1>3, <2>3 DEF JobInv, Worker, Shows, Sound, Landed, Unsent
  <2> QED
    BY <2>2, <2>4, StepKeeps
<1>4. CASE jobs[j].status # "QUEUED"
  <2>1. message' = [message EXCEPT ![j] = "retained"] /\ UNCHANGED run
    BY <1>4 DEF Claim, Retain
  <2>2. PipeShape' /\ ClicksSound' /\ About(j)
    BY <1>2, <2>1 DEF PipeInv, PipeShape, ClicksSound, About, Marked
  <2>3. message'[j] = "retained"
    BY <2>1 DEF PipeInv, PipeShape
  <2>4. JobInv(j)'
    BY <1>1, <1>2, <2>1, <2>3 DEF JobInv, Worker, Shows, Sound, Landed, NoRun
  <2> QED
    BY <2>2, <2>4, StepKeeps
<1> QED
  BY <1>3, <1>4

\* A preflight refuses the job, or lets it through with the words it read.
LEMMA PreflightIs ==
  ASSUME NEW j \in Jobs, Preflight(j)
  PROVE  \/ \E class \in Classes :
              run' = [run EXCEPT ![j] = Settling(j, "FAILED", jobs[j].attempts, class)]
         \/ /\ ~Refuses(j, "APPROVAL_REVOKED")
            /\ \E w : /\ w = IF gate THEN words[ItemOf(j)] ELSE None
                      /\ run' = [run EXCEPT ![j] = [at |-> "checked", words |-> w]]
BY Zenon DEF Preflight

LEMMA PreflightKeeps ==
  ASSUME PipeInv, NEW j \in Jobs, Preflight(j)
  PROVE  PipeInv'
<1>1. JobInv(j) /\ run[j].at = "claimed"
  BY DEF PipeInv, Preflight, At
<1>2. UNCHANGED <<jobs, message, posts, astray, clicks>> /\ Marked
  BY DEF Preflight, PipeInv, PipeShape, Marked
<1>3. PICK r : /\ run' = [run EXCEPT ![j] = r]
               /\ \/ r.at = "settling" /\ r.to = "FAILED"
                  \/ r.at = "checked"
  <2>1. ASSUME NEW class \in Classes,
               run' = [run EXCEPT ![j] = Settling(j, "FAILED", jobs[j].attempts, class)]
        PROVE  \E r : run' = [run EXCEPT ![j] = r] /\ r.at = "settling" /\ r.to = "FAILED"
    <3> DEFINE r == Settling(j, "FAILED", jobs[j].attempts, class)
    <3>1. run' = [run EXCEPT ![j] = r] /\ r.at = "settling" /\ r.to = "FAILED"
      BY <2>1, SettlingIs
    <3> HIDE DEF r
    <3> QED
      BY <3>1
  <2>2. ASSUME NEW w, run' = [run EXCEPT ![j] = [at |-> "checked", words |-> w]]
        PROVE  \E r : run' = [run EXCEPT ![j] = r] /\ r.at = "checked"
    BY <2>2, Claimed, Zenon
  <2> QED
    BY <2>1, <2>2, PreflightIs, Zenon
<1>4. /\ PipeShape' /\ ClicksSound' /\ About(j)
      /\ run'[j] = r /\ jobs'[j] = jobs[j] /\ message'[j] = message[j]
  BY <1>2, <1>3, RunMoves
<1>5. JobInv(j)'
  BY <1>1, <1>2, <1>3, <1>4 DEF JobInv, Worker, Shows, Sound, Landed
<1> QED
  BY <1>4, <1>5, StepKeeps

\* What AfterAnswer is about to write: a publication has a post, and what is
\* not one had none or goes astray.
LEMMA AnswerIs ==
  ASSUME PipeInv, NEW j \in Jobs, NEW class \in Classes \cup {None}, NEW landed \in BOOLEAN,
         AfterAnswer(j, class, landed), class = None => landed
  PROVE  \E to \in {"PUBLISHED", "FAILED", "QUEUED", "VERIFICATION_PENDING"} : \E cl :
           /\ run' = [run EXCEPT ![j] = Settling(j, to, jobs[j].attempts + 1, cl)]
           /\ Marked
           /\ to = "PUBLISHED" => landed
           /\ to \in {"FAILED", "QUEUED"} /\ landed => astray'[j] # None
<1> DEFINE As(to) == run' = [run EXCEPT ![j] =
             Settling(j, to, jobs[j].attempts + 1, IF to = "PUBLISHED" THEN None ELSE class)]
           Retries == As(IF class \notin Retryable \/ jobs[j].attempts + 1 >= MaxAttempts
                         THEN "FAILED" ELSE "QUEUED")
<1>0. UNCHANGED astray => Marked
  BY DEF PipeInv, PipeShape, Marked
<1>1. \/ class = None /\ As("PUBLISHED") /\ UNCHANGED astray
      \/ Retries /\ Blame(j, "misread", landed)
      \/ As("VERIFICATION_PENDING") /\ UNCHANGED astray
      \/ landed /\ As("PUBLISHED") /\ UNCHANGED astray
      \/ Retries /\ Blame(j, "missed", landed)
  BY Zenon DEF AfterAnswer
<1>2. ASSUME NEW cause \in Causes, Retries, Blame(j, cause, landed)
      PROVE  /\ As("FAILED") \/ As("QUEUED")
             /\ Marked /\ (landed => astray'[j] # None)
  BY <1>2, BlameMarks
<1>3. "misread" \in Causes /\ "missed" \in Causes
  BY DEF Causes
<1> HIDE DEF Retries
<1>4. \/ As("PUBLISHED") /\ Marked /\ landed
      \/ As("VERIFICATION_PENDING") /\ Marked
      \/ (As("FAILED") \/ As("QUEUED")) /\ Marked /\ (landed => astray'[j] # None)
  BY <1>0, <1>1, <1>2, <1>3, Zenon
<1>5. \A to : As(to) => \E cl : run' = [run EXCEPT ![j] = Settling(j, to, jobs[j].attempts + 1, cl)]
  BY Zenon
<1> HIDE DEF As
<1> QED
  BY <1>4, <1>5

\* A transaction that rolls back on behalf of cause.
LEMMA RollsBackIs ==
  ASSUME PipeInv, NEW j \in Jobs, NEW cause \in Causes, NEW landed \in BOOLEAN,
         RollsBack(j, cause, landed)
  PROVE  /\ run' = [run EXCEPT ![j] = NoRun]
         /\ UNCHANGED <<planningVars, connVars, jobs, sweep, clicks, overlapped>>
         /\ \/ message[j] # "active" /\ UNCHANGED message
            \/ /\ message[j] = "active"
               /\ \E m \in {"waiting", "retained"} : message' = [message EXCEPT ![j] = m]
         /\ Marked
         /\ message[j] = "active" /\ landed => astray'[j] # None
<1>1. Marked /\ (message[j] = "active" /\ landed => astray'[j] # None)
  <2>1. PICK holds \in BOOLEAN : holds = (message[j] = "active" /\ landed)
    OBVIOUS
  <2>2. Blame(j, cause, holds)
    BY <2>1 DEF RollsBack
  <2> QED
    BY <2>1, <2>2, BlameMarks
<1>2. UNCHANGED <<planningVars, connVars, jobs, sweep, clicks, overlapped>>
  BY DEF RollsBack
<1> QED
  BY <1>1, <1>2 DEF RollsBack, Retain

\* A lost or refused transaction leaves the row as it was before the claim: it
\* contradicts the platform only if there was a post, and then j is astray.
LEMMA RollsBackKeeps ==
  ASSUME PipeInv, NEW j \in Jobs, NEW cause \in Causes, NEW landed \in BOOLEAN,
         RollsBack(j, cause, landed),
         \/ UNCHANGED posts /\ (Landed(j) > 0 => landed)
         \/ /\ message[j] = "active" /\ landed
            /\ \E w : posts' = [posts EXCEPT ![j] = Append(@, w)]
  PROVE  PipeInv'
<1>1. JobInv(j) /\ Landed(j) \in Nat
  BY PostsCount DEF PipeInv
<1>2. /\ run' = [run EXCEPT ![j] = NoRun] /\ UNCHANGED <<jobs, clicks>>
      /\ \/ message[j] # "active" /\ UNCHANGED message
         \/ /\ message[j] = "active"
            /\ \E m \in {"waiting", "retained"} : message' = [message EXCEPT ![j] = m]
      /\ Marked
      /\ message[j] = "active" /\ landed => astray'[j] # None
  BY RollsBackIs
<1>3. /\ DOMAIN posts' = Jobs /\ \A k \in Jobs : IsSeq(posts'[k])
      /\ \A k \in Jobs \ {j} : posts'[k] = posts[k]
      /\ posts'[j] = posts[j] \/ Landed(j)' = Landed(j) + 1
  <2>1. DOMAIN posts = Jobs /\ \A k \in Jobs : IsSeq(posts[k])
    BY DEF PipeInv, PipeShape
  <2>2. ASSUME NEW w, posts' = [posts EXCEPT ![j] = Append(@, w)]
        PROVE  posts'[j] = Append(posts[j], w) /\ IsSeq(posts'[j]) /\ Landed(j)' = Landed(j) + 1
    BY <2>1, <2>2, OneMorePost DEF Landed
  <2> QED
    BY <2>1, <2>2
<1>4. DOMAIN clicks' = Clicks /\ ClicksSound'
  BY <1>2, ClicksKeep
<1>5. PipeShape' /\ About(j)
  BY <1>2, <1>3, <1>4 DEF PipeInv, PipeShape, About, Marked
<1>6. run'[j].at = "idle" /\ message'[j] # "active"
  BY <1>2 DEF PipeInv, PipeShape, NoRun
<1>7. ASSUME astray'[j] = None PROVE Sound(j)'
  <2>1. Sound(j)
    BY <1>1, <1>2, <1>7 DEF JobInv, Marked
  <2>2. UNCHANGED posts /\ Landed(j)' = Landed(j)
    BY <1>2, <1>7 DEF Landed
  <2>3. message[j] = "active" => Landed(j) = 0
    BY <1>1, <1>2, <1>7, <2>2
  <2> QED
    BY <1>2, <1>6, <2>1, <2>2, <2>3 DEF Sound
<1>8. Worker(j)'
  BY <1>6 DEF Worker
<1>9. Shows(j)'
  <2>1. Landed(j) > 0 => Landed(j)' > 0
    BY <1>1, <1>3 DEF Landed
  <2> QED
    BY <1>1, <1>2, <1>6, <2>1 DEF JobInv, Shows
<1> QED
  BY <1>4, <1>5, <1>7, <1>8, <1>9, StepKeeps DEF JobInv

\* What a send does: a post or none, and then the transaction settles on the
\* answer or rolls back.
LEMMA SendIs ==
  ASSUME PipeInv, NEW j \in Jobs, Send(j)
  PROVE  \E received \in BOOLEAN, class \in Classes \cup {None}, landed \in BOOLEAN :
           /\ landed = (received \/ Landed(j) > 0)
           /\ class = None => received
           /\ IF received
              THEN posts' = [posts EXCEPT ![j] = Append(@,
                     [checked |-> run[j].words, sent |-> words[ItemOf(j)]])]
              ELSE UNCHANGED posts
           /\ RollsBack(j, "refused", landed) \/ AfterAnswer(j, class, landed)
<1>1. PICK received \in BOOLEAN, class \in Answers[j[2]] \cup {None} :
        /\ IF received
           THEN posts' = [posts EXCEPT ![j] = Append(@,
                  [checked |-> run[j].words, sent |-> words[ItemOf(j)]])]
           ELSE class # None /\ UNCHANGED posts
        /\ IF jobs[j].attempts < jobs[j].recorded
           THEN RollsBack(j, "refused", received \/ Landed(j) > 0)
           ELSE AfterAnswer(j, class, received \/ Landed(j) > 0)
  BY Zenon DEF Send
<1>2. class \in Classes \cup {None}
  <2>1. j[2] \in Conns
    BY DEF Jobs
  <2>2. Answers[j[2]] \subseteq Classes
    BY <2>1, AnswersAssumption
  <2> QED
    BY <2>2
<1>3. PICK landed \in BOOLEAN : landed = (received \/ Landed(j) > 0)
  OBVIOUS
<1>4. RollsBack(j, "refused", landed) \/ AfterAnswer(j, class, landed)
  BY <1>1, <1>3, Zenon
<1> QED
  BY <1>1, <1>2, <1>3, <1>4, Zenon

LEMMA SendKeeps ==
  ASSUME PipeInv, NEW j \in Jobs, Send(j)
  PROVE  PipeInv'
<1>1. JobInv(j) /\ run[j].at = "checked" /\ message[j] = "active" /\ jobs[j].status = "QUEUED"
  BY DEF PipeInv, Send, At, JobInv, Worker
<1>2. PICK received \in BOOLEAN, class \in Classes \cup {None}, landed \in BOOLEAN :
        /\ landed = (received \/ Landed(j) > 0)
        /\ class = None => received
        /\ IF received
           THEN posts' = [posts EXCEPT ![j] = Append(@,
                  [checked |-> run[j].words, sent |-> words[ItemOf(j)]])]
           ELSE UNCHANGED posts
        /\ RollsBack(j, "refused", landed) \/ AfterAnswer(j, class, landed)
  BY SendIs, Zenon
<1> DEFINE w == [checked |-> run[j].words, sent |-> words[ItemOf(j)]]
<1>5. IF received THEN posts' = [posts EXCEPT ![j] = Append(@, w)] ELSE UNCHANGED posts
  BY <1>2
<1> HIDE DEF w
<1>3. CASE RollsBack(j, "refused", landed)
  <2>1. \/ UNCHANGED posts /\ (Landed(j) > 0 => landed)
        \/ /\ message[j] = "active" /\ landed
           /\ \E x : posts' = [posts EXCEPT ![j] = Append(@, x)]
    BY <1>1, <1>2, <1>5
  <2>2. "refused" \in Causes
    BY DEF Causes
  <2> QED
    BY <1>3, <2>1, <2>2, RollsBackKeeps
<1>4. CASE AfterAnswer(j, class, landed)
  <2>1. UNCHANGED <<jobs, message, clicks>>
    BY <1>4 DEF AfterAnswer
  <2>2. class = None => landed
    BY <1>2
  <2>3. PICK to \in {"PUBLISHED", "FAILED", "QUEUED", "VERIFICATION_PENDING"} : \E cl :
           /\ run' = [run EXCEPT ![j] = Settling(j, to, jobs[j].attempts + 1, cl)]
           /\ Marked
           /\ to = "PUBLISHED" => landed
           /\ to \in {"FAILED", "QUEUED"} /\ landed => astray'[j] # None
    BY <1>4, <2>2, AnswerIs
  <2>4. PICK r : run' = [run EXCEPT ![j] = r] /\ r.at = "settling" /\ r.to = to
    <3>0. PICK cl : run' = [run EXCEPT ![j] = Settling(j, to, jobs[j].attempts + 1, cl)]
      BY <2>3
    <3> DEFINE r == Settling(j, to, jobs[j].attempts + 1, cl)
    <3>1. run' = [run EXCEPT ![j] = r] /\ r.at = "settling" /\ r.to = to
      BY <3>0, SettlingIs
    <3> HIDE DEF r
    <3> QED
      BY <3>1
  <2>5. /\ PipeShape' /\ ClicksSound' /\ About(j)
        /\ run'[j] = r /\ jobs'[j] = jobs[j] /\ message'[j] = message[j]
    <3>1. posts' = posts \/ \E x : posts' = [posts EXCEPT ![j] = Append(@, x)]
      BY <1>5
    <3> QED
      BY <2>1, <2>3, <2>4, <3>1, RunMoves
  <2>6. Landed(j) \in Nat /\ Landed(j)' = Landed(j) + IF received THEN 1 ELSE 0
    <3>1. Landed(j) \in Nat
      BY PostsCount
    <3>2. CASE received
      <4>1. IsSeq(posts[j]) /\ posts'[j] = Append(posts[j], w)
        BY <1>5, <3>2 DEF PipeInv, PipeShape
      <4> QED
        BY <3>1, <3>2, <4>1, OneMorePost DEF Landed
    <3>3. CASE ~received
      BY <1>2, <3>1, <3>3 DEF Landed
    <3> QED
      BY <3>1, <3>2, <3>3
  <2>7. (landed <=> Landed(j)' > 0) /\ Landed(j)' \in Nat
    <3>1. PICK n \in Nat : n = Landed(j)
      BY <2>6
    <3>2. PICK m \in Nat : m = Landed(j)' /\ m = n + IF received THEN 1 ELSE 0
      BY <2>6, <3>1
    <3>3. landed <=> (received \/ n > 0)
      BY <1>2, <3>1, Zenon
    <3>4. landed <=> m > 0
      BY <3>2, <3>3
    <3> QED
      BY <3>2, <3>4
  <2>8. Worker(j)' /\ Shows(j)'
    BY <1>1, <2>3, <2>4, <2>5, <2>7 DEF Worker, Shows
  <2>9. ASSUME astray'[j] = None PROVE Sound(j)'
    <3>1. to \in {"FAILED", "QUEUED"} => Landed(j)' = 0
      BY <2>3, <2>7, <2>9
    <3> QED
      BY <1>1, <2>3, <2>4, <2>5, <3>1 DEF Sound, Unsent
  <2> QED
    BY <2>5, <2>8, <2>9, StepKeeps DEF JobInv
<1> QED
  BY <1>2, <1>3, <1>4

\* The commit makes the row say what its transaction already said.
LEMMA SettleKeeps ==
  ASSUME PipeInv, NEW j \in Jobs, Settle(j)
  PROVE  PipeInv'
<1>1. JobInv(j) /\ run[j].at = "settling" /\ DOMAIN jobs[j] = Fields
  BY DEF PipeInv, PipeShape, Settle, At
<1>2. PICK row : /\ jobs' = [jobs EXCEPT ![j] = row]
                 /\ DOMAIN row = Fields
                 /\ row.status = run[j].to /\ row.byHand = run[j].byHand
  <2> DEFINE row == [n \in DOMAIN jobs[j] |-> IF n = "status" THEN run[j].to ELSE run[j][n]]
  <2>1. jobs' = [jobs EXCEPT ![j] = row]
    BY DEF Settle, PipeInv, PipeShape
  <2>2. DOMAIN row = Fields /\ row.status = run[j].to /\ row.byHand = run[j].byHand
    BY <1>1 DEF Fields
  <2> HIDE DEF row
  <2> QED
    BY <2>1, <2>2
<1>3. run' = [run EXCEPT ![j] = NoRun] /\ UNCHANGED <<posts, astray, clicks>>
  BY DEF Settle
<1>4. \/ message' = [message EXCEPT ![j] = "retained"]
      \/ message[j] # "active" /\ UNCHANGED message
  BY DEF Settle, Retain
<1>5. PipeShape' /\ ClicksSound' /\ About(j)
  BY <1>2, <1>3, <1>4 DEF PipeInv, PipeShape, ClicksSound, About, Marked
<1>6. /\ jobs'[j].status = run[j].to /\ jobs'[j].byHand = run[j].byHand
      /\ run'[j].at = "idle" /\ message'[j] # "active"
  BY <1>2, <1>3, <1>4 DEF PipeInv, PipeShape, NoRun
<1>7. JobInv(j)'
  BY <1>1, <1>3, <1>6 DEF JobInv, Worker, Shows, Sound, Landed
<1> QED
  BY <1>5, <1>7, StepKeeps

-----------------------------------------------------------------------------
(* The publishing history. *)

LEMMA CancelKeeps ==
  ASSUME PipeInv, NEW j \in Jobs, CancelJob(j)
  PROVE  PipeInv'
<1>1. JobInv(j) /\ run[j].at = "idle" /\ jobs[j].status = "QUEUED"
  BY DEF PipeInv, CancelJob, Cancellable, NoRun
<1> DEFINE r == Settling(j, "CANCELLED", jobs[j].attempts, None)
<1>2. run' = [run EXCEPT ![j] = r] /\ r.at = "settling" /\ r.to = "CANCELLED"
  BY SettlingIs DEF CancelJob
<1>3. UNCHANGED <<jobs, message, posts, astray, clicks>> /\ Marked
  BY DEF CancelJob, PipeInv, PipeShape, Marked
<1> HIDE DEF r
<1>4. /\ PipeShape' /\ ClicksSound' /\ About(j)
      /\ run'[j] = r /\ jobs'[j] = jobs[j] /\ message'[j] = message[j]
  BY <1>2, <1>3, RunMoves
<1>5. message[j] # "active"
  BY <1>1 DEF JobInv, Worker
<1>6. JobInv(j)'
  BY <1>1, <1>2, <1>3, <1>4, <1>5 DEF JobInv, Worker, Shows, Sound, Landed, Unsent
<1> QED
  BY <1>4, <1>6, StepKeeps

LEMMA ClickReadsKeeps ==
  ASSUME PipeInv, NEW q \in Clicks, NEW j \in Jobs,
         NEW kind \in {"retry", "published", "not_published"}, ClickReads(q, j, kind)
  PROVE  PipeInv'
<1>1. /\ clicks' = [clicks EXCEPT ![q] = [at |-> kind, job |-> j, saw |-> Landed(j)]]
      /\ UNCHANGED <<jobs, run, message, posts, astray>>
  BY DEF ClickReads, jobVars
<1>2. kind = "retry" => Landed(j) = 0 \/ astray[j] # None
  <2>1. kind = "retry" => jobs[j].status = "FAILED"
    BY DEF ClickReads, MayAsk
  <2>2. JobInv(j)
    BY DEF PipeInv
  <2> QED
    BY <2>1, <2>2 DEF JobInv, Worker, Sound, Unsent
<1>3. PipeShape' /\ ClicksSound'
  BY <1>1, <1>2 DEF PipeInv, PipeShape, ClicksSound
<1>4. ASSUME NEW k \in Jobs PROVE JobInv(k)'
  BY <1>1 DEF PipeInv, JobInv, Worker, Shows, Sound, Landed
<1> QED
  BY <1>3, <1>4 DEF PipeInv

LEMMA ClickAbortsKeeps ==
  ASSUME PipeInv, NEW q \in Clicks, ClickAborts(q)
  PROVE  PipeInv'
<1>0. UNCHANGED <<jobs, run, message, posts, astray>> /\ Marked
  BY DEF ClickAborts, jobVars, PipeInv, PipeShape, Marked
<1>1. DOMAIN clicks' = Clicks /\ ClicksSound'
  BY <1>0, ClicksKeep DEF ClickAborts
<1>2. PipeShape'
  BY <1>0, <1>1 DEF PipeInv, PipeShape
<1>3. ASSUME NEW k \in Jobs PROVE JobInv(k)'
  BY <1>0 DEF PipeInv, JobInv, Worker, Shows, Sound, Landed
<1> QED
  BY <1>1, <1>2, <1>3 DEF PipeInv

\* What is queued again by hand had no post when it was read, or is astray.
LEMMA ClickQueuesKeeps ==
  ASSUME PipeInv, NEW q \in Clicks, ClickQueues(q)
  PROVE  PipeInv'
<1>0. PICK j : j = clicks[q].job
  OBVIOUS
<1>1. /\ j \in Jobs /\ JobInv(j) /\ run[j].at = "idle" /\ Landed(j) \in Nat
      /\ clicks[q].at = "retry" /\ clicks[q].saw > 0 => astray[j] # None
      /\ clicks[q].at \in {"retry", "not_published"}
  BY <1>0, PostsCount DEF PipeInv, ClicksSound, ClickQueues, NoRun
<1>2. PICK row : /\ jobs' = [jobs EXCEPT ![j] = row]
                 /\ row.status = "QUEUED" /\ DOMAIN row = Fields
  <2> DEFINE row == [jobs[j] EXCEPT !.status = "QUEUED", !.attempts = 0, !.manual = FALSE]
  <2>1. jobs' = [jobs EXCEPT ![j] = row]
    BY <1>0, <1>1 DEF ClickQueues, PipeInv, PipeShape
  <2>2. row.status = "QUEUED" /\ DOMAIN row = Fields
    BY <1>1 DEF PipeInv, PipeShape, Fields
  <2> HIDE DEF row
  <2> QED
    BY <2>1, <2>2
<1>3. UNCHANGED <<run, message, posts>> /\ clicks' = [clicks EXCEPT ![q] = NoRun]
  BY DEF ClickQueues
<1>4. Marked /\ (Landed(j) > 0 => astray'[j] # None)
  <2>1. CASE clicks[q].saw > 0
    <3>1. PICK holds \in BOOLEAN : holds <=> clicks[q].at = "not_published"
      OBVIOUS
    <3>2. Blame(j, "denied", holds)
      BY <1>0, <2>1, <3>1 DEF ClickQueues, Blame
    <3>3. Marked /\ (holds => astray'[j] # None)
      BY <1>1, <3>2, BlameMarks DEF Causes
    <3> QED
      BY <1>1, <2>1, <3>1, <3>3 DEF Marked
  <2>2. CASE ~(clicks[q].saw > 0)
    <3>1. PICK holds \in BOOLEAN : holds <=> Landed(j) > 0
      OBVIOUS
    <3>2. Blame(j, "stale", holds)
      BY <1>0, <2>2, <3>1 DEF ClickQueues, Blame
    <3> QED
      BY <1>1, <3>1, <3>2, BlameMarks DEF Causes
  <2> QED
    BY <2>1, <2>2
<1>5. DOMAIN clicks' = Clicks /\ ClicksSound'
  BY <1>3, <1>4, ClicksKeep
<1>7. PipeShape' /\ About(j) /\ jobs'[j].status = "QUEUED"
  BY <1>1, <1>2, <1>3, <1>4, <1>5 DEF PipeInv, PipeShape, About, Marked
<1>8. message[j] # "active"
  BY <1>1 DEF JobInv, Worker
<1>9. ASSUME astray'[j] = None PROVE Sound(j)'
  <2>1. Sound(j) /\ Landed(j) = 0 /\ Landed(j)' = 0
    BY <1>1, <1>3, <1>4, <1>9 DEF JobInv, Marked, Landed
  <2> QED
    BY <1>1, <1>3, <2>1 DEF Sound
<1>10. Worker(j)' /\ Shows(j)'
  BY <1>1, <1>3, <1>7, <1>8 DEF JobInv, Worker, Shows, Landed
<1> QED
  BY <1>1, <1>5, <1>7, <1>9, <1>10, StepKeeps DEF JobInv

LEMMA ClickPublishesKeeps ==
  ASSUME PipeInv, NEW q \in Clicks, ClickPublishes(q)
  PROVE  PipeInv'
<1>0. PICK j : j = clicks[q].job
  OBVIOUS
<1>1. j \in Jobs /\ JobInv(j) /\ run[j] = NoRun /\ run[j].at = "idle"
  BY <1>0 DEF PipeInv, ClicksSound, ClickPublishes, NoRun
<1>2. PICK r : run' = [run EXCEPT ![j] = r] /\ r.at = "settling" /\ r.to = "PUBLISHED" /\ r.byHand
  <2> DEFINE r == Settling(j, "PUBLISHED", jobs[j].attempts + 1, None)
  <2>1. run' = [run EXCEPT ![j] = r]
    BY <1>0 DEF ClickPublishes
  <2>2. r.at = "settling" /\ r.to = "PUBLISHED" /\ r.byHand
    BY <1>1 DEF Settling
  <2> HIDE DEF r
  <2> QED
    BY <2>1, <2>2
<1>3. UNCHANGED <<jobs, message, posts, astray>> /\ clicks' = [clicks EXCEPT ![q] = NoRun] /\ Marked
  BY DEF ClickPublishes, PipeInv, PipeShape, Marked
<1>4. /\ PipeShape' /\ ClicksSound' /\ About(j)
      /\ run'[j] = r /\ jobs'[j] = jobs[j] /\ message'[j] = message[j]
  BY <1>1, <1>2, <1>3, RunMoves
<1>5. message[j] # "active"
  BY <1>1 DEF JobInv, Worker
<1>6. JobInv(j)'
  BY <1>1, <1>2, <1>3, <1>4, <1>5 DEF JobInv, Worker, Shows, Sound, Landed, Unsent
<1> QED
  BY <1>1, <1>4, <1>6, StepKeeps

-----------------------------------------------------------------------------

LEMMA PipeInvStep ==
  ASSUME PipeInv, [PublishNext]_vars
  PROVE  PipeInv'
<1>1. CASE Request \/ Administer \/ UNCHANGED vars
  <2>1. UNCHANGED jobVars /\ UNCHANGED clicks
    BY <1>1, Zenon DEF Request, Administer, Connect, Disconnect, IngestionFails, CheckFindsNone,
       ProbeReads, ProbeWrites, ProbeAborts, vars, pipelineVars
  <2> QED
    BY <2>1, NothingMoves DEF jobVars
<1>2. CASE Sweep
  <2>1. ASSUME NEW w \in Sweepers, MaterialiseAborts(w) \/ \E s \in DOMAIN slots : MaterialiseReads(w, s)
        PROVE  PipeInv'
    BY <2>1, NothingMoves DEF MaterialiseReads, MaterialiseAborts, jobVars
  <2> QED
    BY <1>2, <2>1, MaterialiseKeeps, DispatchKeeps, Zenon DEF Sweep
<1>3. ASSUME NEW j \in Jobs, Execute(j) \/ CancelJob(j) \/ Lose(j) \/ Evict(j)
      PROVE  PipeInv'
  <2>1. CASE Refused(j) \/ Lose(j)
    <3>1. PICK landed \in BOOLEAN : landed <=> Landed(j) > 0
      OBVIOUS
    <3>2. \E cause \in {"lost", "refused"} : RollsBack(j, cause, landed)
      BY <2>1, <3>1 DEF Refused, Lose, RollsBack, Blame
    <3>3. UNCHANGED posts
      BY <2>1 DEF Refused, Lose
    <3> QED
      BY <3>1, <3>2, <3>3, RollsBackKeeps DEF Causes
  <2> QED
    BY <1>3, <2>1, ClaimKeeps, PreflightKeeps, SendKeeps, SettleKeeps, CancelKeeps,
       DispatchKeeps, Zenon DEF Execute
<1>4. ASSUME NEW q \in Clicks, Click(q)
      PROVE  PipeInv'
  BY <1>4, ClickReadsKeeps, ClickQueuesKeeps, ClickPublishesKeeps, ClickAbortsKeeps, Zenon
  DEF Click
<1> QED
  BY <1>1, <1>2, <1>3, <1>4, Zenon DEF PublishNext

LEMMA PipeInvHolds == PublishSpec => []PipeInv
BY PipeInvInit, PipeInvStep, PTL DEF PublishSpec

\* Only a send adds a post.
LEMMA PostsOnlySent ==
  ASSUME [PublishNext]_vars
  PROVE  UNCHANGED posts \/ \E j \in Jobs : Send(j)
<1>1. Request \/ Administer \/ Sweep \/ (UNCHANGED vars) => UNCHANGED posts
  BY Zenon DEF Request, Administer, Connect, Disconnect, IngestionFails, CheckFindsNone,
     ProbeReads, ProbeWrites, ProbeAborts, Sweep, MaterialiseReads, MaterialiseCommits,
     MaterialiseAborts, Dispatch, vars, pipelineVars, jobVars
<1>2. ASSUME NEW j \in Jobs, Execute(j) \/ CancelJob(j) \/ Lose(j) \/ Evict(j)
      PROVE  UNCHANGED posts \/ Send(j)
  BY <1>2, Zenon DEF Execute, Claim, Preflight, Settle, Refused, CancelJob, Lose, Evict
<1>3. ASSUME NEW q \in Clicks, Click(q)
      PROVE  UNCHANGED posts
  BY <1>3, Zenon DEF Click, ClickReads, ClickQueues, ClickPublishes, ClickAborts, jobVars
<1> QED
  BY <1>1, <1>2, <1>3, Zenon DEF PublishNext

\* Another post of a job is never the doing of the queue, of the schedulers, of
\* a cancellation or of a retry that read what stands: the job went astray
\* before, by a transaction lost or refused behind its post, an answer misread,
\* a lookup that missed the post, a person who denied it or a stale request.
THEOREM NothingIsResentBlindly == PublishSpec => NoBlindResend
<1> DEFINE Resent == \A j \in Jobs : Landed(j) > 0 /\ Landed(j)' > Landed(j) => astray[j] # None
<1>1. PipeInv /\ [PublishNext]_vars => [Resent]_vars
  <2> SUFFICES ASSUME PipeInv, [PublishNext]_vars, NEW j \in Jobs,
                      Landed(j) > 0, Landed(j)' > Landed(j)
               PROVE  astray[j] # None
    OBVIOUS
  <2>1. Landed(j) \in Nat /\ IsSeq(posts[j]) /\ JobInv(j)
    BY PostsCount DEF PipeInv, PipeShape
  <2>2. posts'[j] # posts[j]
    BY <2>1 DEF Landed
  <2>3. PICK k \in Jobs : Send(k)
    BY <2>2, PostsOnlySent
  <2>4. \A i \in Jobs \ {k} : posts'[i] = posts[i]
    <3>1. PICK w : posts' = [posts EXCEPT ![k] = Append(@, w)] \/ UNCHANGED posts
      BY <2>3, SendIs, Zenon
    <3> QED
      BY <3>1 DEF PipeInv, PipeShape
  <2>5. run[j].at = "checked"
    BY <2>2, <2>3, <2>4 DEF Send, At
  <2> QED
    BY <2>1, <2>5 DEF JobInv, Sound
<1> QED
  BY <1>1, PipeInvHolds, PTL DEF PublishSpec, NoBlindResend

\* Outside those causes the row and the platform agree, for good: a failed,
\* cancelled or untouched job has no post; and a published one has, always,
\* unless a person named the post.
THEOREM StatusesAreHonest == PublishSpec => []StatusIsHonest
<1>1. PipeInv => StatusIsHonest
  BY DEF PipeInv, JobInv, Worker, Shows, Sound, StatusIsHonest, Unsent
<1> QED
  BY <1>1, PipeInvHolds, PTL

-----------------------------------------------------------------------------
(***************************************************************************)
(* What publishing guarantees of the content, for any number of slots,     *)
(* connections and requests: the words a preflight let through are words a *)
(* reviewer approved, and a slot shows what became of its jobs.            *)
(*                                                                         *)
(* The requests of ContentPlanning go on beside the pipeline.  Their first *)
(* layer (Base) survives it: the pipeline writes only the status of a slot *)
(* and of its item, and never puts an item in review.  A verdict stays     *)
(* what it was, so the approval the preflight found still covers the words *)
(* it read when they are sent, whatever the item says by then.             *)
(*                                                                         *)
(* syncLifecycle decides on its siblings as committed and writes the slot  *)
(* later.  What it decided still stands at its commit (Decided) unless a   *)
(* sibling was settling at the same time, which is the exception of the    *)
(* property: a sibling that was queued anew leaves nothing to decide.      *)
(*                                                                         *)
(* Last come the types of the pipeline, which need the rest: the words a   *)
(* transaction sends are an item's, its target a status of RunIs.          *)
(***************************************************************************)

\* Words an approval of the item covers, or words nobody had to approve.
Reviewed(i, w) ==
  w # None => \E a \in DOMAIN approvals[i] : /\ approvals[i][a].status = "APPROVED"
                                             /\ approvals[i][a].covers = w

Moves == {"QUEUED", "VERIFICATION_PENDING", "PUBLISHED", "FAILED", "CANCELLED"}

Shown == {None, "PUBLISHED", "PARTIALLY_PUBLISHED", "CANCELLED", "FAILED"}

\* What a transaction on the row of j may hold.
RunIs(j, r) ==
  /\ r.at # "idle" => jobs[j].status # "NONE"
  /\ r.at = "checked" => Reviewed(ItemOf(j), r.words)
  /\ r.at = "settling" => r.to \in Moves /\ r.slot \in Shown

RunsSound == \A j \in Jobs : RunIs(j, run[j])

Fit == \A s \in DOMAIN slots : s \in 1..MaxSlots

\* What a scheduler has in hand.
Sweeps(r) == r.slot \in DOMAIN slots /\ r.conns \subseteq Conns

\* Only a slot has jobs and sweeps, and only a job has requests and posts.
Backed ==
  /\ \A j \in Jobs : jobs[j].status # "NONE" => j[1] \in DOMAIN slots
  /\ \A q \in Clicks : clicks[q].at # "idle" => jobs[clicks[q].job].status # "NONE"
  /\ DOMAIN sweep = Sweepers
  /\ \A w \in Sweepers : sweep[w] # NoRun => Sweeps(sweep[w])

PostsReviewed ==
  \A j \in Jobs : \A n \in DOMAIN posts[j] :
    /\ jobs[j].status # "NONE"
    /\ Reviewed(ItemOf(j), posts[j][n].checked)
    /\ posts[j][n].sent # None

PostInv == Base /\ PipeInv /\ Fit /\ Backed /\ RunsSound /\ PostsReviewed

\* What every step leaves of the slots and of the reviews.
Follows ==
  /\ \A s \in DOMAIN slots : s \in DOMAIN slots' /\ slots'[s].item = slots[s].item
  /\ \A i \in Items : \A a \in DOMAIN approvals[i] :
       /\ a \in DOMAIN approvals'[i]
       /\ approvals[i][a].status # "PENDING" => approvals'[i][a] = approvals[i][a]

\* The planning leaves a slot its status, or takes it off the calendar.
Planned ==
  \A s \in DOMAIN slots : slots'[s].status \in {slots[s].status, "CANCELLED"}

-----------------------------------------------------------------------------
(* The content under the pipeline *)

LEMMA ReviewedStays ==
  ASSUME Base, Follows, NEW j \in Jobs, j[1] \in DOMAIN slots
  PROVE  \A w : Reviewed(ItemOf(j), w) => Reviewed(ItemOf(j), w)'
<1>1. PICK i \in Items : i = ItemOf(j) /\ ItemOf(j)' = i
  BY SlotRows DEF Slot, ItemOf, Follows
<1> SUFFICES ASSUME NEW w, Reviewed(i, w), w # None
             PROVE  \E a \in DOMAIN approvals'[i] : /\ approvals'[i][a].status = "APPROVED"
                                                    /\ approvals'[i][a].covers = w
  BY <1>1 DEF Reviewed
<1>2. PICK a \in DOMAIN approvals[i] : approvals[i][a].status = "APPROVED" /\ approvals[i][a].covers = w
  BY DEF Reviewed
<1> QED
  BY <1>2 DEF Follows

\* The requests of the content leave the slots as they should.
LEMMA PlanFollows ==
  ASSUME Base, Fit, [PlanningNext]_planningVars
  PROVE  Base' /\ Follows /\ Fit' /\ Planned
<1>1. Base'
  BY BaseStep
<1>2. ASSUME UNCHANGED slots
      PROVE  Follows /\ Fit' /\ Planned
  <2>1. \A s \in DOMAIN slots : s \in DOMAIN slots' /\ slots'[s].item = slots[s].item
    BY <1>2
  <2>2. Follows
    BY <2>1, VerdictsStay DEF Follows
  <2> QED
    BY <1>2, <2>2 DEF Fit, Planned
<1>3. ASSUME NEW u \in Users, RescheduleCommits(u)
      PROVE  Follows /\ Fit' /\ Planned
  <2>1. /\ DOMAIN slots' = DOMAIN slots
        /\ \A s \in DOMAIN slots : slots'[s].item = slots[s].item /\ slots'[s].status = slots[s].status
    BY <1>3, RescheduleIs
  <2> QED
    BY <2>1, VerdictsStay DEF Follows, Fit, Planned
<1>4. ASSUME NEW u \in Users, UnscheduleCommits(u)
      PROVE  Follows /\ Fit' /\ Planned
  <2>1. PICK i, t : Removed(u, i, t)
    BY <1>4, UnscheduleIs
  <2>2. /\ DOMAIN slots' = DOMAIN slots
        /\ \A s \in DOMAIN slots : /\ slots'[s].item = slots[s].item
                                   /\ slots'[s].status \in {slots[s].status, "CANCELLED"}
    BY <2>1 DEF Removed
  <2> QED
    BY <2>2, VerdictsStay DEF Follows, Fit, Planned
<1>5. ASSUME NEW u \in Users, ScheduleCommits(u)
      PROVE  Follows /\ Fit' /\ Planned
  <2>1. PICK i, n : Placed(u, i, n)
    BY <1>5, ScheduleIs
  <2>2. /\ DOMAIN slots' = DOMAIN slots \cup {n} /\ n \notin DOMAIN slots
        /\ \A s \in DOMAIN slots : slots'[s] = slots[s]
        /\ slots'[n].status = "SCHEDULED"
    BY <2>1 DEF Placed
  <2>3. n \in 1..MaxSlots
    <3>1. Len(slots) \in Nat /\ Len(slots) < MaxSlots /\ DOMAIN slots = 1..Len(slots)
      BY <1>5, SlotRows DEF ScheduleCommits
    <3>2. SlotsTyped'
      BY <2>1 DEF Placed
    <3>3. Len(slots') \in Nat /\ DOMAIN slots' = 1..Len(slots')
      BY <3>2, LenProperties DEF SlotsTyped
    <3>4. \A k \in 1..n : k \in DOMAIN slots'
      BY <2>2, <3>3
    <3>5. n <= Len(slots) + 1
      <4> SUFFICES ASSUME n > Len(slots) + 1 PROVE FALSE
        BY <2>1, <3>1 DEF Placed
      <4>1. Len(slots) + 1 \in 1..n
        BY <2>1, <3>1 DEF Placed
      <4> QED
        BY <2>2, <3>1, <3>4, <4>1
    <3> QED
      BY <2>2, <3>1, <3>3, <3>5, PlanningAssumption
  <2> QED
    BY <2>2, <2>3, VerdictsStay DEF Follows, Fit, Planned
<1>6. UNCHANGED slots \/ \E u \in Users :
        RescheduleCommits(u) \/ ScheduleCommits(u) \/ UnscheduleCommits(u)
  <2>1. ASSUME NEW u \in Users, Review(u) \/ EditContent(u) \/ Plan(u) \/ Abort(u)
        PROVE  UNCHANGED calendarVars \/ RescheduleCommits(u) \/ ScheduleCommits(u) \/ UnscheduleCommits(u)
    <3>1. Review(u) => UNCHANGED calendarVars
      BY Zenon DEF Review, SubmitReads, SubmitCommits, CancelReads, CancelCommits, DecideReads,
         DecideCommits, Opens
    <3>2. EditContent(u) => UNCHANGED calendarVars
      BY Zenon DEF EditContent, EditReads, EditCommits, TransitionReads, TransitionCommits, Opens
    <3>3. Abort(u) => UNCHANGED calendarVars
      BY DEF Abort
    <3> QED
      BY <2>1, <3>1, <3>2, <3>3, Zenon DEF Plan, ScheduleReads, RescheduleReads, UnscheduleReads,
         UnscheduleLocks, Opens
  <2>2. ASSUME \/ \E i \in Edited : ApplyTool(i) \/ ArchiveItem(i) \/ PurgeExpired(i)
               \/ SetPolicy \/ NextMonth
        PROVE  UNCHANGED calendarVars
    BY <2>2 DEF ApplyTool, ArchiveItem, PurgeExpired, SetPolicy, NextMonth
  <2>3. UNCHANGED calendarVars => UNCHANGED slots
    BY DEF calendarVars
  <2>4. UNCHANGED planningVars => UNCHANGED slots
    BY DEF planningVars
  <2> QED
    BY <2>1, <2>2, <2>3, <2>4, Zenon DEF PlanningNext
<1> QED
  BY <1>1, <1>2, <1>3, <1>4, <1>5, <1>6

LEMMA ContentStays ==
  ASSUME Base, Fit, UNCHANGED planningVars
  PROVE  /\ Base' /\ Follows /\ Fit' /\ Planned
         /\ UNCHANGED <<slots, status, words, approvals, gate>>
<1>1. UNCHANGED <<slots, status, words, approvals, gate>>
  BY DEF planningVars
<1> QED
  BY <1>1, PlanFollows

\* The pipeline writes one slot and its item.
LEMMA SlotIsWritten ==
  ASSUME Base, Fit, NEW s \in DOMAIN slots, NEW st \in SlotStatus,
         NEW is \in ItemStatus \ {"IN_REVIEW"},
         slots' = [slots EXCEPT ![s].status = st], SetStatus(slots[s].item, is),
         UNCHANGED <<deleted, words, approvals, used, events, gate, month, tx>>
  PROVE  /\ Base' /\ Follows /\ Fit' /\ DOMAIN slots' = DOMAIN slots
         /\ \A t \in DOMAIN slots : slots'[t].status = IF t = s THEN st ELSE slots[t].status
<1> DEFINE row == [slots[s] EXCEPT !.status = st]
<1>1. slots \in Seq(Slot) /\ s \in 1..Len(slots) /\ slots[s] \in Slot
  BY SlotRows
<1>2. row \in Slot /\ row.item = slots[s].item /\ row.status = st
  BY <1>1 DEF Slot
<1>3. slots' = [slots EXCEPT ![s] = row]
  OBVIOUS
<1>4. /\ slots' \in Seq(Slot) /\ DOMAIN slots' = DOMAIN slots
      /\ \A t \in DOMAIN slots : slots'[t] = IF t = s THEN row ELSE slots[t]
  BY <1>1, <1>2, <1>3, ExceptSeq
<1> HIDE DEF row
<1>5. Follows /\ Fit' /\ \A t \in DOMAIN slots : slots'[t].status = IF t = s THEN st ELSE slots[t].status
  BY <1>2, <1>4 DEF Follows, Fit
<1>6. slots[s].item \in Items
  BY <1>1 DEF Slot
<1>7. /\ ItemsTyped'
      /\ \A i \in Items : status'[i] = "IN_REVIEW" => status[i] = "IN_REVIEW"
  BY <1>6 DEF SetStatus, Base, Typed, ItemsTyped
<1>8. SlotsTyped' /\ ApprovalsTyped' /\ MeterTyped' /\ RequestsTyped' /\ GoOn
  BY <1>4, Untouched DEF SlotsTyped, GoOn
<1>9. Holding' /\ ReviewIsOpen'
  BY <1>7, HoldingKept
<1>10. Requested'
  BY <1>5, <1>8, RequestedKept DEF Follows
<1> QED
  BY <1>4, <1>5, <1>7, <1>8, <1>9, <1>10 DEF Base, Typed

-----------------------------------------------------------------------------
(* Steps of the pipeline *)

\* A step that starts no transaction and sends nothing: rows may be made or
\* written, requests and sweeps end.
LEMMA RowsKeep ==
  ASSUME PostInv, Base', PipeInv', Fit', Follows, UNCHANGED posts,
         \A j \in Jobs : jobs[j].status # "NONE" => jobs'[j].status # "NONE",
         \A j \in Jobs : jobs'[j].status # "NONE" => j[1] \in DOMAIN slots,
         \A j \in Jobs : run'[j] = run[j] \/ run'[j].at = "idle",
         \A q \in Clicks : clicks'[q].at # "idle" => jobs'[clicks'[q].job].status # "NONE",
         DOMAIN sweep' = Sweepers,
         \A w \in Sweepers : sweep'[w] # NoRun => Sweeps(sweep'[w])
  PROVE  PostInv'
<1>1. Backed'
  BY DEF Backed, Follows, Sweeps
<1>2. RunsSound'
  <2> SUFFICES ASSUME NEW j \in Jobs, run'[j].at # "idle" PROVE RunIs(j, run[j])'
    BY DEF RunsSound, RunIs
  <2>1. PICK r : r = run[j] /\ r = run'[j] /\ RunIs(j, r)
    BY DEF PostInv, RunsSound
  <2>2. r.at = "checked" => Reviewed(ItemOf(j), r.words)'
    <3>1. r.at = "checked" => j[1] \in DOMAIN slots /\ Reviewed(ItemOf(j), r.words)
      BY <2>1 DEF RunIs, PostInv, Backed
    <3> QED
      BY <3>1, ReviewedStays DEF PostInv
  <2> QED
    BY <2>1, <2>2 DEF RunIs, Reviewed
<1>3. PostsReviewed'
  <2> SUFFICES ASSUME NEW j \in Jobs, NEW n \in DOMAIN posts'[j]
               PROVE  /\ jobs'[j].status # "NONE"
                      /\ Reviewed(ItemOf(j), posts[j][n].checked)'
                      /\ posts'[j][n].sent # None
    BY DEF PostsReviewed
  <2>1. PICK w : w = posts[j][n].checked /\ w = posts'[j][n].checked
    OBVIOUS
  <2>2. jobs[j].status # "NONE" /\ Reviewed(ItemOf(j), w) /\ posts'[j][n].sent # None
    BY <2>1 DEF PostInv, PostsReviewed
  <2>3. Reviewed(ItemOf(j), w)'
    BY <2>2, ReviewedStays DEF PostInv, Backed
  <2> QED
    BY <2>1, <2>2, <2>3 DEF Reviewed
<1> QED
  BY <1>1, <1>2, <1>3 DEF PostInv

\* Requests and sweeps that end stay backed.
LEMMA EndsKeep ==
  ASSUME PostInv, \A j \in Jobs : jobs[j].status # "NONE" => jobs'[j].status # "NONE"
  PROVE  /\ \/ UNCHANGED clicks
            \/ \E q \in Clicks : clicks' = [clicks EXCEPT ![q] = NoRun]
            => \A q \in Clicks : clicks'[q].at # "idle" => jobs'[clicks'[q].job].status # "NONE"
         /\ \/ UNCHANGED sweep
            \/ \E w \in Sweepers : sweep' = [sweep EXCEPT ![w] = NoRun]
            => /\ DOMAIN sweep' = Sweepers
               /\ \A w \in Sweepers : sweep'[w] # NoRun => Sweeps(sweep'[w])
<1>1. ASSUME \/ UNCHANGED clicks
             \/ \E q \in Clicks : clicks' = [clicks EXCEPT ![q] = NoRun]
      PROVE  \A q \in Clicks : clicks'[q].at # "idle" => jobs'[clicks'[q].job].status # "NONE"
  <2>1. \A q \in Clicks : clicks'[q].at # "idle" => clicks'[q] = clicks[q] /\ clicks[q].at # "idle"
    BY <1>1 DEF PostInv, PipeInv, PipeShape, NoRun
  <2>2. \A q \in Clicks : clicks[q].at # "idle" => /\ clicks[q].job \in Jobs
                                                   /\ jobs[clicks[q].job].status # "NONE"
    BY DEF PostInv, PipeInv, ClicksSound, Backed
  <2> QED
    BY <2>1, <2>2
<1>2. ASSUME \/ UNCHANGED sweep
             \/ \E w \in Sweepers : sweep' = [sweep EXCEPT ![w] = NoRun]
      PROVE  /\ DOMAIN sweep' = Sweepers
             /\ \A w \in Sweepers : sweep'[w] # NoRun => Sweeps(sweep'[w])
  <2>1. DOMAIN sweep' = Sweepers /\ \A w \in Sweepers : sweep'[w] = NoRun \/ sweep'[w] = sweep[w]
    BY <1>2 DEF PostInv, Backed
  <2> QED
    BY <2>1 DEF PostInv, Backed
<1> QED
  BY <1>1, <1>2

\* A step that leaves all transactions, rows and posts.
LEMMA QuietKeeps ==
  ASSUME PostInv, PipeInv', Base', Fit', Follows, UNCHANGED <<jobs, run, posts>>,
         \/ UNCHANGED clicks
         \/ \E q \in Clicks : clicks' = [clicks EXCEPT ![q] = NoRun],
         \/ UNCHANGED sweep
         \/ \E w \in Sweepers : sweep' = [sweep EXCEPT ![w] = NoRun]
  PROVE  PostInv'
<1>1. \A j \in Jobs : /\ jobs[j].status # "NONE" => jobs'[j].status # "NONE"
                      /\ jobs'[j].status # "NONE" => j[1] \in DOMAIN slots
  BY DEF PostInv, Backed
<1>2. /\ \A q \in Clicks : clicks'[q].at # "idle" => jobs'[clicks'[q].job].status # "NONE"
      /\ DOMAIN sweep' = Sweepers
      /\ \A w \in Sweepers : sweep'[w] # NoRun => Sweeps(sweep'[w])
  BY <1>1, EndsKeep
<1> QED
  BY <1>1, <1>2, RowsKeep

\* The transaction on the row of j moves to r, and may send a post.
LEMMA RunKeeps ==
  ASSUME PostInv, PipeInv', NEW j \in Jobs, NEW r, RunIs(j, r),
         run' = [run EXCEPT ![j] = r], UNCHANGED <<planningVars, jobs, sweep>>,
         \/ UNCHANGED posts
         \/ /\ run[j].at = "checked"
            /\ posts' = [posts EXCEPT ![j] = Append(@,
                 [checked |-> run[j].words, sent |-> words[ItemOf(j)]])],
         \/ UNCHANGED clicks
         \/ \E q \in Clicks : clicks' = [clicks EXCEPT ![q] = NoRun]
  PROVE  PostInv'
<1>1. /\ Base' /\ Follows /\ Fit' /\ UNCHANGED <<slots, approvals, jobs, sweep>>
  BY ContentStays DEF PostInv
<1>2. Backed'
  <2>1. \A q \in Clicks : clicks'[q].at # "idle" => jobs'[clicks'[q].job].status # "NONE"
    BY <1>1, EndsKeep
  <2> QED
    BY <1>1, <2>1 DEF PostInv, Backed, Sweeps
<1>3. run'[j] = r /\ \A k \in Jobs \ {j} : run'[k] = run[k]
  BY DEF PostInv, PipeInv, PipeShape
<1>4. RunsSound'
  <2>1. \A k \in Jobs : RunIs(k, run'[k])
    BY <1>3 DEF PostInv, RunsSound
  <2> QED
    BY <1>1, <2>1 DEF RunsSound, RunIs, Reviewed, ItemOf
<1>5. PostsReviewed'
  <2>1. ASSUME NEW k \in Jobs, NEW n \in DOMAIN posts'[k]
        PROVE  /\ jobs[k].status # "NONE" /\ Reviewed(ItemOf(k), posts'[k][n].checked)
               /\ posts'[k][n].sent # None
    <3>1. CASE posts'[k] = posts[k]
      BY <2>1, <3>1 DEF PostInv, PostsReviewed
    <3>2. CASE posts'[k] # posts[k]
      <4> DEFINE p == [checked |-> run[j].words, sent |-> words[ItemOf(j)]]
      <4>1. k = j /\ run[j].at = "checked" /\ posts'[j] = Append(posts[j], p)
        BY <3>2 DEF PostInv, PipeInv, PipeShape
      <4>2. jobs[j].status # "NONE" /\ Reviewed(ItemOf(j), p.checked) /\ p.sent # None
        <5>1. jobs[j].status # "NONE" /\ Reviewed(ItemOf(j), run[j].words)
          BY <4>1 DEF PostInv, RunsSound, RunIs
        <5>2. words[ItemOf(j)] \in Words
          <6>1. j[1] \in DOMAIN slots
            BY <5>1 DEF PostInv, Backed
          <6> QED
            BY <6>1, SlotRows DEF PostInv, Base, Typed, ItemsTyped, ItemOf, Slot
        <5>3. words[ItemOf(j)] # None
          BY <5>2, PublishAssumption
        <5> QED
          BY <5>1, <5>3
      <4> HIDE DEF p
      <4>3. posts'[j][n] = p \/ (n \in DOMAIN posts[j] /\ posts'[j][n] = posts[j][n])
        <5>1. IsSeq(posts[j])
          BY DEF PostInv, PipeInv, PipeShape
        <5>2. PICK S : posts[j] \in Seq(S)
          BY <5>1 DEF IsSeq
        <5>3. posts[j] \in Seq(S \cup {p}) /\ p \in S \cup {p}
          BY <5>2
        <5>4. DOMAIN posts[j] = 1..Len(posts[j]) /\ Len(posts[j]) \in Nat
          BY <5>3, LenProperties
        <5>5. /\ Append(posts[j], p) \in Seq(S \cup {p})
              /\ Len(Append(posts[j], p)) = Len(posts[j]) + 1
              /\ \A m \in 1..Len(posts[j]) : Append(posts[j], p)[m] = posts[j][m]
              /\ Append(posts[j], p)[Len(posts[j]) + 1] = p
          BY <5>3, AppendProperties
        <5>6. n \in 1..(Len(posts[j]) + 1)
          BY <2>1, <4>1, <5>5, LenProperties
        <5> QED
          BY <4>1, <5>4, <5>5, <5>6
      <4>4. CASE posts'[j][n] = p
        BY <4>1, <4>2, <4>4, Zenon
      <4>5. CASE n \in DOMAIN posts[j] /\ posts'[j][n] = posts[j][n]
        BY <4>1, <4>2, <4>5 DEF PostInv, PostsReviewed
      <4> QED
        BY <4>3, <4>4, <4>5
    <3> QED
      BY <3>1, <3>2
  <2> QED
    BY <1>1, <2>1 DEF PostsReviewed, Reviewed, ItemOf
<1> QED
  BY <1>1, <1>2, <1>4, <1>5 DEF PostInv

\* The transaction of j moves to settling, whatever it decided.
LEMMA SettlesSoundly ==
  ASSUME NEW j \in Jobs, NEW to \in Moves, NEW n, NEW class, jobs[j].status # "NONE"
  PROVE  RunIs(j, Settling(j, to, n, class))
<1> DEFINE r == Settling(j, to, n, class)
<1>1. r.at = "settling" /\ r.to = to /\ r.slot = Lifecycle(j, to)
  BY SettlingIs
<1>2. Lifecycle(j, to) \in Shown
  BY DEF Lifecycle, Outcome, Shown
<1> HIDE DEF r
<1> QED
  BY <1>1, <1>2 DEF RunIs, r

LEMMA NobodysRun == NoRun.at = "idle"
BY DEF NoRun

\* The worker is on a queued job.
LEMMA WorkerIsOn ==
  ASSUME PostInv, NEW j \in Jobs, run[j].at \in {"claimed", "checked"}
  PROVE  jobs[j].status = "QUEUED" /\ j[1] \in DOMAIN slots
BY DEF PostInv, PipeInv, JobInv, Worker, Backed

LEMMA ClaimKept ==
  ASSUME PostInv, PipeInv', NEW j \in Jobs, Claim(j)
  PROVE  PostInv'
<1>1. UNCHANGED <<planningVars, jobs, sweep, clicks, posts>>
  BY DEF Claim
<1>2. CASE jobs[j].status = "QUEUED"
  <2>1. PICK r : r.at = "claimed" /\ run' = [run EXCEPT ![j] = r]
    BY <1>2, Claimed DEF Claim
  <2>2. RunIs(j, r)
    BY <1>2, <2>1 DEF RunIs
  <2> QED
    BY <1>1, <2>1, <2>2, RunKeeps
<1>3. CASE jobs[j].status # "QUEUED"
  <2>1. UNCHANGED run
    BY <1>3 DEF Claim
  <2>2. Base' /\ Follows /\ Fit'
    BY <1>1, ContentStays DEF PostInv
  <2> QED
    BY <1>1, <2>1, <2>2, QuietKeeps
<1> QED
  BY <1>2, <1>3

\* Under the gate the preflight lets through what the latest approval covers.
LEMMA PreflightKept ==
  ASSUME PostInv, PipeInv', NEW j \in Jobs, Preflight(j)
  PROVE  PostInv'
<1>1. UNCHANGED <<planningVars, jobs, sweep, clicks, posts>> /\ run[j].at = "claimed"
  BY DEF Preflight, At
<1>2. jobs[j].status = "QUEUED" /\ j[1] \in DOMAIN slots
  BY <1>1, WorkerIsOn
<1>3. ASSUME NEW class \in Classes,
             run' = [run EXCEPT ![j] = Settling(j, "FAILED", jobs[j].attempts, class)]
      PROVE  PostInv'
  <2>1. PICK n : n = jobs[j].attempts
    OBVIOUS
  <2>2. RunIs(j, Settling(j, "FAILED", n, class))
    BY <1>2, SettlesSoundly DEF Moves
  <2>3. PICK r : r = Settling(j, "FAILED", n, class)
    OBVIOUS
  <2> QED
    BY <1>1, <1>3, <2>1, <2>2, <2>3, RunKeeps
<1>4. ASSUME ~Refuses(j, "APPROVAL_REVOKED"),
             NEW w, w = IF gate THEN words[ItemOf(j)] ELSE None,
             run' = [run EXCEPT ![j] = [at |-> "checked", words |-> w]]
      PROVE  PostInv'
  <2>2. Reviewed(ItemOf(j), w)
    <3> SUFFICES ASSUME gate PROVE Reviewed(ItemOf(j), words[ItemOf(j)])
      BY <1>4 DEF Reviewed
    <3>2. \E a \in Latest(ItemOf(j)) : Covers(a, ItemOf(j))
      BY <1>4 DEF Refuses
    <3> QED
      BY <3>2 DEF Latest, Covers, Reviewed
  <2>3. PICK r : r = [at |-> "checked", words |-> w]
    OBVIOUS
  <2>4. RunIs(j, r)
    BY <1>2, <2>2, <2>3 DEF RunIs
  <2>5. run' = [run EXCEPT ![j] = r]
    BY <1>4, <2>3
  <2> QED
    BY <1>1, <2>4, <2>5, RunKeeps
<1> QED
  BY <1>3, <1>4, PreflightIs, Zenon

\* A transaction that rolls back is nobody's; its posts stay.
LEMMA RollsBackKept ==
  ASSUME PostInv, PipeInv', NEW j \in Jobs, run' = [run EXCEPT ![j] = NoRun],
         UNCHANGED <<planningVars, jobs, sweep, clicks>>,
         \/ UNCHANGED posts
         \/ /\ run[j].at = "checked"
            /\ posts' = [posts EXCEPT ![j] = Append(@,
                 [checked |-> run[j].words, sent |-> words[ItemOf(j)]])]
  PROVE  PostInv'
<1>2. PICK r : r = NoRun /\ r.at = "idle"
  BY NobodysRun
<1>3. RunIs(j, r)
  BY <1>2 DEF RunIs
<1>4. run' = [run EXCEPT ![j] = r]
  BY <1>2
<1> QED
  BY <1>3, <1>4, RunKeeps

LEMMA SendKept ==
  ASSUME PostInv, PipeInv', NEW j \in Jobs, Send(j)
  PROVE  PostInv'
<1>1. run[j].at = "checked" /\ PipeInv
  BY DEF Send, At, PostInv
<1>2. jobs[j].status # "NONE"
  BY <1>1, WorkerIsOn
<1>3. PICK received \in BOOLEAN, class \in Classes \cup {None}, landed \in BOOLEAN :
        /\ landed = (received \/ Landed(j) > 0)
        /\ class = None => received
        /\ IF received
           THEN posts' = [posts EXCEPT ![j] = Append(@,
                  [checked |-> run[j].words, sent |-> words[ItemOf(j)]])]
           ELSE UNCHANGED posts
        /\ RollsBack(j, "refused", landed) \/ AfterAnswer(j, class, landed)
  BY <1>1, SendIs, Zenon
<1>4. \/ UNCHANGED posts
      \/ posts' = [posts EXCEPT ![j] = Append(@,
           [checked |-> run[j].words, sent |-> words[ItemOf(j)]])]
  BY <1>3
<1>5. CASE RollsBack(j, "refused", landed)
  <2>1. run' = [run EXCEPT ![j] = NoRun] /\ UNCHANGED <<planningVars, jobs, sweep, clicks>>
    BY <1>5 DEF RollsBack
  <2> QED
    BY <1>1, <1>4, <2>1, RollsBackKept
<1>6. CASE AfterAnswer(j, class, landed)
  <2>1. UNCHANGED <<planningVars, jobs, sweep, clicks>>
    BY <1>6 DEF AfterAnswer
  <2>2. class = None => landed
    BY <1>3
  <2>3. PICK to \in {"PUBLISHED", "FAILED", "QUEUED", "VERIFICATION_PENDING"} : \E cl :
          run' = [run EXCEPT ![j] = Settling(j, to, jobs[j].attempts + 1, cl)]
    BY <1>1, <1>6, <2>2, AnswerIs
  <2>4. PICK n, cl : run' = [run EXCEPT ![j] = Settling(j, to, n, cl)]
    BY <2>3
  <2>5. RunIs(j, Settling(j, to, n, cl))
    BY <1>2, SettlesSoundly DEF Moves
  <2>6. PICK r : r = Settling(j, to, n, cl)
    OBVIOUS
  <2> QED
    BY <1>1, <1>4, <2>1, <2>4, <2>5, <2>6, RunKeeps
<1> QED
  BY <1>3, <1>5, <1>6

-----------------------------------------------------------------------------
(* The commits *)

\* What a sweep makes, of what it finds not made.
LEMMA MaterialiseIs ==
  ASSUME PostInv, NEW w \in Sweepers, MaterialiseCommits(w)
  PROVE  \E s \in DOMAIN slots : \E made :
           /\ \A j \in made : j \in Jobs /\ j[1] = s /\ jobs[j].status = "NONE"
           /\ jobs' = [j \in Jobs |-> IF j \in made
                         THEN [jobs[j] EXCEPT !.status = "QUEUED"] ELSE jobs[j]]
           /\ IF made = {} THEN UNCHANGED <<slots, status>>
              ELSE /\ slots' = [slots EXCEPT ![s].status = "PUBLISHING"]
                   /\ SetStatus(slots[s].item, "PUBLISHING")
<1> DEFINE s == sweep[w].slot
           made == {j \in {s} \X sweep[w].conns : jobs[j].status = "NONE"}
<1>1. s \in DOMAIN slots /\ sweep[w].conns \subseteq Conns
  BY DEF PostInv, Backed, Sweeps, MaterialiseCommits
<1>2. \A j \in made : j \in Jobs /\ j[1] = s /\ jobs[j].status = "NONE"
  BY <1>1 DEF Jobs, PostInv, Fit
<1>3. /\ jobs' = [j \in Jobs |-> IF j \in made
                    THEN [jobs[j] EXCEPT !.status = "QUEUED"] ELSE jobs[j]]
      /\ IF made = {} THEN UNCHANGED <<slots, status>>
         ELSE /\ slots' = [slots EXCEPT ![s].status = "PUBLISHING"]
              /\ SetStatus(slots[s].item, "PUBLISHING")
  BY Zenon DEF MaterialiseCommits
<1> HIDE DEF made, s
<1> QED
  BY <1>1, <1>2, <1>3

LEMMA MaterialiseKept ==
  ASSUME PostInv, PipeInv', NEW w \in Sweepers, MaterialiseCommits(w)
  PROVE  PostInv'
<1>1. PICK s \in DOMAIN slots : \E made :
        /\ \A j \in made : j \in Jobs /\ j[1] = s /\ jobs[j].status = "NONE"
        /\ jobs' = [j \in Jobs |-> IF j \in made
                      THEN [jobs[j] EXCEPT !.status = "QUEUED"] ELSE jobs[j]]
        /\ IF made = {} THEN UNCHANGED <<slots, status>>
           ELSE /\ slots' = [slots EXCEPT ![s].status = "PUBLISHING"]
                /\ SetStatus(slots[s].item, "PUBLISHING")
  BY MaterialiseIs
<1>2. PICK made : /\ \A j \in made : j \in Jobs /\ j[1] = s /\ jobs[j].status = "NONE"
                  /\ jobs' = [j \in Jobs |-> IF j \in made
                                THEN [jobs[j] EXCEPT !.status = "QUEUED"] ELSE jobs[j]]
                  /\ IF made = {} THEN UNCHANGED <<slots, status>>
                     ELSE /\ slots' = [slots EXCEPT ![s].status = "PUBLISHING"]
                          /\ SetStatus(slots[s].item, "PUBLISHING")
  BY <1>1
<1>3. /\ sweep' = [sweep EXCEPT ![w] = NoRun]
      /\ UNCHANGED <<deleted, words, approvals, used, events, gate, month, tx, run, clicks, posts>>
  BY DEF MaterialiseCommits
<1>4. Base' /\ Follows /\ Fit'
  <2>1. CASE made = {}
    <3>1. UNCHANGED planningVars
      BY <1>2, <1>3, <2>1 DEF planningVars
    <3> QED
      BY <3>1, ContentStays DEF PostInv
  <2>2. CASE made # {}
    <3>1. /\ slots' = [slots EXCEPT ![s].status = "PUBLISHING"]
          /\ SetStatus(slots[s].item, "PUBLISHING")
      BY <1>2, <2>2
    <3>2. "PUBLISHING" \in SlotStatus /\ "PUBLISHING" \in ItemStatus \ {"IN_REVIEW"}
      BY DEF SlotStatus, ItemStatus
    <3> QED
      BY <1>3, <3>1, <3>2, SlotIsWritten DEF PostInv
  <2> QED
    BY <2>1, <2>2
<1>5. \A j \in Jobs : \/ jobs'[j] = jobs[j]
                      \/ jobs[j].status = "NONE" /\ jobs'[j].status = "QUEUED" /\ j[1] = s
  BY <1>2 DEF PostInv, PipeInv, PipeShape, Fields
<1>6. \A j \in Jobs : /\ jobs[j].status # "NONE" => jobs'[j].status # "NONE"
                      /\ jobs'[j].status # "NONE" => j[1] \in DOMAIN slots
  BY <1>5 DEF PostInv, Backed
<1>7. /\ \A q \in Clicks : clicks'[q].at # "idle" => jobs'[clicks'[q].job].status # "NONE"
      /\ DOMAIN sweep' = Sweepers
      /\ \A v \in Sweepers : sweep'[v] # NoRun => Sweeps(sweep'[v])
  BY <1>3, <1>6, EndsKeep
<1> QED
  BY <1>3, <1>4, <1>6, <1>7, RowsKeep

\* The row of j is written.
LEMMA RowWritten ==
  ASSUME PostInv, Base', PipeInv', Fit', Follows, NEW j \in Jobs, NEW to \in Moves,
         jobs[j].status # "NONE",
         jobs'[j].status = to, \A k \in Jobs \ {j} : jobs'[k] = jobs[k],
         UNCHANGED <<posts, sweep>>, UNCHANGED run \/ run' = [run EXCEPT ![j] = NoRun],
         UNCHANGED clicks \/ \E q \in Clicks : clicks' = [clicks EXCEPT ![q] = NoRun]
  PROVE  PostInv'
<1>1. \A k \in Jobs : /\ jobs[k].status # "NONE" => jobs'[k].status # "NONE"
                      /\ jobs'[k].status # "NONE" => k[1] \in DOMAIN slots
  BY DEF Moves, PostInv, Backed
<1>2. \A k \in Jobs : run'[k] = run[k] \/ run'[k].at = "idle"
  BY DEF PostInv, PipeInv, PipeShape, NoRun
<1>3. /\ \A q \in Clicks : clicks'[q].at # "idle" => jobs'[clicks'[q].job].status # "NONE"
      /\ DOMAIN sweep' = Sweepers
      /\ \A v \in Sweepers : sweep'[v] # NoRun => Sweeps(sweep'[v])
  BY <1>1, EndsKeep
<1> QED
  BY <1>1, <1>2, <1>3, RowsKeep

\* What the commit of a worker, a cancellation or a verification writes.
LEMMA SettleIs ==
  ASSUME PostInv, NEW j \in Jobs, Settle(j)
  PROVE  /\ run[j].at = "settling" /\ run[j].to \in Moves /\ run[j].slot \in Shown
         /\ jobs[j].status # "NONE" /\ j[1] \in DOMAIN slots
         /\ jobs'[j].status = run[j].to /\ \A k \in Jobs \ {j} : jobs'[k] = jobs[k]
         /\ run' = [run EXCEPT ![j] = NoRun]
         /\ UNCHANGED <<deleted, words, approvals, used, events, gate, month, tx, sweep, clicks, posts>>
         /\ Base' /\ Follows /\ Fit' /\ DOMAIN slots' = DOMAIN slots
         /\ \A t \in DOMAIN slots : slots'[t].status =
              IF t = j[1] /\ run[j].slot # None THEN run[j].slot ELSE slots[t].status
<1>1. RunIs(j, run[j]) /\ run[j].at = "settling"
  BY DEF PostInv, RunsSound, Settle, At
<1>2. PICK to \in Moves, sh \in Shown : to = run[j].to /\ sh = run[j].slot
  BY <1>1 DEF RunIs
<1>3. jobs[j].status # "NONE" /\ j[1] \in DOMAIN slots
  BY <1>1 DEF RunIs, PostInv, Backed
<1>4. jobs'[j].status = to /\ \A k \in Jobs \ {j} : jobs'[k] = jobs[k]
  <2>1. "status" \in DOMAIN jobs[j] /\ DOMAIN jobs = Jobs
    BY DEF PostInv, PipeInv, PipeShape, Fields
  <2> QED
    BY <1>2, <2>1 DEF Settle
<1>5. /\ run' = [run EXCEPT ![j] = NoRun]
      /\ UNCHANGED <<deleted, words, approvals, used, events, gate, month, tx, sweep, clicks, posts>>
  BY DEF Settle
<1>6. /\ Base' /\ Follows /\ Fit' /\ DOMAIN slots' = DOMAIN slots
      /\ \A t \in DOMAIN slots : slots'[t].status =
           IF t = j[1] /\ sh # None THEN sh ELSE slots[t].status
  <2>1. CASE sh = None
    <3>1. UNCHANGED planningVars
      BY <1>2, <1>5, <2>1 DEF Settle, SyncLifecycle, planningVars
    <3>2. Base' /\ Follows /\ Fit' /\ UNCHANGED slots
      BY <3>1, ContentStays DEF PostInv
    <3> QED
      BY <2>1, <3>2
  <2>2. CASE sh # None
    <3>1. PICK s \in DOMAIN slots, st \in SlotStatus, is \in ItemStatus \ {"IN_REVIEW"} :
            /\ s = j[1] /\ st = sh
            /\ slots' = [slots EXCEPT ![s].status = st] /\ SetStatus(slots[s].item, is)
      <4>1. /\ slots' = [slots EXCEPT ![j[1]].status = sh]
            /\ SetStatus(slots[j[1]].item, IF sh = "CANCELLED" THEN "SCHEDULED" ELSE sh)
        BY <1>2, <2>2 DEF Settle, SyncLifecycle, ItemOf
      <4> QED
        BY <1>3, <2>2, <4>1 DEF Shown, SlotStatus, ItemStatus
    <3>2. /\ Base' /\ Follows /\ Fit' /\ DOMAIN slots' = DOMAIN slots
          /\ \A t \in DOMAIN slots : slots'[t].status = IF t = s THEN st ELSE slots[t].status
      BY <1>5, <3>1, SlotIsWritten DEF PostInv
    <3> QED
      BY <2>2, <3>1, <3>2
  <2> QED
    BY <2>1, <2>2
<1> QED
  BY <1>1, <1>2, <1>3, <1>4, <1>5, <1>6

LEMMA SettleKept ==
  ASSUME PostInv, PipeInv', NEW j \in Jobs, Settle(j)
  PROVE  PostInv'
<1>1. PICK to \in Moves : to = run[j].to /\ jobs'[j].status = to
  BY SettleIs
<1> QED
  BY <1>1, SettleIs, RowWritten

LEMMA CancelKept ==
  ASSUME PostInv, PipeInv', NEW j \in Jobs, CancelJob(j)
  PROVE  PostInv'
<1>1. jobs[j].status = "QUEUED" /\ UNCHANGED <<planningVars, jobs, sweep, clicks, posts>>
  BY DEF CancelJob, Cancellable
<1>2. PICK n : n = jobs[j].attempts
  OBVIOUS
<1>3. PICK r : r = Settling(j, "CANCELLED", n, None)
  OBVIOUS
<1>4. RunIs(j, r) /\ run' = [run EXCEPT ![j] = r]
  BY <1>1, <1>2, <1>3, SettlesSoundly DEF Moves, CancelJob
<1> QED
  BY <1>1, <1>4, RunKeeps

\* A person queues a job again, by id.
LEMMA ClickQueuesKept ==
  ASSUME PostInv, PipeInv', NEW q \in Clicks, ClickQueues(q)
  PROVE  PostInv'
<1>1. PICK j \in Jobs : j = clicks[q].job /\ jobs[j].status # "NONE" /\ run[j] = NoRun
  BY DEF PostInv, PipeInv, ClicksSound, Backed, ClickQueues
<1>2. jobs'[j].status = "QUEUED" /\ \A k \in Jobs \ {j} : jobs'[k] = jobs[k]
  BY <1>1 DEF ClickQueues, PostInv, PipeInv, PipeShape, Fields
<1>3. /\ UNCHANGED <<planningVars, sweep, posts, run>> /\ clicks' = [clicks EXCEPT ![q] = NoRun]
  BY DEF ClickQueues
<1>4. Base' /\ Follows /\ Fit'
  BY <1>3, ContentStays DEF PostInv
<1> QED
  BY <1>1, <1>2, <1>3, <1>4, RowWritten DEF Moves

\* Nothing is verified that was never made: the request read the row.
LEMMA ClickPublishesKept ==
  ASSUME PostInv, PipeInv', NEW q \in Clicks, ClickPublishes(q)
  PROVE  PostInv'
<1>1. PICK j \in Jobs : j = clicks[q].job /\ jobs[j].status # "NONE"
  BY DEF PostInv, PipeInv, ClicksSound, Backed, ClickPublishes
<1>2. PICK n : n = jobs[j].attempts + 1
  OBVIOUS
<1>3. PICK r : r = Settling(j, "PUBLISHED", n, None)
  OBVIOUS
<1>4. /\ RunIs(j, r) /\ run' = [run EXCEPT ![j] = r]
      /\ UNCHANGED <<planningVars, jobs, sweep, posts>> /\ clicks' = [clicks EXCEPT ![q] = NoRun]
  BY <1>1, <1>2, <1>3, SettlesSoundly DEF Moves, ClickPublishes
<1> QED
  BY <1>4, RunKeeps

-----------------------------------------------------------------------------
(* Steps that only read *)

\* A scheduler reads a slot that is there.
LEMMA SweepReads ==
  ASSUME PostInv, PipeInv', NEW w \in Sweepers, NEW s \in DOMAIN slots, MaterialiseReads(w, s)
  PROVE  PostInv'
<1>1. UNCHANGED <<planningVars, jobs, run, clicks, posts>>
  BY DEF MaterialiseReads, jobVars
<1>2. Base' /\ Follows /\ Fit'
  BY <1>1, ContentStays DEF PostInv
<1>3. PICK r : sweep' = [sweep EXCEPT ![w] = r] /\ Sweeps(r)
  <2> DEFINE r == [at |-> "read", slot |-> s, conns |-> Active]
  <2>1. sweep' = [sweep EXCEPT ![w] = r] /\ Sweeps(r)
    BY DEF MaterialiseReads, Sweeps, Active
  <2> HIDE DEF r
  <2> QED
    BY <2>1
<1>4. /\ DOMAIN sweep' = Sweepers
      /\ \A v \in Sweepers : sweep'[v] # NoRun => Sweeps(sweep'[v])
  BY <1>3 DEF PostInv, Backed
<1>5. \A j \in Jobs : /\ jobs[j].status # "NONE" => jobs'[j].status # "NONE"
                      /\ jobs'[j].status # "NONE" => j[1] \in DOMAIN slots
  BY <1>1 DEF PostInv, Backed
<1>6. \A q \in Clicks : clicks'[q].at # "idle" => jobs'[clicks'[q].job].status # "NONE"
  BY <1>1, <1>5, EndsKeep
<1> QED
  BY <1>1, <1>2, <1>4, <1>5, <1>6, RowsKeep

\* A request of the history reads a job that was made.
LEMMA ClickReadsKept ==
  ASSUME PostInv, PipeInv', NEW q \in Clicks, NEW j \in Jobs, NEW kind, ClickReads(q, j, kind)
  PROVE  PostInv'
<1>1. UNCHANGED <<planningVars, jobs, run, sweep, posts>>
  BY DEF ClickReads, jobVars
<1>2. Base' /\ Follows /\ Fit'
  BY <1>1, ContentStays DEF PostInv
<1>3. PICK c : clicks' = [clicks EXCEPT ![q] = c] /\ c.job = j
  <2> DEFINE c == [at |-> kind, job |-> j, saw |-> Landed(j)]
  <2>1. clicks' = [clicks EXCEPT ![q] = c] /\ c.job = j
    BY DEF ClickReads
  <2> HIDE DEF c
  <2> QED
    BY <2>1
<1>4. jobs[j].status # "NONE"
  <2>1. MayAsk(j, kind) => jobs[j].status # "NONE"
    BY DEF MayAsk
  <2> QED
    BY <2>1 DEF ClickReads
<1>5. \A p \in Clicks : clicks'[p].at # "idle" => jobs'[clicks'[p].job].status # "NONE"
  BY <1>1, <1>3, <1>4 DEF PostInv, Backed, PipeInv, PipeShape
<1>6. \A k \in Jobs : /\ jobs[k].status # "NONE" => jobs'[k].status # "NONE"
                      /\ jobs'[k].status # "NONE" => k[1] \in DOMAIN slots
  BY <1>1 DEF PostInv, Backed
<1>7. /\ DOMAIN sweep' = Sweepers
      /\ \A v \in Sweepers : sweep'[v] # NoRun => Sweeps(sweep'[v])
  BY <1>1, <1>6, EndsKeep
<1> QED
  BY <1>1, <1>2, <1>5, <1>6, <1>7, RowsKeep

\* What a connection's request leaves alone.
LEMMA AdministerLeaves ==
  ASSUME Administer
  PROVE  UNCHANGED <<planningVars, jobVars, sweep, clicks, incidents>>
         \/ UNCHANGED <<planningVars, jobVars, sweep, clicks>>
BY Zenon DEF Administer, Connect, Disconnect, IngestionFails, CheckFindsNone,
   ProbeReads, ProbeWrites, ProbeAborts

LEMMA QuietKept ==
  ASSUME PostInv, PipeInv',
         \/ \E w \in Sweepers : MaterialiseAborts(w)
         \/ \E j \in Jobs : Dispatch(j) \/ Evict(j)
         \/ \E q \in Clicks : ClickAborts(q)
         \/ Administer
         \/ UNCHANGED vars
  PROVE  PostInv'
<1>1. /\ UNCHANGED <<planningVars, jobs, run, posts>>
      /\ \/ UNCHANGED clicks
         \/ \E q \in Clicks : clicks' = [clicks EXCEPT ![q] = NoRun]
      /\ \/ UNCHANGED sweep
         \/ \E w \in Sweepers : sweep' = [sweep EXCEPT ![w] = NoRun]
  <2>1. ASSUME Administer
        PROVE  UNCHANGED <<planningVars, jobs, run, posts, clicks, sweep>>
    BY <2>1, AdministerLeaves DEF jobVars
  <2>2. ASSUME UNCHANGED vars
        PROVE  UNCHANGED <<planningVars, jobs, run, posts, clicks, sweep>>
    BY <2>2 DEF vars, pipelineVars, jobVars
  <2>3. ASSUME NEW w \in Sweepers, MaterialiseAborts(w)
        PROVE  /\ UNCHANGED <<planningVars, jobs, run, posts, clicks>>
               /\ sweep' = [sweep EXCEPT ![w] = NoRun]
    BY <2>3 DEF MaterialiseAborts, jobVars
  <2>4. ASSUME NEW j \in Jobs, Dispatch(j) \/ Evict(j)
        PROVE  UNCHANGED <<planningVars, jobs, run, posts, clicks, sweep>>
    BY <2>4 DEF Dispatch, Evict
  <2>5. ASSUME NEW q \in Clicks, ClickAborts(q)
        PROVE  /\ UNCHANGED <<planningVars, jobs, run, posts, sweep>>
               /\ clicks' = [clicks EXCEPT ![q] = NoRun]
    BY <2>5 DEF ClickAborts, jobVars
  <2> QED
    BY <2>1, <2>2, <2>3, <2>4, <2>5
<1>2. Base' /\ Follows /\ Fit'
  BY <1>1, ContentStays DEF PostInv
<1> QED
  BY <1>1, <1>2, QuietKeeps

LEMMA RequestKept ==
  ASSUME PostInv, PipeInv', Request
  PROVE  PostInv'
<1>1. PlanningNext /\ UNCHANGED <<jobs, run, sweep, clicks, posts>>
  BY DEF Request, jobVars
<1>2. Base' /\ Follows /\ Fit'
  BY <1>1, PlanFollows DEF PostInv
<1> QED
  BY <1>1, <1>2, QuietKeeps

LEMMA PostInvStarts ==
  ASSUME PublishInit
  PROVE  PostInv
<1>1. Base /\ PipeInv
  BY BaseStarts, PipeInvInit DEF PublishInit
<1>2. slots = << >> /\ DOMAIN slots = {}
  BY DEF PublishInit, Init
<1>3. \A j \in Jobs : /\ jobs[j].status = "NONE" /\ run[j].at = "idle"
                      /\ posts[j] = << >> /\ DOMAIN posts[j] = {}
  BY DEF PublishInit, NoRun
<1>4. /\ \A q \in Clicks : clicks[q].at = "idle"
      /\ DOMAIN sweep = Sweepers /\ \A w \in Sweepers : sweep[w] = NoRun
  BY DEF PublishInit, NoRun
<1>5. RunsSound /\ PostsReviewed
  BY <1>3 DEF RunsSound, RunIs, PostsReviewed
<1>6. Fit /\ Backed
  BY <1>2, <1>3, <1>4 DEF Fit, Backed
<1> QED
  BY <1>1, <1>5, <1>6 DEF PostInv

LEMMA PostInvStep ==
  ASSUME PostInv, [PublishNext]_vars
  PROVE  PostInv'
<1>0. PipeInv'
  BY PipeInvStep DEF PostInv
<1>1. CASE Request
  BY <1>0, <1>1, RequestKept
<1>2. CASE Sweep
  BY <1>0, <1>2, QuietKept, SweepReads, MaterialiseKept, Zenon DEF Sweep
<1>3. ASSUME NEW j \in Jobs, Execute(j) \/ CancelJob(j) \/ Lose(j) \/ Evict(j)
      PROVE  PostInv'
  <2>1. CASE Refused(j) \/ Lose(j)
    <3>1. /\ run' = [run EXCEPT ![j] = NoRun]
          /\ UNCHANGED <<planningVars, jobs, sweep, clicks, posts>>
      BY <2>1 DEF Refused, Lose, RollsBack
    <3> QED
      BY <1>0, <3>1, RollsBackKept
  <2>2. CASE Evict(j)
    BY <1>0, <2>2, QuietKept
  <2> QED
    BY <1>0, <1>3, <2>1, <2>2, ClaimKept, PreflightKept, SendKept, SettleKept, CancelKept, Zenon
    DEF Execute
<1>4. ASSUME NEW q \in Clicks, Click(q)
      PROVE  PostInv'
  BY <1>0, <1>4, QuietKept, ClickReadsKept, ClickQueuesKept, ClickPublishesKept, Zenon DEF Click
<1>5. CASE Administer \/ UNCHANGED vars
  BY <1>0, <1>5, QuietKept
<1> QED
  BY <1>1, <1>2, <1>3, <1>4, <1>5, Zenon DEF PublishNext

LEMMA PostInvHolds == PublishSpec => []PostInv
BY PostInvStarts, PostInvStep, PTL DEF PublishSpec

\* Under the gate, the words of a post are words a reviewer approved, however
\* the item was edited, reviewed again or replanned between its approval and
\* the preflight; unless they were edited after the preflight had read them
\* and before the send read them again.
THEOREM PostsAreReviewed == PublishSpec => []SentAsReviewed
<1>1. PostInv => SentAsReviewed
  BY DEF PostInv, PostsReviewed, Reviewed, SentAsReviewed
<1> QED
  BY <1>1, PostInvHolds, PTL

\* No item is stranded in review by the pipeline either.
THEOREM ReviewsStayOpenWhilePublishing == PublishSpec => []ReviewIsOpen
<1>1. PostInv => ReviewIsOpen
  BY DEF PostInv, Base
<1> QED
  BY <1>1, PostInvHolds, PTL

-----------------------------------------------------------------------------
(* The slots *)

\* What a transaction decided of its slot still stands.
Decided ==
  \A j \in Jobs : run[j].at = "settling" /\ j[1] \notin overlapped =>
    Lifecycle(j, run[j].to) \in {None, run[j].slot}

SlotInv == Decided /\ SlotFollowsJobs

LEMMA JobNames ==
  ASSUME NEW j \in Jobs
  PROVE  j = <<j[1], j[2]>> /\ j[2] \in Conns
BY DEF Jobs

LEMMA Siblings ==
  ASSUME NEW j \in Jobs, NEW k \in Jobs \ {j}, k[1] = j[1]
  PROVE  k = <<j[1], k[2]>> /\ k[2] \in Conns \ {j[2]}
<1>1. k[2] # j[2]
  BY DEF Jobs
<1> QED
  BY <1>1, JobNames

\* A lifecycle depends on the siblings only.
LEMMA LifecycleStands ==
  ASSUME NEW j \in Jobs, \A k \in Jobs \ {j} : k[1] = j[1] => jobs'[k].status = jobs[k].status
  PROVE  \A to : Lifecycle(j, to)' = Lifecycle(j, to)
<1>1. \A c \in Conns \ {j[2]} : jobs'[<<j[1], c>>].status = jobs[<<j[1], c>>].status
  <2> SUFFICES ASSUME NEW c \in Conns \ {j[2]}
               PROVE  jobs'[<<j[1], c>>].status = jobs[<<j[1], c>>].status
    OBVIOUS
  <2>1. <<j[1], c>> \in Jobs \ {j} /\ <<j[1], c>>[1] = j[1]
    BY DEF Jobs
  <2> QED
    BY <2>1
<1>2. {jobs'[<<j[1], c>>].status : c \in Conns \ {j[2]}}
      = {jobs[<<j[1], c>>].status : c \in Conns \ {j[2]}}
  BY <1>1
<1> QED
  BY <1>2, Zenon DEF Lifecycle

\* A step that leaves the rows, and a transaction or none that settles on what
\* it read.
LEMMA SlotsStand ==
  ASSUME PostInv, SlotInv, UNCHANGED <<jobs, overlapped>>, Planned,
         \A s \in DOMAIN slots' : s \in DOMAIN slots \/ s \in 1..MaxSlots,
         \A j \in Jobs : \/ run'[j] = run[j]
                         \/ run'[j].at # "settling"
                         \/ run'[j].slot = Lifecycle(j, run'[j].to)
  PROVE  SlotInv'
<1>1. Decided'
  <2> SUFFICES ASSUME NEW j \in Jobs, run'[j].at = "settling", j[1] \notin overlapped
               PROVE  Lifecycle(j, run[j].to)' \in {None, run'[j].slot}
    BY DEF Decided
  <2>1. PICK to : to = run'[j].to
    OBVIOUS
  <2>2. Lifecycle(j, run[j].to)' = Lifecycle(j, to)
    BY <2>1, LifecycleStands, Zenon DEF Lifecycle
  <2>3. Lifecycle(j, to) \in {None, run'[j].slot}
    BY <2>1 DEF SlotInv, Decided
  <2> QED
    BY <2>2, <2>3
<1>2. SlotFollowsJobs'
  <2> SUFFICES ASSUME NEW s \in DOMAIN slots', s \notin overlapped,
                      JobsOf(s) # {}, JobsOf(s) \subseteq Terminal
               PROVE  slots'[s].status \in {Outcome(JobsOf(s)), "CANCELLED"}
    BY Zenon DEF SlotFollowsJobs, JobsOf
  <2>1. PICK c \in Conns : jobs[<<s, c>>].status # "NONE"
    BY DEF JobsOf
  <2>2. s \in DOMAIN slots
    <3> SUFFICES ASSUME s \in 1..MaxSlots PROVE s \in DOMAIN slots
      OBVIOUS
    <3>1. <<s, c>> \in Jobs /\ <<s, c>>[1] = s
      BY DEF Jobs
    <3> QED
      BY <2>1, <3>1 DEF PostInv, Backed
  <2>3. slots[s].status \in {Outcome(JobsOf(s)), "CANCELLED"}
    BY <2>2 DEF SlotInv, SlotFollowsJobs
  <2> QED
    BY <2>2, <2>3 DEF Planned
<1> QED
  BY <1>1, <1>2 DEF SlotInv

\* A step that queues rows, of jobs that no transaction holds, and shows no
\* slot otherwise than publishing.
LEMMA QueuedAnew ==
  ASSUME PostInv, SlotInv, UNCHANGED <<run, overlapped>>, DOMAIN slots' = DOMAIN slots,
         \A j \in Jobs : \/ jobs'[j].status = jobs[j].status
                         \/ jobs'[j].status = "QUEUED" /\ run[j].at = "idle",
         \A s \in DOMAIN slots : \/ slots'[s].status = slots[s].status
                                 \/ \E c \in Conns : jobs'[<<s, c>>].status = "QUEUED"
  PROVE  SlotInv'
<1>1. Decided'
  <2> SUFFICES ASSUME NEW j \in Jobs, run[j].at = "settling", j[1] \notin overlapped
               PROVE  Lifecycle(j, run[j].to)' \in {None, run[j].slot}
    BY DEF Decided
  <2>1. PICK to : to = run[j].to /\ to = run'[j].to
    OBVIOUS
  <2>2. CASE \E k \in Jobs \ {j} : k[1] = j[1] /\ jobs'[k].status # jobs[k].status
    <3>1. PICK k \in Jobs \ {j} : k[1] = j[1] /\ jobs'[k].status = "QUEUED"
      BY <2>2
    <3>2. Lifecycle(j, to)' = None
      <4>1. k = <<j[1], k[2]>> /\ k[2] \in Conns \ {j[2]}
        BY <3>1, Siblings
      <4> DEFINE all == ({jobs'[<<j[1], c>>].status : c \in Conns \ {j[2]}} \cup {to}) \ {"NONE"}
      <4>2. "QUEUED" \in all
        BY <3>1, <4>1
      <4>3. ~(all \subseteq Terminal)
        BY <4>2 DEF Terminal
      <4> QED
        BY <4>3, Zenon DEF Lifecycle
    <3> QED
      BY <2>1, <3>2, Zenon DEF Lifecycle
  <2>3. CASE \A k \in Jobs \ {j} : k[1] = j[1] => jobs'[k].status = jobs[k].status
    <3>1. Lifecycle(j, to)' = Lifecycle(j, to)
      BY <2>3, LifecycleStands
    <3>2. Lifecycle(j, to) \in {None, run[j].slot}
      BY <2>1 DEF SlotInv, Decided
    <3> QED
      BY <2>1, <3>1, <3>2, Zenon DEF Lifecycle
  <2> QED
    BY <2>2, <2>3
<1>2. SlotFollowsJobs'
  <2> SUFFICES ASSUME NEW s \in DOMAIN slots, s \notin overlapped,
                      JobsOf(s)' # {}, JobsOf(s)' \subseteq Terminal
               PROVE  slots'[s].status \in {Outcome(JobsOf(s)'), "CANCELLED"}
    BY Zenon DEF SlotFollowsJobs, Outcome
  <2>1. \A c \in Conns : jobs'[<<s, c>>].status # "QUEUED"
    <3> SUFFICES ASSUME NEW c \in Conns, jobs'[<<s, c>>].status = "QUEUED" PROVE FALSE
      OBVIOUS
    <3>1. "QUEUED" \in JobsOf(s)'
      BY DEF JobsOf
    <3> QED
      BY <3>1 DEF Terminal
  <2>2. \A c \in Conns : jobs'[<<s, c>>].status = jobs[<<s, c>>].status
    <3> SUFFICES ASSUME NEW c \in Conns PROVE jobs'[<<s, c>>].status = jobs[<<s, c>>].status
      OBVIOUS
    <3>1. <<s, c>> \in Jobs
      BY DEF PostInv, Fit, Jobs
    <3> QED
      BY <2>1, <3>1
  <2>3. JobsOf(s)' = JobsOf(s)
    BY <2>2 DEF JobsOf
  <2>4. PICK all : all = JobsOf(s) /\ all = JobsOf(s)'
    BY <2>3
  <2>5. slots[s].status \in {Outcome(all), "CANCELLED"}
    BY <2>4 DEF SlotInv, SlotFollowsJobs
  <2>6. slots'[s].status = slots[s].status
    BY <2>1
  <2> QED
    BY <2>4, <2>5, <2>6
<1> QED
  BY <1>1, <1>2 DEF SlotInv

\* The commit shows what its transaction decided.
LEMMA SettleShows ==
  ASSUME PostInv, SlotInv, NEW j \in Jobs, Settle(j)
  PROVE  SlotInv'
<1>1. /\ run[j].at = "settling" /\ run[j].to \in Moves /\ run[j].slot \in Shown
      /\ jobs[j].status # "NONE" /\ j[1] \in DOMAIN slots
      /\ jobs'[j].status = run[j].to /\ \A k \in Jobs \ {j} : jobs'[k] = jobs[k]
      /\ run' = [run EXCEPT ![j] = NoRun] /\ DOMAIN slots' = DOMAIN slots
      /\ \A t \in DOMAIN slots : slots'[t].status =
           IF t = j[1] /\ run[j].slot # None THEN run[j].slot ELSE slots[t].status
  BY SettleIs
<1>2. PICK to \in Moves, sh \in Shown : to = run[j].to /\ sh = run[j].slot
  BY <1>1
<1>3. /\ overlapped \subseteq overlapped'
      /\ \A k \in Jobs \ {j} : k[1] = j[1] /\ run[k].at = "settling" => j[1] \in overlapped'
  <2>1. overlapped' = overlapped \cup
          {s \in {j[1]} : \E c \in Conns \ {j[2]} : run[<<s, c>>].at = "settling"}
    BY DEF Settle, At
  <2>2. ASSUME NEW k \in Jobs \ {j}, k[1] = j[1], run[k].at = "settling"
        PROVE  j[1] \in overlapped'
    <3>1. k = <<j[1], k[2]>> /\ k[2] \in Conns \ {j[2]}
      BY <2>2, Siblings
    <3> QED
      BY <2>1, <2>2, <3>1
  <2> QED
    BY <2>1, <2>2
<1>4. /\ run'[j].at = "idle"
      /\ \A k \in Jobs \ {j} : run'[k] = run[k]
  BY <1>1 DEF PostInv, PipeInv, PipeShape, NoRun
<1>5. Decided'
  <2> SUFFICES ASSUME NEW k \in Jobs, run'[k].at = "settling", k[1] \notin overlapped'
               PROVE  Lifecycle(k, run[k].to)' \in {None, run'[k].slot}
    BY DEF Decided
  <2>1. k # j /\ run'[k] = run[k] /\ k[1] # j[1] /\ k[1] \notin overlapped
    BY <1>3, <1>4
  <2>2. PICK kto : kto = run[k].to /\ kto = run'[k].to
    BY <2>1
  <2>3. Lifecycle(k, kto)' = Lifecycle(k, kto)
    BY <1>1, <2>1, LifecycleStands
  <2>4. Lifecycle(k, kto) \in {None, run[k].slot}
    BY <2>1, <2>2 DEF SlotInv, Decided
  <2> QED
    BY <2>1, <2>2, <2>3, <2>4, Zenon DEF Lifecycle
<1>6. SlotFollowsJobs'
  <2> SUFFICES ASSUME NEW s \in DOMAIN slots, s \notin overlapped',
                      JobsOf(s)' # {}, JobsOf(s)' \subseteq Terminal
               PROVE  slots'[s].status \in {Outcome(JobsOf(s)'), "CANCELLED"}
    BY <1>1, Zenon DEF SlotFollowsJobs, Outcome
  <2>1. CASE s = j[1]
    <3> DEFINE others == {jobs[<<s, c>>].status : c \in Conns \ {j[2]}}
               all == (others \cup {to}) \ {"NONE"}
    <3>1. others = {jobs'[<<s, c>>].status : c \in Conns \ {j[2]}}
      <4>1. \A c \in Conns \ {j[2]} : jobs'[<<s, c>>].status = jobs[<<s, c>>].status
        <5> SUFFICES ASSUME NEW c \in Conns \ {j[2]}
                     PROVE  jobs'[<<s, c>>].status = jobs[<<s, c>>].status
          OBVIOUS
        <5>1. <<s, c>> \in Jobs \ {j}
          BY <2>1 DEF Jobs
        <5> QED
          BY <1>1, <5>1
      <4> QED
        BY <4>1
    <3>2. JobsOf(s)' = all
      <4>0. j = <<j[1], j[2]>> /\ j[2] \in Conns
        BY JobNames
      <4>1. j = <<s, j[2]>> /\ j[2] \in Conns
        BY <2>1, <4>0
      <4>2. jobs'[<<s, j[2]>>].status = to
        BY <1>1, <1>2, <4>1
      <4>3. JobsOf(s)' = ({jobs'[<<s, c>>].status : c \in Conns \ {j[2]}}
                          \cup {jobs'[<<s, j[2]>>].status}) \ {"NONE"}
        BY <4>1 DEF JobsOf
      <4> QED
        BY <3>1, <4>2, <4>3
    <3>3. Lifecycle(j, to) = Outcome(all)
      <4>1. all \subseteq Terminal
        BY <3>2
      <4> QED
        BY <2>1, <4>1, Zenon DEF Lifecycle
    <3>4. Outcome(all) # None
      BY DEF Outcome, None
    <3>5. Lifecycle(j, to) = sh
      BY <1>1, <1>2, <1>3, <2>1, <3>3, <3>4 DEF SlotInv, Decided
    <3>6. slots'[s].status = sh /\ sh = Outcome(all)
      BY <1>1, <1>2, <2>1, <3>3, <3>4, <3>5
    <3> HIDE DEF all
    <3> QED
      BY <3>2, <3>6
  <2>2. CASE s # j[1]
    <3>1. \A c \in Conns : jobs'[<<s, c>>].status = jobs[<<s, c>>].status
      <4> SUFFICES ASSUME NEW c \in Conns PROVE jobs'[<<s, c>>].status = jobs[<<s, c>>].status
        OBVIOUS
      <4>1. <<s, c>> \in Jobs \ {j}
        BY <2>2 DEF PostInv, Fit, Jobs
      <4> QED
        BY <1>1, <4>1
    <3>2. PICK all : all = JobsOf(s) /\ all = JobsOf(s)'
      BY <3>1 DEF JobsOf
    <3>3. slots[s].status \in {Outcome(all), "CANCELLED"}
      BY <1>3, <3>2 DEF SlotInv, SlotFollowsJobs
    <3>4. slots'[s].status = slots[s].status
      BY <1>1, <2>2
    <3> QED
      BY <3>2, <3>3, <3>4
  <2> QED
    BY <2>1, <2>2
<1> QED
  BY <1>5, <1>6 DEF SlotInv

\* Jobs are made where no transaction can be.
LEMMA MaterialiseShows ==
  ASSUME PostInv, SlotInv, NEW w \in Sweepers, MaterialiseCommits(w)
  PROVE  SlotInv'
<1>1. PICK s \in DOMAIN slots : \E made :
        /\ \A j \in made : j \in Jobs /\ j[1] = s /\ jobs[j].status = "NONE"
        /\ jobs' = [j \in Jobs |-> IF j \in made
                      THEN [jobs[j] EXCEPT !.status = "QUEUED"] ELSE jobs[j]]
        /\ IF made = {} THEN UNCHANGED <<slots, status>>
           ELSE /\ slots' = [slots EXCEPT ![s].status = "PUBLISHING"]
                /\ SetStatus(slots[s].item, "PUBLISHING")
  BY MaterialiseIs
<1>2. PICK made : /\ \A j \in made : j \in Jobs /\ j[1] = s /\ jobs[j].status = "NONE"
                  /\ jobs' = [j \in Jobs |-> IF j \in made
                                THEN [jobs[j] EXCEPT !.status = "QUEUED"] ELSE jobs[j]]
                  /\ made = {} => UNCHANGED slots
                  /\ made # {} => slots' = [slots EXCEPT ![s].status = "PUBLISHING"]
  BY <1>1
<1>3. UNCHANGED <<run, overlapped>>
  BY DEF MaterialiseCommits
<1>4. \A j \in Jobs : \/ jobs'[j].status = jobs[j].status
                      \/ /\ jobs'[j].status = "QUEUED" /\ run[j].at = "idle"
                         /\ j[1] = s /\ j \in made
  BY <1>2 DEF PostInv, PipeInv, PipeShape, Fields, RunsSound, RunIs
<1>5. DOMAIN slots' = DOMAIN slots
  BY <1>2
<1>6. ASSUME NEW t \in DOMAIN slots
      PROVE  \/ slots'[t].status = slots[t].status
             \/ \E c \in Conns : jobs'[<<t, c>>].status = "QUEUED"
  <2>1. CASE made = {} \/ t # s
    BY <1>2, <2>1
  <2>2. CASE made # {} /\ t = s
    <3> SUFFICES \E c \in Conns : jobs'[<<t, c>>].status = "QUEUED"
      OBVIOUS
    <3>1. PICK j \in made : j \in Jobs /\ j[1] = s
      BY <1>2, <2>2
    <3>2. j = <<j[1], j[2]>> /\ j[2] \in Conns
      BY <3>1 DEF Jobs
    <3>3. jobs'[j].status = "QUEUED"
      BY <1>2, <3>1 DEF PostInv, PipeInv, PipeShape, Fields
    <3> QED
      BY <2>2, <3>1, <3>2, <3>3
  <2> QED
    BY <2>1, <2>2
<1> QED
  BY <1>3, <1>4, <1>5, <1>6, QueuedAnew

LEMMA ClickQueuesShows ==
  ASSUME PostInv, SlotInv, NEW q \in Clicks, ClickQueues(q)
  PROVE  SlotInv'
<1>1. PICK j \in Jobs : j = clicks[q].job /\ run[j].at = "idle"
  BY NobodysRun DEF PostInv, PipeInv, ClicksSound, ClickQueues
<1>2. jobs'[j].status = "QUEUED" /\ \A k \in Jobs \ {j} : jobs'[k] = jobs[k]
  BY <1>1 DEF ClickQueues, PostInv, PipeInv, PipeShape, Fields
<1>3. UNCHANGED <<planningVars, run, overlapped>>
  BY DEF ClickQueues
<1>4. UNCHANGED slots
  BY <1>3 DEF planningVars
<1> QED
  BY <1>1, <1>2, <1>3, <1>4, QueuedAnew

\* The steps of one transaction.
LEMMA RunShows ==
  ASSUME PostInv, SlotInv, NEW j \in Jobs, NEW r, run' = [run EXCEPT ![j] = r],
         r.at = "settling" => r.slot = Lifecycle(j, r.to),
         UNCHANGED <<planningVars, jobs, overlapped>>
  PROVE  SlotInv'
<1>1. Fit /\ UNCHANGED slots
  BY ContentStays DEF PostInv
<1>2. Planned /\ \A s \in DOMAIN slots' : s \in DOMAIN slots
  BY <1>1 DEF Planned
<1>3. \A k \in Jobs : IF k = j THEN run'[k] = r ELSE run'[k] = run[k]
  BY DEF PostInv, PipeInv, PipeShape
<1>4. \A k \in Jobs : \/ run'[k] = run[k]
                      \/ run'[k].at # "settling"
                      \/ run'[k].slot = Lifecycle(k, run'[k].to)
  <2>1. run'[j].at # "settling" \/ run'[j].slot = Lifecycle(j, run'[j].to)
    <3>1. run'[j] = r
      BY <1>3
    <3> QED
      BY <3>1, Zenon
  <2> QED
    BY <1>3, <2>1
<1> QED
  BY <1>2, <1>4, SlotsStand

LEMMA SettlingShows ==
  ASSUME PostInv, SlotInv, NEW j \in Jobs, NEW to, NEW n, NEW class,
         run' = [run EXCEPT ![j] = Settling(j, to, n, class)],
         UNCHANGED <<planningVars, jobs, overlapped>>
  PROVE  SlotInv'
<1> DEFINE r == Settling(j, to, n, class)
<1>1. r.slot = Lifecycle(j, to) /\ r.to = to
  BY SettlingIs
<1>2. r.slot = Lifecycle(j, r.to)
  BY <1>1, Zenon
<1>3. run' = [run EXCEPT ![j] = r]
  OBVIOUS
<1> HIDE DEF r
<1> QED
  BY <1>2, <1>3, RunShows

LEMMA WorkerShows ==
  ASSUME PostInv, SlotInv, NEW j \in Jobs,
         Claim(j) \/ Preflight(j) \/ Send(j) \/ CancelJob(j) \/ Lose(j) \/ Refused(j)
  PROVE  SlotInv'
<1>1. ASSUME RollsBack(j, "lost", Landed(j) > 0) \/ RollsBack(j, "refused", Landed(j) > 0)
             \/ \E landed \in BOOLEAN : RollsBack(j, "refused", landed)
      PROVE  SlotInv'
  <2>1. run' = [run EXCEPT ![j] = NoRun] /\ UNCHANGED <<planningVars, jobs, overlapped>>
    BY <1>1 DEF RollsBack
  <2>2. PICK r : r = NoRun /\ r.at # "settling"
    BY NobodysRun
  <2>3. run' = [run EXCEPT ![j] = r]
    BY <2>1, <2>2
  <2> QED
    BY <2>1, <2>2, <2>3, RunShows
<1>2. CASE Claim(j)
  <2>1. UNCHANGED <<planningVars, jobs, overlapped>>
    BY <1>2 DEF Claim
  <2>2. PICK r : r.at # "settling" /\ (UNCHANGED run \/ run' = [run EXCEPT ![j] = r])
    <3>1. [at |-> "claimed"].at # "settling"
      OBVIOUS
    <3> QED
      BY <1>2, <3>1 DEF Claim
  <2>3. CASE UNCHANGED run
    <3>1. UNCHANGED slots
      BY <2>1 DEF planningVars
    <3>2. Planned
      BY <3>1 DEF Planned
    <3> QED
      BY <2>1, <2>3, <3>1, <3>2, SlotsStand
  <2> QED
    BY <2>1, <2>2, <2>3, RunShows
<1>3. CASE Preflight(j)
  <2>1. UNCHANGED <<planningVars, jobs, overlapped>>
    BY <1>3 DEF Preflight
  <2>2. ASSUME NEW w, run' = [run EXCEPT ![j] = [at |-> "checked", words |-> w]]
        PROVE  SlotInv'
    <3>1. PICK r : r = [at |-> "checked", words |-> w] /\ r.at # "settling"
      BY Claimed
    <3>2. run' = [run EXCEPT ![j] = r]
      BY <2>2, <3>1
    <3> QED
      BY <2>1, <3>1, <3>2, RunShows
  <2>3. ASSUME NEW class, run' = [run EXCEPT ![j] = Settling(j, "FAILED", jobs[j].attempts, class)]
        PROVE  SlotInv'
    BY <2>1, <2>3, SettlingShows
  <2> QED
    BY <1>3, <2>2, <2>3, PreflightIs, Zenon
<1>4. CASE Send(j)
  <2>1. PICK received \in BOOLEAN, class \in Classes \cup {None}, landed \in BOOLEAN :
          /\ landed = (received \/ Landed(j) > 0)
          /\ class = None => received
          /\ RollsBack(j, "refused", landed) \/ AfterAnswer(j, class, landed)
    BY <1>4, SendIs, Zenon DEF PostInv
  <2>2. CASE AfterAnswer(j, class, landed)
    <3>1. UNCHANGED <<planningVars, jobs, overlapped>>
      BY <2>2 DEF AfterAnswer
    <3>2. class = None => landed
      BY <2>1
    <3>3. PICK to, cl : run' = [run EXCEPT ![j] = Settling(j, to, jobs[j].attempts + 1, cl)]
      BY <2>2, <3>2, AnswerIs DEF PostInv
    <3> QED
      BY <3>1, <3>3, SettlingShows
  <2> QED
    BY <1>1, <2>1, <2>2
<1>5. CASE CancelJob(j)
  BY <1>5, SettlingShows DEF CancelJob
<1>6. CASE Lose(j) \/ Refused(j)
  BY <1>1, <1>6, Zenon DEF Lose, Refused
<1> QED
  BY <1>2, <1>3, <1>4, <1>5, <1>6

\* Every other step leaves the jobs and their transactions.
LEMMA SlotInvStep ==
  ASSUME PostInv, SlotInv, [PublishNext]_vars
  PROVE  SlotInv'
<1>1. ASSUME UNCHANGED <<planningVars, jobs, run, overlapped>>
      PROVE  SlotInv'
  <2>1. UNCHANGED slots
    BY <1>1 DEF planningVars
  <2>2. Planned
    BY <2>1 DEF Planned
  <2> QED
    BY <1>1, <2>1, <2>2, SlotsStand
<1>2. CASE Request
  <2>1. PlanningNext /\ UNCHANGED <<jobs, run, overlapped>>
    BY <1>2 DEF Request, jobVars
  <2>2. Planned /\ Fit'
    BY <2>1, PlanFollows DEF PostInv
  <2> QED
    BY <2>1, <2>2, SlotsStand DEF Fit
<1>3. CASE Administer \/ UNCHANGED vars
  <2>1. UNCHANGED <<planningVars, jobs, run, overlapped>>
    BY <1>3, AdministerLeaves DEF vars, pipelineVars, jobVars
  <2> QED
    BY <1>1, <2>1
<1>4. CASE Sweep
  <2>1. ASSUME NEW w, NEW s, MaterialiseReads(w, s) \/ MaterialiseAborts(w)
        PROVE  SlotInv'
    BY <1>1, <2>1 DEF MaterialiseReads, MaterialiseAborts, jobVars
  <2>2. ASSUME NEW j, Dispatch(j)
        PROVE  SlotInv'
    BY <1>1, <2>2 DEF Dispatch
  <2> QED
    BY <1>4, <2>1, <2>2, MaterialiseShows, Zenon DEF Sweep
<1>5. ASSUME NEW j \in Jobs, Execute(j) \/ CancelJob(j) \/ Lose(j) \/ Evict(j)
      PROVE  SlotInv'
  <2>1. CASE Evict(j)
    BY <1>1, <2>1 DEF Evict
  <2> QED
    BY <1>5, <2>1, WorkerShows, SettleShows, Zenon DEF Execute
<1>6. ASSUME NEW q \in Clicks, Click(q)
      PROVE  SlotInv'
  <2>1. ASSUME ClickAborts(q) \/ \E j, kind : ClickReads(q, j, kind)
        PROVE  SlotInv'
    BY <1>1, <2>1 DEF ClickReads, ClickAborts, jobVars
  <2>2. CASE ClickPublishes(q)
    <3>1. PICK j \in Jobs : j = clicks[q].job
      BY <2>2 DEF PostInv, PipeInv, ClicksSound, ClickPublishes
    <3>2. /\ run' = [run EXCEPT ![j] = Settling(j, "PUBLISHED", jobs[j].attempts + 1, None)]
          /\ UNCHANGED <<planningVars, jobs, overlapped>>
      BY <2>2, <3>1 DEF ClickPublishes
    <3> QED
      BY <3>2, SettlingShows
  <2> QED
    BY <1>6, <2>1, <2>2, ClickQueuesShows, Zenon DEF Click
<1> QED
  BY <1>2, <1>3, <1>4, <1>5, <1>6, Zenon DEF PublishNext

LEMMA SlotInvStarts ==
  ASSUME PublishInit
  PROVE  SlotInv
<1>1. DOMAIN slots = {}
  BY DEF PublishInit, Init
<1>2. \A j \in Jobs : run[j].at = "idle"
  BY DEF PublishInit, NoRun
<1> QED
  BY <1>1, <1>2 DEF SlotInv, Decided, SlotFollowsJobs

\* When the jobs of a slot are over, the slot says so, and says what came of
\* them, for any number of connections and schedulers: unless two of its jobs
\* settled over each other's reads, or it was taken off the calendar.
THEOREM SlotsFollowTheirJobs == PublishSpec => []SlotFollowsJobs
<1>1. SlotInv => SlotFollowsJobs
  BY DEF SlotInv
<1> QED
  BY <1>1, PostInvHolds, SlotInvStarts, SlotInvStep, PTL DEF PublishSpec

-----------------------------------------------------------------------------
(* Types *)

Row == [status: JobStatus, attempts: 0..MaxAttempts, manual: BOOLEAN, byHand: BOOLEAN,
        recorded: 0..MaxAttempts]

Post == [checked: Words \cup {None}, sent: Words]

\* A message that is not on its way has not been delivered, one that waits can
\* be delivered again.
Queue(m, d) ==
  /\ m \in {"absent", "waiting", "active", "retained"}
  /\ d \in 0..MaxDeliveries
  /\ m \in {"absent", "retained"} => d = 0
  /\ m = "waiting" => d < MaxDeliveries

\* What a transaction will write of the job, and the words it has checked.
Carries(r) ==
  /\ r.at = "settling" => /\ r.attempts \in Nat
                          /\ r.manual \in BOOLEAN /\ r.byHand \in BOOLEAN
                          /\ r.recorded \in 0..MaxAttempts \/ r.recorded = r.attempts
  /\ r.at = "checked" => r.words \in Words \cup {None}

PipeTyped ==
  /\ jobs \in [Jobs -> Row]
  /\ \A j \in Jobs : Queue(message[j], deliveries[j])
  /\ message \in [Jobs -> {"absent", "waiting", "active", "retained"}]
  /\ deliveries \in [Jobs -> 0..MaxDeliveries]
  /\ \A j \in Jobs : Carries(run[j])
  /\ posts \in [Jobs -> Seq(Post)]
  /\ astray \in [Jobs -> Causes \cup {None}]

\* The connections, and the one a refresh or a check is of.
ConnsTyped ==
  /\ conn \in [Conns -> ConnStatus]
  /\ credential \subseteq Conns
  /\ DOMAIN probes = Probes
  /\ \A p \in Probes : probes[p] # NoRun => probes[p].conn \in Conns

\* The queue as a whole, whichever message moved.
QueueTyped ==
  /\ message \in [Jobs -> {"absent", "waiting", "active", "retained"}]
  /\ deliveries \in [Jobs -> 0..MaxDeliveries]
  /\ \A j \in Jobs : Queue(message[j], deliveries[j])

\* A step that moves the message of j to m, delivered d times.
LEMMA QueueMoves ==
  ASSUME PipeTyped, NEW j \in Jobs, NEW m, NEW d, Queue(m, d),
         message' = [message EXCEPT ![j] = m], deliveries' = [deliveries EXCEPT ![j] = d]
  PROVE  QueueTyped'
<1>1. m \in {"absent", "waiting", "active", "retained"} /\ d \in 0..MaxDeliveries
  BY DEF Queue
<1>2. /\ message' \in [Jobs -> {"absent", "waiting", "active", "retained"}]
      /\ deliveries' \in [Jobs -> 0..MaxDeliveries]
  BY <1>1 DEF PipeTyped
<1>3. \A k \in Jobs : /\ message'[k] = IF k = j THEN m ELSE message[k]
                      /\ deliveries'[k] = IF k = j THEN d ELSE deliveries[k]
  BY DEF PipeTyped
<1>4. \A k \in Jobs : Queue(message'[k], deliveries'[k])
  BY <1>3, Zenon DEF PipeTyped
<1> QED
  BY <1>2, <1>4 DEF QueueTyped

LEMMA QueueRests ==
  ASSUME PipeTyped, UNCHANGED <<message, deliveries>>
  PROVE  QueueTyped'
BY DEF PipeTyped, QueueTyped

LEMMA Retained ==
  ASSUME PipeTyped, NEW j \in Jobs, Retain(j)
  PROVE  QueueTyped'
<1>1. Queue("retained", 0)
  BY PublishAssumption DEF Queue
<1> QED
  BY <1>1, QueueMoves DEF Retain

\* Whatever is blamed is a cause.
LEMMA BlameTyped ==
  ASSUME PipeTyped, NEW j \in Jobs, NEW cause \in Causes, NEW holds, Blame(j, cause, holds)
  PROVE  astray' \in [Jobs -> Causes \cup {None}]
<1>1. PICK a \in Causes \cup {None} : astray' = [astray EXCEPT ![j] = a]
  <2>1. astray[j] \in Causes \cup {None}
    BY DEF PipeTyped
  <2> QED
    BY <2>1 DEF Blame
<1> QED
  BY <1>1 DEF PipeTyped

LEMMA JobRow ==
  ASSUME PipeTyped, NEW j \in Jobs
  PROVE  /\ jobs[j] \in Row /\ jobs[j].attempts \in 0..MaxAttempts /\ jobs[j].attempts \in Nat
         /\ jobs[j].attempts + 1 \in Nat /\ jobs[j].recorded \in 0..MaxAttempts
<1>1. jobs[j] \in Row
  BY DEF PipeTyped
<1> QED
  BY <1>1, PublishAssumption DEF Row

LEMMA SettlingCarries ==
  ASSUME PipeTyped, NEW j \in Jobs, NEW to, NEW n \in Nat, NEW class
  PROVE  Carries(Settling(j, to, n, class))
<1> DEFINE r == Settling(j, to, n, class)
<1>1. /\ r.at = "settling" /\ r.attempts = n
      /\ r.manual = (to = "FAILED" /\ class \in ManualRetryUseful \ Indeterminate)
      /\ r.byHand = (to = "PUBLISHED" /\ run[j] = NoRun)
      /\ r.recorded = n \/ r.recorded = jobs[j].recorded
  BY DEF Settling
<1>2. jobs[j].recorded \in 0..MaxAttempts
  BY JobRow
<1> HIDE DEF r
<1>3. r.manual \in BOOLEAN /\ r.byHand \in BOOLEAN
  BY <1>1, Zenon
<1> QED
  BY <1>1, <1>2, <1>3 DEF Carries, r

LEMMA NoRunCarries == Carries(NoRun)
BY NobodysRun DEF Carries

\* A transaction that moves to r, and whatever it leaves of the rest.
LEMMA RunTyped ==
  ASSUME PostInv, PipeTyped, NEW j \in Jobs, NEW r, Carries(r), run' = [run EXCEPT ![j] = r],
         QueueTyped', jobs' \in [Jobs -> Row], posts' \in [Jobs -> Seq(Post)],
         astray' \in [Jobs -> Causes \cup {None}]
  PROVE  PipeTyped'
<1>1. \A k \in Jobs : run'[k] = IF k = j THEN r ELSE run[k]
  BY DEF PostInv, PipeInv, PipeShape
<1>2. \A k \in Jobs : Carries(run'[k])
  BY <1>1, Zenon DEF PipeTyped
<1> QED
  BY <1>2 DEF PipeTyped, QueueTyped

LEMMA CommitTyped ==
  ASSUME PipeTyped, NEW w \in Sweepers, MaterialiseCommits(w)
  PROVE  PipeTyped'
<1>1. UNCHANGED <<run, message, deliveries, posts, astray>>
  BY DEF MaterialiseCommits
<1>2. jobs' \in [Jobs -> Row]
  <2>1. PICK made : jobs' = [j \in Jobs |-> IF j \in made
                       THEN [jobs[j] EXCEPT !.status = "QUEUED"] ELSE jobs[j]]
    BY DEF MaterialiseCommits
  <2>2. ASSUME NEW j \in Jobs
        PROVE  [jobs[j] EXCEPT !.status = "QUEUED"] \in Row /\ jobs[j] \in Row
    <3>1. jobs[j] \in Row
      BY JobRow
    <3> QED
      BY <3>1 DEF Row, JobStatus
  <2> QED
    BY <2>1, <2>2
<1> QED
  BY <1>1, <1>2 DEF PipeTyped

LEMMA MessageTyped ==
  ASSUME PipeTyped, NEW j \in Jobs, Dispatch(j) \/ Evict(j)
  PROVE  PipeTyped'
<1>1. UNCHANGED <<jobs, run, deliveries, posts, astray>>
  BY DEF Dispatch, Evict
<1>2. deliveries[j] = 0 /\ deliveries' = [deliveries EXCEPT ![j] = 0]
  <2>1. Queue(message[j], deliveries[j])
    BY DEF PipeTyped
  <2>2. deliveries[j] = 0
    BY <2>1 DEF Queue, Dispatch, Evict
  <2> QED
    BY <1>1, <2>2 DEF PipeTyped
<1>3. PICK m \in {"absent", "waiting"} : message' = [message EXCEPT ![j] = m]
  BY DEF Dispatch, Evict
<1>4. Queue(m, 0)
  BY PublishAssumption DEF Queue
<1>5. QueueTyped'
  BY <1>2, <1>3, <1>4, QueueMoves
<1> QED
  BY <1>1, <1>5 DEF PipeTyped, QueueTyped

LEMMA ClaimTyped ==
  ASSUME PostInv, PipeTyped, NEW j \in Jobs, Claim(j)
  PROVE  PipeTyped'
<1>1. UNCHANGED <<jobs, posts, astray>> /\ message[j] = "waiting"
  BY DEF Claim
<1>2. CASE jobs[j].status = "QUEUED"
  <2>1. Queue("active", deliveries[j] + 1)
    <3>1. Queue(message[j], deliveries[j])
      BY DEF PipeTyped
    <3> QED
      BY <1>1, <3>1, PublishAssumption DEF Queue
  <2>2. QueueTyped'
    BY <1>2, <2>1, QueueMoves DEF Claim
  <2>3. PICK r : r = [at |-> "claimed"] /\ r.at = "claimed"
    BY Claimed
  <2>4. Carries(r) /\ run' = [run EXCEPT ![j] = r]
    BY <1>2, <2>3 DEF Claim, Carries
  <2> QED
    BY <1>1, <2>2, <2>4, RunTyped DEF PipeTyped
<1>3. CASE jobs[j].status # "QUEUED"
  <2>1. QueueTyped' /\ UNCHANGED run
    BY <1>3, Retained DEF Claim
  <2> QED
    BY <1>1, <2>1 DEF PipeTyped, QueueTyped
<1> QED
  BY <1>2, <1>3

\* The words of an item on its way are words.
LEMMA WordsAre ==
  ASSUME PostInv, NEW j \in Jobs, run[j].at \in {"claimed", "checked"}
  PROVE  words[ItemOf(j)] \in Words
<1>1. j[1] \in DOMAIN slots
  BY WorkerIsOn
<1> QED
  BY <1>1, SlotRows DEF PostInv, Base, Typed, ItemsTyped, ItemOf, Slot

LEMMA PreflightTyped ==
  ASSUME PostInv, PipeTyped, NEW j \in Jobs, Preflight(j)
  PROVE  PipeTyped'
<1>1. UNCHANGED <<jobs, message, deliveries, posts, astray>> /\ run[j].at = "claimed"
  BY DEF Preflight, At
<1>2. \E r : Carries(r) /\ run' = [run EXCEPT ![j] = r]
  <2>1. ASSUME NEW class, run' = [run EXCEPT ![j] = Settling(j, "FAILED", jobs[j].attempts, class)]
        PROVE  \E r : Carries(r) /\ run' = [run EXCEPT ![j] = r]
    BY <2>1, JobRow, SettlingCarries
  <2>2. ASSUME NEW w, w = IF gate THEN words[ItemOf(j)] ELSE None,
               run' = [run EXCEPT ![j] = [at |-> "checked", words |-> w]]
        PROVE  \E r : Carries(r) /\ run' = [run EXCEPT ![j] = r]
    <3>1. w \in Words \cup {None}
      BY <1>1, <2>2, WordsAre
    <3>2. PICK r : r = [at |-> "checked", words |-> w]
      OBVIOUS
    <3>3. Carries(r)
      BY <3>1, <3>2 DEF Carries
    <3> QED
      BY <2>2, <3>2, <3>3
  <2> QED
    BY <2>1, <2>2, PreflightIs, Zenon
<1>3. QueueTyped' /\ jobs' \in [Jobs -> Row] /\ posts' \in [Jobs -> Seq(Post)]
      /\ astray' \in [Jobs -> Causes \cup {None}]
  BY <1>1, QueueRests DEF PipeTyped
<1> QED
  BY <1>2, <1>3, RunTyped

\* A rollback delivers the message again, or keeps it.
LEMMA RollsBackTyped ==
  ASSUME PostInv, PipeTyped, NEW j \in Jobs, NEW cause \in Causes, NEW landed,
         RollsBack(j, cause, landed), posts' \in [Jobs -> Seq(Post)]
  PROVE  PipeTyped'
<1>1. jobs' \in [Jobs -> Row] /\ run' = [run EXCEPT ![j] = NoRun]
  BY DEF RollsBack, PipeTyped
<1>2. astray' \in [Jobs -> Causes \cup {None}]
  BY BlameTyped DEF RollsBack
<1>3. QueueTyped'
  <2>1. ASSUME deliveries[j] < MaxDeliveries, message' = [message EXCEPT ![j] = "waiting"],
               UNCHANGED deliveries
        PROVE  QueueTyped'
    <3>1. Queue(message[j], deliveries[j]) /\ deliveries' = [deliveries EXCEPT ![j] = deliveries[j]]
      BY <2>1 DEF PipeTyped
    <3>2. Queue("waiting", deliveries[j])
      BY <2>1, <3>1 DEF Queue
    <3> QED
      BY <2>1, <3>1, <3>2, QueueMoves
  <2> QED
    BY <2>1, QueueRests, Retained DEF RollsBack
<1>4. PICK r : r = NoRun /\ Carries(r)
  BY NoRunCarries
<1>5. run' = [run EXCEPT ![j] = r]
  BY <1>1, <1>4
<1> QED
  BY <1>1, <1>2, <1>3, <1>4, <1>5, RunTyped

LEMMA SendTyped ==
  ASSUME PostInv, PipeTyped, NEW j \in Jobs, Send(j)
  PROVE  PipeTyped'
<1>1. run[j].at = "checked" /\ PipeInv
  BY DEF Send, At, PostInv
<1>2. PICK received \in BOOLEAN, class \in Classes \cup {None}, landed \in BOOLEAN :
        /\ landed = (received \/ Landed(j) > 0)
        /\ class = None => received
        /\ IF received
           THEN posts' = [posts EXCEPT ![j] = Append(@,
                  [checked |-> run[j].words, sent |-> words[ItemOf(j)]])]
           ELSE UNCHANGED posts
        /\ RollsBack(j, "refused", landed) \/ AfterAnswer(j, class, landed)
  BY <1>1, SendIs, Zenon
<1>3. posts' \in [Jobs -> Seq(Post)]
  <2>1. PICK p \in Post : p = [checked |-> run[j].words, sent |-> words[ItemOf(j)]]
    <3>1. run[j].words \in Words \cup {None} /\ words[ItemOf(j)] \in Words
      BY <1>1, WordsAre DEF PipeTyped, Carries
    <3> QED
      BY <3>1 DEF Post
  <2>2. UNCHANGED posts \/ posts' = [posts EXCEPT ![j] = Append(@, p)]
    BY <1>2, <2>1
  <2>3. posts[j] \in Seq(Post) /\ Append(posts[j], p) \in Seq(Post)
    BY DEF PipeTyped
  <2> QED
    BY <2>2, <2>3 DEF PipeTyped
<1>4. CASE RollsBack(j, "refused", landed)
  BY <1>3, <1>4, RollsBackTyped DEF Causes
<1>5. CASE AfterAnswer(j, class, landed)
  <2>1. UNCHANGED <<jobs, message, deliveries>>
    BY <1>5 DEF AfterAnswer
  <2>2. astray' \in [Jobs -> Causes \cup {None}]
    <3>1. UNCHANGED astray \/ Blame(j, "misread", landed) \/ Blame(j, "missed", landed)
      BY <1>5, Zenon DEF AfterAnswer
    <3> QED
      BY <3>1, BlameTyped DEF PipeTyped, Causes
  <2>3. class = None => landed
    BY <1>2
  <2>4. PICK to, cl : run' = [run EXCEPT ![j] = Settling(j, to, jobs[j].attempts + 1, cl)]
    BY <1>1, <1>5, <2>3, AnswerIs
  <2>5. PICK n \in Nat : n = jobs[j].attempts + 1
    BY JobRow
  <2>6. Carries(Settling(j, to, n, cl))
    BY SettlingCarries
  <2>7. PICK r : r = Settling(j, to, n, cl)
    OBVIOUS
  <2>8. Carries(r) /\ run' = [run EXCEPT ![j] = r]
    BY <2>4, <2>5, <2>6, <2>7
  <2>9. QueueTyped' /\ jobs' \in [Jobs -> Row]
    BY <2>1, QueueRests DEF PipeTyped
  <2> QED
    BY <1>3, <2>2, <2>8, <2>9, RunTyped
<1> QED
  BY <1>2, <1>4, <1>5

LEMMA SettleTyped ==
  ASSUME PostInv, PipeTyped, NEW j \in Jobs, Settle(j)
  PROVE  PipeTyped'
<1>1. UNCHANGED <<posts, astray>> /\ run' = [run EXCEPT ![j] = NoRun]
  BY DEF Settle
<1>2. PICK to \in Moves, n \in 0..MaxAttempts, m \in BOOLEAN, h \in BOOLEAN, c \in 0..MaxAttempts :
        /\ to = run[j].to /\ n = run[j].attempts /\ m = run[j].manual
        /\ h = run[j].byHand /\ c = run[j].recorded
  <2>1. RunIs(j, run[j]) /\ Carries(run[j]) /\ run[j].at = "settling" /\ run[j].attempts <= MaxAttempts
    BY DEF PostInv, RunsSound, PipeTyped, Settle, At, Allows
  <2>2. run[j].to \in Moves /\ run[j].attempts \in 0..MaxAttempts
        /\ run[j].manual \in BOOLEAN /\ run[j].byHand \in BOOLEAN
    BY <2>1, PublishAssumption DEF RunIs, Carries
  <2>3. run[j].recorded \in 0..MaxAttempts
    BY <2>1, <2>2 DEF Carries
  <2> QED
    BY <2>2, <2>3
<1>3. jobs' \in [Jobs -> Row]
  <2> DEFINE row == [f \in Fields |-> IF f = "status" THEN run[j].to ELSE run[j][f]]
  <2>1. row = [status |-> to, attempts |-> n, manual |-> m, byHand |-> h, recorded |-> c]
    BY <1>2 DEF Fields
  <2>2. [status |-> to, attempts |-> n, manual |-> m, byHand |-> h, recorded |-> c] \in Row
    BY DEF Row, Moves, JobStatus
  <2>3. jobs' = [jobs EXCEPT ![j] = row]
    <3>1. DOMAIN jobs[j] = Fields
      BY DEF PostInv, PipeInv, PipeShape
    <3> QED
      BY <3>1 DEF Settle
  <2> HIDE DEF row
  <2> QED
    BY <2>1, <2>2, <2>3 DEF PipeTyped
<1>4. QueueTyped'
  BY QueueRests, Retained DEF Settle
<1>5. posts' \in [Jobs -> Seq(Post)] /\ astray' \in [Jobs -> Causes \cup {None}]
  BY <1>1 DEF PipeTyped
<1>6. PICK r : r = NoRun /\ Carries(r)
  BY NoRunCarries
<1>7. run' = [run EXCEPT ![j] = r]
  BY <1>1, <1>6
<1> QED
  BY <1>3, <1>4, <1>5, <1>6, <1>7, RunTyped

\* A cancellation, or a verification, opens a transaction.
LEMMA OpensTyped ==
  ASSUME PostInv, PipeTyped, NEW j \in Jobs, NEW to, NEW n \in Nat,
         run' = [run EXCEPT ![j] = Settling(j, to, n, None)],
         UNCHANGED <<jobs, message, deliveries, posts, astray>>
  PROVE  PipeTyped'
<1>1. PICK r : r = Settling(j, to, n, None) /\ Carries(r)
  BY SettlingCarries
<1>2. run' = [run EXCEPT ![j] = r]
  BY <1>1
<1>3. QueueTyped' /\ jobs' \in [Jobs -> Row] /\ posts' \in [Jobs -> Seq(Post)]
      /\ astray' \in [Jobs -> Causes \cup {None}]
  BY QueueRests DEF PipeTyped
<1> QED
  BY <1>1, <1>2, <1>3, RunTyped

LEMMA ClickTyped ==
  ASSUME PostInv, PipeTyped, NEW q \in Clicks, ClickQueues(q) \/ ClickPublishes(q)
  PROVE  PipeTyped'
<1>1. PICK j \in Jobs : j = clicks[q].job
  BY DEF PostInv, PipeInv, ClicksSound, ClickQueues, ClickPublishes
<1>2. CASE ClickQueues(q)
  <2>1. UNCHANGED <<run, message, deliveries, posts>>
    BY <1>2 DEF ClickQueues
  <2>2. astray' \in [Jobs -> Causes \cup {None}]
    <3>1. \/ Blame(j, "denied", clicks[q].at = "not_published")
          \/ Blame(j, "stale", Landed(j) > 0)
      BY <1>1, <1>2, Zenon DEF ClickQueues
    <3> QED
      BY <3>1, BlameTyped DEF Causes
  <2>3. jobs' \in [Jobs -> Row]
    <3>1. PICK row \in Row : row = [jobs[j] EXCEPT !.status = "QUEUED", !.attempts = 0, !.manual = FALSE]
      <4>1. jobs[j] \in Row /\ 0 \in 0..MaxAttempts
        BY JobRow, PublishAssumption
      <4> QED
        BY <4>1 DEF Row, JobStatus
    <3>2. jobs' = [jobs EXCEPT ![j] = row]
      BY <1>1, <1>2, <3>1 DEF ClickQueues, PipeTyped
    <3> QED
      BY <3>2 DEF PipeTyped
  <2> QED
    BY <2>1, <2>2, <2>3 DEF PipeTyped
<1>3. CASE ClickPublishes(q)
  <2>1. PICK n \in Nat : n = jobs[j].attempts + 1
    BY JobRow
  <2>2. /\ run' = [run EXCEPT ![j] = Settling(j, "PUBLISHED", n, None)]
        /\ UNCHANGED <<jobs, message, deliveries, posts, astray>>
    BY <1>1, <1>3, <2>1 DEF ClickPublishes
  <2> QED
    BY <2>2, OpensTyped
<1> QED
  BY <1>2, <1>3

LEMMA CancelTyped ==
  ASSUME PostInv, PipeTyped, NEW j \in Jobs, CancelJob(j)
  PROVE  PipeTyped'
<1>1. PICK n \in Nat : n = jobs[j].attempts
  BY JobRow
<1>2. /\ run' = [run EXCEPT ![j] = Settling(j, "CANCELLED", n, None)]
      /\ UNCHANGED <<jobs, message, deliveries, posts, astray>>
  BY <1>1 DEF CancelJob
<1> QED
  BY <1>2, OpensTyped

LEMMA PipeTypedStarts ==
  ASSUME PublishInit
  PROVE  PipeTyped /\ ConnsTyped
<1>1. [status |-> "NONE", attempts |-> 0, manual |-> FALSE, byHand |-> FALSE, recorded |-> 0] \in Row
  BY PublishAssumption DEF Row, JobStatus
<1>2. \A j \in Jobs : Queue(message[j], deliveries[j]) /\ Carries(run[j])
  BY NoRunCarries, PublishAssumption DEF PublishInit, Queue
<1>3. PipeTyped
  BY <1>1, <1>2, PublishAssumption DEF PublishInit, PipeTyped
<1>4. ConnsTyped
  BY PublishAssumption DEF PublishInit, ConnsTyped, ConnStatus
<1> QED
  BY <1>3, <1>4

LEMMA PipeTypedStep ==
  ASSUME PostInv, PipeTyped, [PublishNext]_vars
  PROVE  PipeTyped'
<1>1. ASSUME UNCHANGED <<jobs, run, message, deliveries, posts, astray>>
      PROVE  PipeTyped'
  BY <1>1 DEF PipeTyped
<1>2. CASE Request \/ Administer \/ UNCHANGED vars
  <2>1. UNCHANGED jobVars
    BY <1>2, AdministerLeaves DEF Request, vars, pipelineVars
  <2> QED
    BY <1>1, <2>1 DEF jobVars
<1>3. CASE Sweep
  <2>1. ASSUME NEW w, NEW s, MaterialiseReads(w, s) \/ MaterialiseAborts(w)
        PROVE  PipeTyped'
    BY <1>1, <2>1 DEF MaterialiseReads, MaterialiseAborts, jobVars
  <2> QED
    BY <1>3, <2>1, CommitTyped, MessageTyped, Zenon DEF Sweep
<1>4. ASSUME NEW j \in Jobs, Execute(j) \/ CancelJob(j) \/ Lose(j) \/ Evict(j)
      PROVE  PipeTyped'
  <2>1. CASE Refused(j) \/ Lose(j)
    <3>1. \E cause \in {"lost", "refused"} : RollsBack(j, cause, Landed(j) > 0)
      BY <2>1, Zenon DEF Refused, Lose
    <3>2. posts' \in [Jobs -> Seq(Post)]
      BY <2>1 DEF Refused, Lose, PipeTyped
    <3> QED
      BY <3>1, <3>2, RollsBackTyped DEF Causes
  <2> QED
    BY <1>4, <2>1, MessageTyped, ClaimTyped, PreflightTyped, SendTyped, SettleTyped, CancelTyped, Zenon
       DEF Execute
<1>5. ASSUME NEW q \in Clicks, Click(q)
      PROVE  PipeTyped'
  <2>1. ASSUME ClickAborts(q) \/ \E j, kind : ClickReads(q, j, kind)
        PROVE  PipeTyped'
    BY <1>1, <2>1 DEF ClickReads, ClickAborts, jobVars
  <2> QED
    BY <1>5, <2>1, ClickTyped, Zenon DEF Click
<1> QED
  BY <1>2, <1>3, <1>4, <1>5, Zenon DEF PublishNext

\* A connection takes one of its statuses.
LEMMA ConnMoves ==
  ASSUME ConnsTyped, NEW c \in Conns, NEW s \in ConnStatus,
         conn' = [conn EXCEPT ![c] = s] \/ UNCHANGED conn,
         credential' \subseteq credential \cup {c}, DOMAIN probes' = Probes,
         \A p \in Probes : probes'[p] \in {probes[p], NoRun}
  PROVE  ConnsTyped'
BY DEF ConnsTyped

LEMMA AdministerTyped ==
  ASSUME ConnsTyped, Administer
  PROVE  ConnsTyped'
<1>1. ASSUME NEW c \in Conns,
             Connect(c) \/ Disconnect(c) \/ IngestionFails(c) \/ CheckFindsNone(c)
      PROVE  ConnsTyped'
  <2>1. UNCHANGED probes /\ credential' \subseteq credential \cup {c}
    BY <1>1 DEF Connect, Disconnect, IngestionFails, CheckFindsNone
  <2>2. PICK s \in ConnStatus : conn' = [conn EXCEPT ![c] = s]
    BY <1>1 DEF Connect, Disconnect, IngestionFails, CheckFindsNone, ConnStatus
  <2> QED
    BY <2>1, <2>2, ConnMoves DEF ConnsTyped
<1>2. ASSUME NEW p \in Probes, ProbeWrites(p) \/ ProbeAborts(p)
      PROVE  ConnsTyped'
  <2>1. PICK c \in Conns : c = probes[p].conn
    BY <1>2 DEF ProbeWrites, ProbeAborts, ConnsTyped
  <2>2. /\ probes' = [probes EXCEPT ![p] = NoRun]
        /\ credential' \subseteq credential \cup {c}
    BY <1>2, <2>1 DEF ProbeWrites, ProbeAborts
  <2>3. \E s \in ConnStatus : conn' = [conn EXCEPT ![c] = s] \/ UNCHANGED conn
    BY <1>2, <2>1 DEF ProbeWrites, ProbeAborts, ConnStatus
  <2>4. DOMAIN probes' = Probes /\ \A o \in Probes : probes'[o] \in {probes[o], NoRun}
    BY <2>2 DEF ConnsTyped
  <2> QED
    BY <2>2, <2>3, <2>4, ConnMoves
<1>3. ASSUME NEW p \in Probes, NEW c \in Conns, NEW kind, ProbeReads(p, c, kind)
      PROVE  ConnsTyped'
  <2>1. PICK r : probes' = [probes EXCEPT ![p] = r] /\ r.conn = c
    <3> DEFINE r == [at |-> kind, conn |-> c, saw |-> conn[c]]
    <3>1. probes' = [probes EXCEPT ![p] = r] /\ r.conn = c
      BY <1>3 DEF ProbeReads
    <3> HIDE DEF r
    <3> QED
      BY <3>1
  <2>2. UNCHANGED <<conn, credential>>
    BY <1>3 DEF ProbeReads
  <2> QED
    BY <2>1, <2>2 DEF ConnsTyped
<1> QED
  BY <1>1, <1>2, <1>3, Zenon DEF Administer

\* Beside the requests of a connection, a worker asks for a new grant.
LEMMA ConnsTypedStep ==
  ASSUME ConnsTyped, [PublishNext]_vars
  PROVE  ConnsTyped'
<1>1. ASSUME UNCHANGED connVars PROVE ConnsTyped'
  BY <1>1 DEF connVars, ConnsTyped
<1>2. ASSUME NEW j \in Jobs, Settle(j) PROVE ConnsTyped'
  <2>1. j[2] \in Conns /\ "NEEDS_REAUTH" \in ConnStatus
    BY DEF Jobs, ConnStatus
  <2>2. UNCHANGED <<credential, probes>>
    BY <1>2 DEF Settle
  <2>3. conn' = [conn EXCEPT ![j[2]] = "NEEDS_REAUTH"] \/ UNCHANGED conn
    BY <1>2 DEF Settle
  <2> QED
    BY <2>1, <2>2, <2>3, ConnMoves DEF ConnsTyped
<1>3. CASE Request \/ Sweep \/ UNCHANGED vars
  BY <1>1, <1>3, Zenon DEF Request, Sweep, MaterialiseReads, MaterialiseCommits,
     MaterialiseAborts, Dispatch, vars, pipelineVars
<1>4. ASSUME NEW j \in Jobs, Execute(j) \/ CancelJob(j) \/ Lose(j) \/ Evict(j)
      PROVE  UNCHANGED connVars \/ Settle(j)
  <2>1. Claim(j) \/ Preflight(j) \/ CancelJob(j) \/ Evict(j) => UNCHANGED connVars
    BY Zenon DEF Claim, Preflight, CancelJob, Evict
  <2>2. Send(j) \/ Lose(j) \/ Refused(j) => UNCHANGED connVars
    BY Zenon DEF Send, Lose, Refused, RollsBack, AfterAnswer
  <2> QED
    BY <1>4, <2>1, <2>2, Zenon DEF Execute
<1>5. ASSUME NEW q \in Clicks, Click(q)
      PROVE  UNCHANGED connVars
  BY <1>5, Zenon DEF Click, ClickReads, ClickQueues, ClickPublishes, ClickAborts
<1> QED
  BY <1>1, <1>2, <1>3, <1>4, <1>5, AdministerTyped, Zenon DEF PublishNext

\* The rows, connections, messages and posts of the pipeline have their types:
\* a job's attempts and a message's deliveries stay within their bounds.
THEOREM PublishTypesHold == PublishSpec => []PublishTypeOK
<1>1. PostInv /\ PipeTyped /\ ConnsTyped => PublishTypeOK
  <2> SUFFICES ASSUME PostInv, PipeTyped, ConnsTyped PROVE PublishTypeOK
    OBVIOUS
  <2>1. TypeOK
    BY DEF PostInv, Base, Typed, ItemsTyped, ApprovalsTyped, SlotsTyped, MeterTyped, RequestsTyped, TypeOK
  <2>2. \A j \in Jobs : message[j] = "active" => run[j] # NoRun
    BY NobodysRun DEF PostInv, PipeInv, JobInv, Worker
  <2> QED
    BY <2>1, <2>2 DEF PublishTypeOK, PipeTyped, ConnsTyped, Row, Post
<1> QED
  BY <1>1, PostInvHolds, PipeTypedStarts, PipeTypedStep, ConnsTypedStep, PTL DEF PublishSpec

=============================================================================
