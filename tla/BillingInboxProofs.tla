-------------------------- MODULE BillingInboxProofs --------------------------
(***************************************************************************)
(* The inbox of billing events implements EventBook for every set of       *)
(* events, handlers and checkouts, every story and every number of faults. *)
(*                                                                         *)
(* The inductive invariant is InboxInv.  What makes the claim hold under a *)
(* lapsed lease is not the lease: it is that a row has a token exactly     *)
(* while it is PROCESSING (TokenMeansClaim), that a target's entry, once   *)
(* there, is what its row says (RowsMatchBook), and that an outcome on its *)
(* way to the inbox stays true of the books until it arrives               *)
(* (OutcomesAreTrue).  DunningInv and TypeInv, inductive with it, are what *)
(* the dunning clock and the types of the rows and requests need.          *)
(***************************************************************************)
EXTENDS BillingInbox, FiniteSetTheorems, TLAPS

Fields == {"pc", "event", "byHand", "tries", "saw", "outcome"}

\* The tables keep their rows, and their rows the fields.
Shape ==
  /\ inbox \in [Events -> [status : InboxStatuses, attempts : Nat,
                           token : Handlers \cup {None}]]
  /\ DOMAIN handler = Handlers
  /\ \A h \in Handlers : DOMAIN handler[h] = Fields
  /\ session \in [Sessions -> {"PENDING", "COMPLETED", "CANCELLED"}]
  /\ booked \in [Targets -> Seq(Events)]
  /\ attempts \subseteq Events

Busy(h) == handler[h].pc # "idle"

\* A handler at work works on an event.
BusyWithEvent == \A h \in Handlers : Busy(h) => handler[h].event \in Events

TokenMeansClaim ==
  \A e \in Events : inbox[e].status = "PROCESSING" <=> inbox[e].token # None

\* A checkout is entered exactly when it is no longer PENDING, a failed
\* payment exactly when its attempt has a row, and always for one event.
RowsMatchBook ==
  /\ \A s \in Sessions : session[s] = "PENDING" <=> booked[s] = << >>
  /\ \A e \in Events : Kind[e] = "failed" => (e \in attempts <=> booked[e] # << >>)
  /\ \A t \in Targets : booked[t] # << >> =>
       \E e \in Events \ Wrong : Target[e] = t /\ booked[t] = <<e>>

\* What an outcome says of the books.
True(e, outcome) ==
  CASE outcome = "PROCESSED"  -> Target[e] \in Targets => booked[Target[e]] = <<e>>
    [] outcome = "DUPLICATE"  -> Target[e] \in Targets => booked[Target[e]] # << >>
    [] outcome = "STALE"      -> Target[e] \notin Targets
    [] outcome = "FAILED"     -> e \in Wrong
    [] outcome \in {"UNRESOLVED", "RETRYABLE", "DEAD_LETTER"} -> TRUE
    [] OTHER                  -> FALSE

OutcomesAreTrue ==
  \A h \in Handlers :
    /\ handler[h].pc = "decided" => True(handler[h].event, handler[h].outcome)
    /\ handler[h].pc = "open" /\ Kind[handler[h].event] = "completed"
       /\ handler[h].saw = "COMPLETED" =>
         session[Target[handler[h].event]] = "COMPLETED"

InboxInv == Shape /\ BusyWithEvent /\ TokenMeansClaim /\ RowsMatchBook /\ OutcomesAreTrue

\* Every event's target, by its kind.
LEMMA TargetsByKind ==
  ASSUME NEW e \in Events
  PROVE  /\ Kind[e] \in {"completed", "cancelled"} =>
              Target[e] \in Sessions /\ Target[e] \in Targets
         /\ Kind[e] = "failed" => Target[e] = e /\ e \in Targets /\ e \notin Sessions
         /\ Kind[e] \notin {"completed", "cancelled", "failed"} => Target[e] \notin Targets
         /\ Target[e] = None \/ Target[e] \in Targets
         /\ Kind[e] \in Kinds
         /\ e \in Wrong => Kind[e] = "completed"
BY BillingAssumption DEF Targets, Kinds

LEMMA InboxInvInit == Init => InboxInv
<1> SUFFICES ASSUME Init PROVE InboxInv
  OBVIOUS
<1>1. Shape
  BY DEF Init, Shape, Fields, Idle, InboxStatuses, Claimable, Settled
<1>2. BusyWithEvent
  BY DEF Init, BusyWithEvent, Busy, Idle
<1>3. TokenMeansClaim
  BY DEF Init, TokenMeansClaim
<1>4. RowsMatchBook
  BY BillingAssumption DEF Init, RowsMatchBook, Targets
<1>5. OutcomesAreTrue
  BY DEF Init, OutcomesAreTrue, Idle
<1> QED
  BY <1>1, <1>2, <1>3, <1>4, <1>5 DEF InboxInv

-----------------------------------------------------------------------------
(* The steps. *)

\* A step that leaves the inbox and the books alone and moves one handler to
\* a record that is sound keeps the invariant.
LEMMA HandlerMoves ==
  ASSUME InboxInv, NEW h \in Handlers, UNCHANGED <<inbox, bookVars>>,
         NEW r, DOMAIN r = Fields, handler' = [handler EXCEPT ![h] = r],
         r.pc # "idle" => r.event \in Events,
         r.pc = "decided" => True(r.event, r.outcome),
         r.pc = "open" /\ Kind[r.event] = "completed" /\ r.saw = "COMPLETED" =>
           session[Target[r.event]] = "COMPLETED"
  PROVE  InboxInv'
<1>1. Shape'
  BY DEF InboxInv, Shape, bookVars
<1>2. BusyWithEvent'
  BY DEF InboxInv, Shape, BusyWithEvent, Busy
<1>3. TokenMeansClaim'
  BY DEF InboxInv, TokenMeansClaim
<1>4. RowsMatchBook'
  BY DEF InboxInv, RowsMatchBook, bookVars
<1>5. OutcomesAreTrue'
  BY DEF InboxInv, Shape, OutcomesAreTrue, True, bookVars
<1> QED
  BY <1>1, <1>2, <1>3, <1>4, <1>5 DEF InboxInv

\* The record a handler decides with.
Decided1(h, outcome) ==
  [handler[h] EXCEPT !.pc = "decided", !.saw = None, !.outcome = outcome]

LEMMA DecideMoves ==
  ASSUME Shape, NEW h \in Handlers, NEW outcome, Decide(h, outcome)
  PROVE  /\ handler' = [handler EXCEPT ![h] = Decided1(h, outcome)]
         /\ DOMAIN Decided1(h, outcome) = Fields
         /\ Decided1(h, outcome).pc = "decided"
         /\ Decided1(h, outcome).event = handler[h].event
         /\ Decided1(h, outcome).outcome = outcome
BY DEF Shape, Decide, Decided1, Fields

\* Deciding on an outcome that is true of the books.
LEMMA DecideKeeps ==
  ASSUME InboxInv, NEW h \in Handlers, NEW outcome, Decide(h, outcome), Busy(h),
         True(handler[h].event, outcome), UNCHANGED <<inbox, bookVars>>
  PROVE  InboxInv'
<1> DEFINE r == Decided1(h, outcome)
<1>1. /\ handler' = [handler EXCEPT ![h] = r]
      /\ DOMAIN r = Fields
      /\ r.pc = "decided" /\ r.event = handler[h].event /\ r.outcome = outcome
  BY DecideMoves DEF InboxInv
<1>2. r.event \in Events
  BY <1>1 DEF InboxInv, BusyWithEvent
<1> HIDE DEF r
<1> QED
  BY <1>1, <1>2, HandlerMoves

\* A step of anything else.
LEMMA NothingMoves ==
  ASSUME InboxInv, UNCHANGED <<inbox, handler, bookVars>>
  PROVE  InboxInv'
BY DEF InboxInv, Shape, BusyWithEvent, Busy, TokenMeansClaim, RowsMatchBook,
       OutcomesAreTrue, True, bookVars

LEMMA ReceiveKeeps ==
  ASSUME InboxInv, NEW h \in Handlers, NEW e \in Events, Receive(h, e)
  PROVE  InboxInv'
<1>1. CASE inbox[e].status \in Settled
  BY <1>1, NothingMoves DEF Receive
<1>2. CASE inbox[e].status \notin Settled
  <2> DEFINE r == [Idle EXCEPT !.pc = "recorded", !.event = e]
             status == IF inbox[e].status = "NONE" THEN "RECEIVED" ELSE inbox[e].status
  <2>1. /\ inbox' = [inbox EXCEPT ![e].status = status]
        /\ handler' = [handler EXCEPT ![h] = r]
        /\ UNCHANGED bookVars
    BY <1>2 DEF Receive
  <2>2. DOMAIN r = Fields /\ r.pc = "recorded" /\ r.event = e
    BY DEF Idle, Fields
  <2>3. /\ status \in InboxStatuses
        /\ (status = "PROCESSING") <=> (inbox[e].status = "PROCESSING")
    BY DEF InboxInv, Shape, InboxStatuses, Claimable, Settled
  <2> HIDE DEF r, status
  <2>4. Shape'
    BY <2>1, <2>2, <2>3 DEF InboxInv, Shape, bookVars
  <2>5. BusyWithEvent'
    BY <2>1, <2>2 DEF InboxInv, Shape, BusyWithEvent, Busy
  <2>6. TokenMeansClaim'
    BY <2>1, <2>3 DEF InboxInv, Shape, TokenMeansClaim
  <2>7. RowsMatchBook'
    BY <2>1 DEF InboxInv, RowsMatchBook, bookVars
  <2>8. OutcomesAreTrue'
    BY <2>1, <2>2 DEF InboxInv, Shape, OutcomesAreTrue, True, bookVars
  <2> QED
    BY <2>4, <2>5, <2>6, <2>7, <2>8 DEF InboxInv
<1> QED
  BY <1>1, <1>2

LEMMA ReplayKeeps ==
  ASSUME InboxInv, NEW h \in Handlers, NEW e \in Events, Replay(h, e)
  PROVE  InboxInv'
<1> DEFINE r == [Idle EXCEPT !.pc = "recorded", !.event = e, !.byHand = TRUE]
           row == [status |-> "RECEIVED", attempts |-> 0, token |-> None]
<1>1. /\ inbox' = [inbox EXCEPT ![e] = row]
      /\ handler' = [handler EXCEPT ![h] = r]
      /\ UNCHANGED bookVars
  BY DEF Replay
<1>2. DOMAIN r = Fields /\ r.pc = "recorded" /\ r.event = e
  BY DEF Idle, Fields
<1>3. /\ row \in [status : InboxStatuses, attempts : Nat, token : Handlers \cup {None}]
      /\ row.status = "RECEIVED" /\ row.token = None
  BY DEF InboxStatuses, Claimable
<1> HIDE DEF r, row
<1>4. Shape'
  BY <1>1, <1>2, <1>3 DEF InboxInv, Shape, bookVars
<1>5. BusyWithEvent'
  BY <1>1, <1>2 DEF InboxInv, Shape, BusyWithEvent, Busy
<1>6. TokenMeansClaim'
  BY <1>1, <1>3 DEF InboxInv, Shape, TokenMeansClaim
<1>7. RowsMatchBook'
  BY <1>1 DEF InboxInv, RowsMatchBook, bookVars
<1>8. OutcomesAreTrue'
  BY <1>1, <1>2 DEF InboxInv, Shape, OutcomesAreTrue, True, bookVars
<1> QED
  BY <1>4, <1>5, <1>6, <1>7, <1>8 DEF InboxInv

LEMMA ClaimKeeps ==
  ASSUME InboxInv, NEW h \in Handlers, Claim(h)
  PROVE  InboxInv'
<1> DEFINE e == handler[h].event
<1>1. e \in Events /\ handler[h].pc = "recorded"
  BY DEF InboxInv, BusyWithEvent, Busy, Claim
<1>2. CASE MayClaim(e)
  <2> DEFINE r == [handler[h] EXCEPT !.pc = "claimed", !.tries = Spent(inbox[e].attempts)]
             row == [status |-> "PROCESSING", attempts |-> Spent(inbox[e].attempts), token |-> h]
  <2>1. /\ inbox' = [inbox EXCEPT ![e] = row]
        /\ handler' = [handler EXCEPT ![h] = r]
        /\ UNCHANGED bookVars
    BY <1>2 DEF Claim, InboxInv, Shape
  <2>2. DOMAIN r = Fields /\ r.pc = "claimed" /\ r.event = e
    BY DEF InboxInv, Shape, Fields
  <2>3. /\ row \in [status : InboxStatuses, attempts : Nat, token : Handlers \cup {None}]
        /\ row.status = "PROCESSING" /\ row.token # None
    BY <1>1, BillingAssumption DEF InboxInv, Shape, InboxStatuses, Spent
  <2> HIDE DEF r, row, e
  <2>4. Shape'
    BY <1>1, <2>1, <2>2, <2>3 DEF InboxInv, Shape, bookVars
  <2>5. BusyWithEvent'
    BY <1>1, <2>1, <2>2 DEF InboxInv, Shape, BusyWithEvent, Busy
  <2>6. TokenMeansClaim'
    BY <1>1, <2>1, <2>3 DEF InboxInv, Shape, TokenMeansClaim
  <2>7. RowsMatchBook'
    BY <2>1 DEF InboxInv, RowsMatchBook, bookVars
  <2>8. OutcomesAreTrue'
    BY <2>1, <2>2 DEF InboxInv, Shape, OutcomesAreTrue, True, bookVars
  <2> QED
    BY <2>4, <2>5, <2>6, <2>7, <2>8 DEF InboxInv
<1>3. CASE ~MayClaim(e)
  <2>1. /\ handler' = [handler EXCEPT ![h] = Idle]
        /\ UNCHANGED <<inbox, bookVars>>
    BY <1>3 DEF Claim
  <2>2. DOMAIN Idle = Fields /\ Idle.pc = "idle"
    BY DEF Idle, Fields
  <2> QED
    BY <2>1, <2>2, HandlerMoves
<1> QED
  BY <1>2, <1>3

LEMMA OpenKeeps ==
  ASSUME InboxInv, NEW h \in Handlers, Open(h)
  PROVE  InboxInv'
<1> DEFINE e == handler[h].event
<1>1. e \in Events /\ Busy(h)
  BY DEF InboxInv, BusyWithEvent, Busy, Open
<1>2. CASE e \in mapped
  <2> DEFINE r == [handler[h] EXCEPT !.pc = "open", !.saw = Seen(e)]
  <2>1. /\ handler' = [handler EXCEPT ![h] = r]
        /\ UNCHANGED <<inbox, bookVars>>
    BY <1>2 DEF Open, InboxInv, Shape, inboxVars
  <2>2. DOMAIN r = Fields /\ r.pc = "open" /\ r.event = e /\ r.saw = Seen(e)
    BY DEF InboxInv, Shape, Fields
  <2>3. Kind[e] = "completed" => Seen(e) = session[Target[e]]
    BY DEF Seen
  <2> HIDE DEF r, e
  <2> QED
    BY <1>1, <2>1, <2>2, <2>3, HandlerMoves
<1>3. CASE e \notin mapped
  <2>1. Decide(h, "UNRESOLVED") /\ UNCHANGED <<inbox, bookVars>>
    BY <1>3 DEF Open, inboxVars
  <2> QED
    BY <1>1, <2>1, DecideKeeps DEF True
<1> QED
  BY <1>2, <1>3

\* A handler whose transaction is open works on an event of one of its kinds.
LEMMA CommitsBusy ==
  ASSUME InboxInv, NEW h \in Handlers, NEW kinds, Commits(h, kinds)
  PROVE  Busy(h) /\ handler[h].event \in Events /\ Kind[handler[h].event] \in kinds
BY DEF InboxInv, BusyWithEvent, Busy, Commits

\* The rows a settlement writes beside its entry in the books.
Rows(e) ==
  \/ /\ Kind[e] \in {"completed", "cancelled"}
     /\ \E status \in {"COMPLETED", "CANCELLED"} :
          session' = [session EXCEPT ![Target[e]] = status]
     /\ attempts' \in {attempts, attempts \cup {e}}
  \/ /\ Kind[e] = "failed"
     /\ UNCHANGED session
     /\ attempts' = attempts \cup {e}

\* A settlement that finds its target free enters its event.
LEMMA EnterKeeps ==
  ASSUME InboxInv, NEW h \in Handlers, NEW e \in Events \ Wrong,
         handler[h].event = e, Target[e] \in Targets, booked[Target[e]] = << >>,
         Book(e), Rows(e), Decide(h, "PROCESSED"), UNCHANGED inbox
  PROVE  InboxInv' /\ booked'[Target[e]] = <<e>>
<1> DEFINE r == Decided1(h, "PROCESSED")
<1>1. /\ handler' = [handler EXCEPT ![h] = r]
      /\ DOMAIN r = Fields
      /\ r.pc = "decided" /\ r.event = e /\ r.outcome = "PROCESSED"
  BY DecideMoves DEF InboxInv
<1>2. /\ booked' \in [Targets -> Seq(Events)]
      /\ booked'[Target[e]] = <<e>>
      /\ \A t \in Targets \ {Target[e]} : booked'[t] = booked[t]
  BY DEF Book, InboxInv, Shape
<1>3. \A t \in Targets : booked[t] # << >> => booked'[t] = booked[t]
  BY <1>2
<1>4. \A s \in Sessions : session[s] = "COMPLETED" => session'[s] = "COMPLETED"
  <2>1. \A s \in Sessions : session[s] = "COMPLETED" => booked[s] # << >>
    BY DEF InboxInv, RowsMatchBook
  <2> QED
    BY <2>1, TargetsByKind DEF Rows, InboxInv, Shape
<1> HIDE DEF r
<1>5. Shape'
  BY <1>1, <1>2, TargetsByKind DEF InboxInv, Shape, Rows
<1>6. BusyWithEvent'
  BY <1>1 DEF InboxInv, Shape, BusyWithEvent, Busy
<1>7. TokenMeansClaim'
  BY DEF InboxInv, TokenMeansClaim
<1>8. RowsMatchBook'
  <2>0. booked'[Target[e]] # << >>
    BY <1>2
  <2>1. ASSUME NEW s \in Sessions
        PROVE  session'[s] = "PENDING" <=> booked'[s] = << >>
    <3>0. s \in Targets /\ (session[s] = "PENDING" <=> booked[s] = << >>)
      BY DEF InboxInv, RowsMatchBook, Targets
    <3>1. CASE s = Target[e]
      <4>1. Kind[e] # "failed"
        BY <3>1, TargetsByKind
      <4> QED
        BY <2>0, <3>1, <4>1 DEF Rows, InboxInv, Shape
    <3>2. CASE s # Target[e]
      <4>1. booked'[s] = booked[s]
        BY <1>2, <3>0, <3>2
      <4>2. session'[s] = session[s]
        BY <3>2 DEF Rows, InboxInv, Shape
      <4> QED
        BY <3>0, <4>1, <4>2
    <3> QED
      BY <3>1, <3>2
  <2>2. ASSUME NEW f \in Events, Kind[f] = "failed"
        PROVE  f \in attempts' <=> booked'[f] # << >>
    <3>0. f \in Targets /\ (f \in attempts <=> booked[f] # << >>)
      BY <2>2, TargetsByKind DEF InboxInv, RowsMatchBook
    <3>1. CASE Kind[e] = "failed"
      <4>1. Target[e] = e
        BY <3>1, TargetsByKind
      <4>2. attempts' = attempts \cup {e}
        BY <3>1 DEF Rows
      <4> QED
        BY <1>2, <2>0, <3>0, <4>1, <4>2
    <3>2. CASE Kind[e] # "failed"
      <4>1. Target[e] \in Sessions /\ f \notin Sessions
        BY <2>2, <3>2, TargetsByKind DEF Rows
      <4>2. attempts' \in {attempts, attempts \cup {e}} /\ f # e
        BY <2>2, <3>2 DEF Rows
      <4> QED
        BY <1>2, <3>0, <4>1, <4>2
    <3> QED
      BY <3>1, <3>2
  <2>3. \A t \in Targets : booked'[t] # << >> =>
           \E f \in Events \ Wrong : Target[f] = t /\ booked'[t] = <<f>>
    BY <1>2 DEF InboxInv, RowsMatchBook
  <2> QED
    BY <2>1, <2>2, <2>3 DEF RowsMatchBook
<1>9. OutcomesAreTrue'
  <2> SUFFICES ASSUME NEW g \in Handlers
               PROVE  /\ handler'[g].pc = "decided" =>
                           True(handler[g].event, handler[g].outcome)'
                      /\ handler'[g].pc = "open" /\ Kind[handler'[g].event] = "completed"
                         /\ handler'[g].saw = "COMPLETED" =>
                           session'[Target[handler'[g].event]] = "COMPLETED"
    BY DEF OutcomesAreTrue
  <2>1. CASE g = h
    BY <1>1, <1>2, <2>1 DEF InboxInv, Shape, True
  <2>2. CASE g # h
    <3>1. handler'[g] = handler[g]
      BY <1>1, <2>2 DEF InboxInv, Shape
    <3>2. handler[g].pc = "decided" => True(handler[g].event, handler[g].outcome)'
      BY <1>3, <3>1 DEF InboxInv, OutcomesAreTrue, True
    <3>3. handler[g].pc = "open" => handler[g].event \in Events
      BY DEF InboxInv, BusyWithEvent, Busy
    <3> QED
      BY <1>4, <3>1, <3>2, <3>3, TargetsByKind DEF InboxInv, OutcomesAreTrue
  <2> QED
    BY <2>1, <2>2
<1> QED
  BY <1>2, <1>5, <1>6, <1>7, <1>8, <1>9 DEF InboxInv

\* What a settlement that enters its event does; the others decide on an
\* outcome that is true of the books and write none of them.
Enters(h) ==
  LET e == handler[h].event IN
  /\ e \in Events \ Wrong /\ Target[e] \in Targets
  /\ booked[Target[e]] = << >>
  /\ Book(e) /\ Rows(e) /\ Decide(h, "PROCESSED")

DecidesOnly(h) ==
  /\ UNCHANGED bookVars
  /\ \E outcome : True(handler[h].event, outcome) /\ Decide(h, outcome)

LEMMA SettleEnters ==
  ASSUME InboxInv, NEW h \in Handlers, Settle(h)
  PROVE  Busy(h) /\ UNCHANGED inbox /\ (Enters(h) \/ DecidesOnly(h))
<1> DEFINE e == handler[h].event
           t == Target[e]
<1>1. CASE CheckoutCompleted(h)
  <2>1. Busy(h) /\ e \in Events /\ Kind[e] = "completed" /\ handler[h].pc = "open"
    BY <1>1, CommitsBusy DEF CheckoutCompleted, Commits
  <2>2. UNCHANGED inbox
    BY <1>1 DEF CheckoutCompleted, inboxVars
  <2>3. t \in Sessions /\ t \in Targets
    BY <2>1, TargetsByKind
  <2>4. session[t] = "PENDING" <=> booked[t] = << >>
    BY <2>3 DEF InboxInv, RowsMatchBook
  <2>5. CASE handler[h].saw # "COMPLETED" /\ e \notin Wrong /\ StillPending(t)
    <3>1. /\ session' = [session EXCEPT ![t] = "COMPLETED"]
          /\ Book(e) /\ Decide(h, "PROCESSED")
          /\ attempts' \in {attempts, attempts \cup {e}}
      BY <1>1, <2>5 DEF CheckoutCompleted
    <3>2. Rows(e)
      BY <2>1, <3>1 DEF Rows
    <3> QED
      BY <2>1, <2>2, <2>3, <2>4, <2>5, <3>1, <3>2 DEF Enters, StillPending
  <2>6. CASE handler[h].saw # "COMPLETED" /\ e \in Wrong
    <3>1. Decide(h, "FAILED") /\ UNCHANGED bookVars
      BY <1>1, <2>6 DEF CheckoutCompleted, StillPending
    <3> QED
      BY <2>1, <2>2, <2>6, <3>1 DEF DecidesOnly, True
  <2>7. CASE \/ handler[h].saw = "COMPLETED"
             \/ e \notin Wrong /\ ~StillPending(t)
    <3>1. Decide(h, "DUPLICATE") /\ UNCHANGED bookVars
      BY <1>1, <2>7 DEF CheckoutCompleted, StillPending
    <3>2. booked[t] # << >>
      BY <2>1, <2>4, <2>7 DEF InboxInv, OutcomesAreTrue, StillPending
    <3> QED
      BY <2>1, <2>2, <3>1, <3>2 DEF DecidesOnly, True
  <2> QED
    BY <2>5, <2>6, <2>7
<1>2. CASE CheckoutCancelled(h)
  <2>1. Busy(h) /\ e \in Events /\ Kind[e] = "cancelled" /\ e \notin Wrong
    BY <1>2, CommitsBusy, TargetsByKind DEF CheckoutCancelled
  <2>2. UNCHANGED inbox
    BY <1>2 DEF CheckoutCancelled, inboxVars
  <2>3. t \in Sessions /\ t \in Targets
    BY <2>1, TargetsByKind
  <2>4. session[t] = "PENDING" <=> booked[t] = << >>
    BY <2>3 DEF InboxInv, RowsMatchBook
  <2>5. CASE StillPending(t)
    <3>1. /\ session' = [session EXCEPT ![t] = "CANCELLED"]
          /\ Book(e) /\ Decide(h, "PROCESSED") /\ UNCHANGED attempts
      BY <1>2, <2>5 DEF CheckoutCancelled
    <3>2. Rows(e)
      BY <2>1, <3>1 DEF Rows
    <3> QED
      BY <2>1, <2>2, <2>3, <2>4, <2>5, <3>1, <3>2 DEF Enters, StillPending
  <2>6. CASE ~StillPending(t)
    <3>1. Decide(h, "DUPLICATE") /\ UNCHANGED bookVars
      BY <1>2, <2>6 DEF CheckoutCancelled, bookVars
    <3> QED
      BY <2>1, <2>2, <2>4, <2>6, <3>1 DEF DecidesOnly, True, StillPending
  <2> QED
    BY <2>5, <2>6
<1>3. CASE PaymentFailed(h)
  <2>1. Busy(h) /\ e \in Events /\ Kind[e] = "failed" /\ e \notin Wrong
    <3>1. Commits(h, {"failed"})
      BY <1>3 DEF PaymentFailed
    <3> QED
      BY <3>1, CommitsBusy, TargetsByKind
  <2>2. UNCHANGED inbox
    BY <1>3 DEF PaymentFailed, inboxVars
  <2>3. t = e /\ t \in Targets
    BY <2>1, TargetsByKind
  <2>4. e \in attempts <=> booked[t] # << >>
    BY <2>1, <2>3 DEF InboxInv, RowsMatchBook
  <2>5. CASE e \notin attempts
    <3>1. /\ attempts' = attempts \cup {e} /\ UNCHANGED session
          /\ Book(e) /\ Decide(h, "PROCESSED")
      BY <1>3, <2>5 DEF PaymentFailed, AttemptExists
    <3>2. Rows(e)
      BY <2>1, <3>1 DEF Rows
    <3> QED
      BY <2>1, <2>2, <2>3, <2>4, <2>5, <3>1, <3>2 DEF Enters
  <2>6. CASE e \in attempts
    <3>1. Decide(h, Unapplied(h)) /\ UNCHANGED bookVars
      BY <1>3, <2>6 DEF PaymentFailed, AttemptExists, bookVars
    <3>2. True(e, Unapplied(h))
      BY DEF True, Unapplied
    <3> QED
      BY <2>1, <2>2, <3>1, <3>2 DEF DecidesOnly
  <2> QED
    BY <2>5, <2>6
<1>4. CASE InvoicePaid(h)
  <2>1. Busy(h) /\ UNCHANGED <<inbox, bookVars>> /\ Decide(h, "UNRESOLVED")
    BY <1>4, CommitsBusy DEF InvoicePaid, inboxVars
  <2> QED
    BY <2>1 DEF DecidesOnly, True
<1>5. CASE SubscriptionEvent(h)
  <2>1. Busy(h) /\ e \in Events /\ Kind[e] \in {"updated", "ended"}
    BY <1>5, CommitsBusy DEF SubscriptionEvent
  <2>2. /\ UNCHANGED <<inbox, bookVars>>
        /\ Decide(h, "STALE") \/ Decide(h, "PROCESSED")
    BY <1>5 DEF SubscriptionEvent, inboxVars
  <2>3. t \notin Targets
    BY <2>1, TargetsByKind
  <2> QED
    BY <2>1, <2>2, <2>3 DEF DecidesOnly, True
<1>6. CASE ChargeRefunded(h)
  <2>1. Busy(h) /\ e \in Events /\ Kind[e] = "refunded"
    BY <1>6, CommitsBusy DEF ChargeRefunded
  <2>2. UNCHANGED <<inbox, bookVars>> /\ Decide(h, "PROCESSED")
    BY <1>6 DEF ChargeRefunded, inboxVars
  <2>3. t \notin Targets
    BY <2>1, TargetsByKind
  <2> QED
    BY <2>1, <2>2, <2>3 DEF DecidesOnly, True
<1> QED
  BY <1>1, <1>2, <1>3, <1>4, <1>5, <1>6 DEF Settle

LEMMA SettleKeeps ==
  ASSUME InboxInv, NEW h \in Handlers, Settle(h)
  PROVE  InboxInv'
<1>1. Busy(h) /\ UNCHANGED inbox /\ (Enters(h) \/ DecidesOnly(h))
  BY SettleEnters
<1>2. CASE Enters(h)
  BY <1>1, <1>2, EnterKeeps DEF Enters
<1>3. CASE DecidesOnly(h)
  <2>1. PICK outcome : True(handler[h].event, outcome) /\ Decide(h, outcome)
    BY <1>3 DEF DecidesOnly
  <2> QED
    BY <1>1, <1>3, <2>1, DecideKeeps DEF DecidesOnly
<1> QED
  BY <1>1, <1>2, <1>3

LEMMA TransactionFailsKeeps ==
  ASSUME InboxInv, NEW h \in Handlers, TransactionFails(h)
  PROVE  InboxInv'
<1>1. Decide(h, Unapplied(h)) /\ Busy(h) /\ UNCHANGED <<inbox, bookVars>>
  BY DEF TransactionFails, Busy, inboxVars
<1>2. True(handler[h].event, Unapplied(h))
  BY DEF True, Unapplied
<1> QED
  BY <1>1, <1>2, DecideKeeps

\* What #release may write is a status of the inbox that holds no claim.
LEMMA TrueIsSettled ==
  ASSUME NEW e, NEW outcome, True(e, outcome)
  PROVE  outcome \in Settled \cup {"RETRYABLE"}
BY DEF True, Settled

LEMMA ReleaseKeeps ==
  ASSUME InboxInv, NEW h \in Handlers, Release(h)
  PROVE  InboxInv'
<1> DEFINE e == handler[h].event
           outcome == handler[h].outcome
<1>1. /\ e \in Events /\ outcome \in Settled \cup {"RETRYABLE"}
      /\ UNCHANGED bookVars /\ handler' = [handler EXCEPT ![h] = Idle]
  BY TrueIsSettled DEF InboxInv, BusyWithEvent, Busy, OutcomesAreTrue, Release
<1>2. DOMAIN Idle = Fields /\ Idle.pc = "idle"
  BY DEF Idle, Fields
<1>3. CASE ~HoldsClaim(h)
  <2>1. UNCHANGED inbox
    BY <1>3 DEF Release
  <2> QED
    BY <1>1, <1>2, <2>1, HandlerMoves
<1>4. CASE HoldsClaim(h)
  <2>1. inbox' = [inbox EXCEPT ![e].status = outcome, ![e].token = None]
    BY <1>4 DEF Release
  <2>2. outcome \in InboxStatuses /\ outcome # "PROCESSING"
    BY <1>1 DEF InboxStatuses, Claimable, Settled
  <2> HIDE DEF e, outcome
  <2>3. Shape'
    BY <1>1, <1>2, <2>1, <2>2 DEF InboxInv, Shape, bookVars
  <2>4. BusyWithEvent'
    BY <1>1, <1>2 DEF InboxInv, Shape, BusyWithEvent, Busy
  <2>5. TokenMeansClaim'
    BY <1>1, <2>1, <2>2 DEF InboxInv, Shape, TokenMeansClaim
  <2>6. RowsMatchBook'
    BY <1>1 DEF InboxInv, RowsMatchBook, bookVars
  <2>7. OutcomesAreTrue'
    BY <1>1, <1>2 DEF InboxInv, Shape, OutcomesAreTrue, True, bookVars
  <2> QED
    BY <2>3, <2>4, <2>5, <2>6, <2>7 DEF InboxInv
<1> QED
  BY <1>3, <1>4

LEMMA CrashKeeps ==
  ASSUME InboxInv, NEW h \in Handlers, Crash(h)
  PROVE  InboxInv'
<1>1. /\ handler' = [handler EXCEPT ![h] = Idle]
      /\ UNCHANGED <<inbox, bookVars>>
  BY DEF Crash, inboxVars
<1>2. DOMAIN Idle = Fields /\ Idle.pc = "idle"
  BY DEF Idle, Fields
<1> QED
  BY <1>1, <1>2, HandlerMoves

\* The steps that leave the inbox, the requests and the books alone.
LEMMA OthersMoveNothing ==
  ASSUME \/ \E e \in Events : LeaseLapses(e) \/ MapWorkspace(e)
         \/ \E pass \in {"dunning", "cycle"} : Lists(pass)
         \/ DunningReads \/ DunningWrites \/ CycleReads \/ CycleWrites
         \/ UNCHANGED vars
  PROVE  UNCHANGED <<inbox, handler, bookVars>>
BY DEF LeaseLapses, MapWorkspace, Lists, DunningReads, DunningWrites, CycleReads, CycleWrites,
       vars, inboxVars

LEMMA InboxInvStep ==
  ASSUME InboxInv, [Next]_vars
  PROVE  InboxInv'
<1>1. ASSUME NEW h \in Handlers, NEW e \in Events, Receive(h, e) \/ Replay(h, e)
      PROVE  InboxInv'
  BY <1>1, ReceiveKeeps, ReplayKeeps
<1>2. ASSUME NEW h \in Handlers, Claim(h) \/ Open(h) \/ Release(h) \/ Crash(h)
      PROVE  InboxInv'
  BY <1>2, ClaimKeeps, OpenKeeps, ReleaseKeeps, CrashKeeps
<1>3. ASSUME NEW h \in Handlers, Settle(h) \/ TransactionFails(h)
      PROVE  InboxInv'
  BY <1>3, SettleKeeps, TransactionFailsKeeps
<1>4. CASE \/ \E e \in Events : LeaseLapses(e) \/ MapWorkspace(e)
           \/ \E pass \in {"dunning", "cycle"} : Lists(pass)
           \/ DunningReads \/ DunningWrites \/ CycleReads \/ CycleWrites
           \/ UNCHANGED vars
  BY <1>4, OthersMoveNothing, NothingMoves
<1> QED
  BY <1>1, <1>2, <1>3, <1>4 DEF Next

\* The inbox, the requests and the books agree in every reachable state.
THEOREM InboxInvHolds == Spec => []InboxInv
<1>1. Init => InboxInv
  BY InboxInvInit
<1>2. InboxInv /\ [Next]_vars => InboxInv'
  BY InboxInvStep
<1> QED
  BY <1>1, <1>2, PTL DEF Spec

-----------------------------------------------------------------------------
(* The refinement. *)

Entry(t) == IF booked[t] = << >> THEN None
            ELSE IF Len(booked[t]) = 1 THEN booked[t][1] ELSE "twice"

BookView == [t \in Targets |-> Entry(t)]

VerdictView == [e \in Events |-> Verdict(inbox[e].status)]

\* The target of an event has its event in the abstract book exactly when it
\* is booked once for it, and nothing exactly when it is not booked.
LEMMA EntryOfTarget ==
  ASSUME InboxInv, NEW t \in Targets
  PROVE  /\ Entry(t) = None <=> booked[t] = << >>
         /\ \A e \in Events : booked[t] = <<e>> => Entry(t) = e
<1>1. \A e \in Events : e # None /\ <<e>> # << >> /\ Len(<<e>>) = 1 /\ <<e>>[1] = e
  BY BillingAssumption
<1>2. \A e \in Events : booked[t] = <<e>> => Entry(t) = e
  BY <1>1 DEF Entry
<1>3. booked[t] # << >> => \E e \in Events : booked[t] = <<e>>
  BY DEF InboxInv, RowsMatchBook
<1> QED
  BY <1>1, <1>2, <1>3 DEF Entry

LEMMA BooksInit == Init => Books!Init
BY DEF Init, Books!Init, Verdict

\* What leaves the books and the verdicts alone is a stutter of EventBook.
LEMMA BooksStutter ==
  ASSUME UNCHANGED <<BookView, VerdictView>>
  PROVE  UNCHANGED Books!vars
BY DEF Books!vars, BookView, VerdictView, Entry

LEMMA BookViewKept ==
  ASSUME UNCHANGED booked
  PROVE  UNCHANGED BookView
BY DEF BookView, Entry

LEMMA VerdictViewKept ==
  ASSUME UNCHANGED inbox
  PROVE  UNCHANGED VerdictView
BY DEF VerdictView

\* A row that moves between undecided statuses.
LEMMA StaysOpen ==
  ASSUME InboxInv, NEW e \in Events, NEW row, inbox' = [inbox EXCEPT ![e] = row],
         Verdict(row.status) = Verdict(inbox[e].status)
  PROVE  UNCHANGED VerdictView
BY DEF InboxInv, Shape, VerdictView

LEMMA SettleRefines ==
  ASSUME InboxInv, NEW h \in Handlers, Settle(h)
  PROVE  Books!Next \/ UNCHANGED Books!vars
<1>1. UNCHANGED inbox /\ Busy(h) /\ (Enters(h) \/ DecidesOnly(h))
  BY SettleEnters
<1>e. PICK e \in Events : handler[h].event = e
  BY <1>1 DEF InboxInv, BusyWithEvent
<1> DEFINE t == Target[e]
<1>2. CASE DecidesOnly(h)
  BY <1>1, <1>2, BookViewKept, VerdictViewKept, BooksStutter DEF DecidesOnly, bookVars
<1>3. CASE Enters(h)
  <2>1. e \in Events /\ e \notin Wrong /\ t \in Targets /\ booked[t] = << >> /\ Book(e)
    BY <1>3, <1>e DEF Enters
  <2>2. InboxInv' /\ booked'[t] = <<e>>
    BY <1>1, <1>3, <1>e, EnterKeeps DEF Enters
  <2>3. Entry(t) = None
    BY <2>1, EntryOfTarget
  <2>4. Entry(t)' = e
    BY <2>1, <2>2 DEF Entry
  <2>5. \A u \in Targets \ {t} : booked'[u] = booked[u]
    BY <2>1 DEF Book, InboxInv, Shape
  <2>6. \A u \in Targets \ {t} : Entry(u)' = Entry(u)
    BY <2>5 DEF Entry
  <2>7. BookView' = [BookView EXCEPT ![t] = e]
    BY <2>1, <2>4, <2>6 DEF BookView
  <2>8. BookView[t] = None
    BY <2>1, <2>3 DEF BookView
  <2>9. UNCHANGED VerdictView
    BY <1>1, VerdictViewKept
  <2>10. Books!Enter(e)
    BY <2>1, <2>7, <2>8, <2>9 DEF Books!Enter, BookView, VerdictView, Entry
  <2> QED
    BY <2>1, <2>10 DEF Books!Next
<1> QED
  BY <1>1, <1>2, <1>3

LEMMA ReleaseRefines ==
  ASSUME InboxInv, NEW h \in Handlers, Release(h)
  PROVE  Books!Next \/ UNCHANGED Books!vars
<1> DEFINE e == handler[h].event
           t == Target[e]
           outcome == handler[h].outcome
<1>1. e \in Events /\ True(e, outcome) /\ UNCHANGED BookView
  BY BookViewKept DEF InboxInv, BusyWithEvent, Busy, OutcomesAreTrue, Release, bookVars
<1>2. CASE ~HoldsClaim(h)
  BY <1>1, <1>2, VerdictViewKept, BooksStutter DEF Release
<1>3. CASE HoldsClaim(h)
  <2>1. inbox' = [inbox EXCEPT ![e].status = outcome, ![e].token = None]
    BY <1>3 DEF Release
  <2>2. inbox[e].status = "PROCESSING"
    BY <1>1, <1>3, BillingAssumption DEF HoldsClaim, InboxInv, TokenMeansClaim
  <2>3. inbox'[e].status = outcome /\ \A f \in Events \ {e} : inbox'[f] = inbox[f]
    BY <1>1, <2>1 DEF InboxInv, Shape
  <2>4. VerdictView' = [VerdictView EXCEPT ![e] = Verdict(outcome)]
    BY <1>1, <2>3 DEF VerdictView
  <2>5. VerdictView[e] = "open"
    BY <1>1, <2>2 DEF VerdictView, Verdict
  <2>6. CASE outcome = "RETRYABLE"
    <3>1. UNCHANGED VerdictView
      BY <1>1, <2>4, <2>5, <2>6 DEF Verdict, VerdictView
    <3> QED
      BY <1>1, <3>1, BooksStutter
  <2>7. CASE outcome # "RETRYABLE"
    <3>1. t \in Targets => /\ outcome = "PROCESSED" => BookView[t] = e
                           /\ outcome = "DUPLICATE" => BookView[t] # None
                           /\ outcome # "STALE"
      BY <1>1, EntryOfTarget DEF True, BookView
    <3>2. /\ Verdict(outcome) = "done" => outcome = "PROCESSED"
          /\ Verdict(outcome) = "void" => outcome \in {"DUPLICATE", "STALE"}
          /\ Verdict(outcome) = "refused" => e \in Wrong
          /\ Verdict(outcome) \in {"done", "void", "refused", "parked"}
      BY <1>1, <2>7 DEF True, Verdict
    <3>3. Books!May(e, Verdict(outcome))
      BY <3>1, <3>2 DEF Books!May, BookView, Entry
    <3>4. Verdict(outcome) \in Books!Verdicts
      BY <3>2 DEF Books!Verdicts
    <3>5. Books!Decide(e)
      BY <1>1, <2>4, <2>5, <3>3, <3>4 DEF Books!Decide, BookView, VerdictView, Entry
    <3> QED
      BY <1>1, <3>5 DEF Books!Next
  <2> QED
    BY <2>6, <2>7
<1> QED
  BY <1>2, <1>3

LEMMA ReplayRefines ==
  ASSUME InboxInv, NEW h \in Handlers, NEW e \in Events, Replay(h, e)
  PROVE  Books!Next \/ UNCHANGED Books!vars
<1> DEFINE row == [status |-> "RECEIVED", attempts |-> 0, token |-> None]
<1>1. /\ inbox' = [inbox EXCEPT ![e] = row] /\ UNCHANGED BookView
      /\ row.status = "RECEIVED" /\ inbox[e].status \in Replayable
  BY BookViewKept DEF Replay, bookVars
<1> HIDE DEF row
<1>2. CASE inbox[e].status \in {"RETRYABLE", "RECEIVED"}
  <2>1. Verdict(row.status) = Verdict(inbox[e].status)
    BY <1>1, <1>2 DEF Verdict
  <2> QED
    BY <1>1, <2>1, StaysOpen, BooksStutter
<1>3. CASE inbox[e].status \in {"DEAD_LETTER", "FAILED", "UNRESOLVED"}
  <2>1. VerdictView' = [VerdictView EXCEPT ![e] = "open"]
    BY <1>1 DEF VerdictView, Verdict, InboxInv, Shape
  <2>2. VerdictView[e] \in {"refused", "parked"}
    BY <1>3 DEF VerdictView, Verdict
  <2>3. Books!Reopen(e)
    BY <1>1, <2>1, <2>2 DEF Books!Reopen, BookView, VerdictView, Entry
  <2> QED
    BY <2>3 DEF Books!Next
<1> QED
  BY <1>1, <1>2, <1>3 DEF Replayable

\* Recording an event and claiming it decide nothing.
LEMMA ReceiveRefines ==
  ASSUME InboxInv, NEW h \in Handlers, NEW e \in Events, Receive(h, e)
  PROVE  UNCHANGED Books!vars
<1>1. UNCHANGED BookView
  BY BookViewKept DEF Receive, bookVars
<1>2. CASE inbox[e].status \in Settled
  BY <1>1, <1>2, VerdictViewKept, BooksStutter DEF Receive
<1>3. CASE inbox[e].status \notin Settled
  <2> DEFINE row == [inbox[e] EXCEPT !.status = IF @ = "NONE" THEN "RECEIVED" ELSE @]
  <2>1. inbox' = [inbox EXCEPT ![e] = row]
    BY <1>3 DEF Receive, InboxInv, Shape
  <2>2. row.status = IF inbox[e].status = "NONE" THEN "RECEIVED" ELSE inbox[e].status
    BY DEF InboxInv, Shape
  <2>3. Verdict(row.status) = Verdict(inbox[e].status)
    BY <2>2 DEF Verdict
  <2> HIDE DEF row
  <2> QED
    BY <1>1, <2>1, <2>3, StaysOpen, BooksStutter
<1> QED
  BY <1>2, <1>3

LEMMA ClaimRefines ==
  ASSUME InboxInv, NEW h \in Handlers, Claim(h)
  PROVE  UNCHANGED Books!vars
<1> DEFINE e == handler[h].event
<1>1. e \in Events /\ UNCHANGED BookView
  BY BookViewKept DEF InboxInv, BusyWithEvent, Busy, Claim, bookVars
<1>2. CASE ~MayClaim(e)
  BY <1>1, <1>2, VerdictViewKept, BooksStutter DEF Claim
<1>3. CASE MayClaim(e)
  <2> DEFINE row == [status |-> "PROCESSING", attempts |-> Spent(inbox[e].attempts), token |-> h]
  <2>1. inbox' = [inbox EXCEPT ![e] = row]
    BY <1>3 DEF Claim
  <2>2. Verdict(row.status) = Verdict(inbox[e].status)
    BY <1>3 DEF Verdict, MayClaim, Claimable
  <2> HIDE DEF row, e
  <2> QED
    BY <1>1, <2>1, <2>2, StaysOpen, BooksStutter
<1> QED
  BY <1>2, <1>3

LEMMA BooksStep ==
  ASSUME InboxInv, [Next]_vars
  PROVE  Books!Next \/ UNCHANGED Books!vars
<1>1. ASSUME NEW h \in Handlers, NEW e \in Events, Receive(h, e) \/ Replay(h, e)
      PROVE  Books!Next \/ UNCHANGED Books!vars
  BY <1>1, ReceiveRefines, ReplayRefines
<1>2. ASSUME NEW h \in Handlers, Settle(h) \/ Release(h) \/ Claim(h)
      PROVE  Books!Next \/ UNCHANGED Books!vars
  BY <1>2, SettleRefines, ReleaseRefines, ClaimRefines
<1>3. ASSUME NEW h \in Handlers, Open(h) \/ TransactionFails(h) \/ Crash(h)
      PROVE  UNCHANGED Books!vars
  <2>1. UNCHANGED <<inbox, booked>>
    BY <1>3 DEF Open, TransactionFails, Crash, inboxVars, bookVars
  <2> QED
    BY <2>1, BookViewKept, VerdictViewKept, BooksStutter
<1>4. CASE \/ \E e \in Events : LeaseLapses(e) \/ MapWorkspace(e)
           \/ \E pass \in {"dunning", "cycle"} : Lists(pass)
           \/ DunningReads \/ DunningWrites \/ CycleReads \/ CycleWrites
           \/ UNCHANGED vars
  <2>1. UNCHANGED <<inbox, booked>>
    BY <1>4, OthersMoveNothing DEF bookVars
  <2> QED
    BY <2>1, BookViewKept, VerdictViewKept, BooksStutter
<1> QED
  BY <1>1, <1>2, <1>3, <1>4 DEF Next

\* Whatever overlaps, crashes, lapses or is delivered or replayed again: an
\* event is entered in the books once, for one purchase, and what the inbox
\* says of it is true of the books and final, as EventBook has it.
THEOREM InboxImplementsEventBook == Spec => ImplementsEventBook
<1>1. Init => Books!Init
  BY BooksInit
<1>2. InboxInv /\ [Next]_vars => [Books!Next]_(Books!vars)
  BY BooksStep
<1> QED
  BY <1>1, <1>2, InboxInvHolds, PTL DEF Spec, ImplementsEventBook, Books!Spec

-----------------------------------------------------------------------------
(* The dunning clock.  It is cleared by an activation only, which moves the  *)
(* period; so a cycle sweep that read PAST_DUE before one cannot write it    *)
(* back after it, and a payment that fails beside them sets it again.        *)

SubShape == /\ DOMAIN sub = {"status", "since", "suspended", "lastAt", "period"}
            /\ sub.period \in Nat

HasCause(since) == since # None => \E e \in Failures : At[e] = since

\* A failed payment that is being settled read a clock that has a cause.
ReadsHaveCause ==
  \A h \in Handlers :
    handler[h].pc = "open" /\ Kind[handler[h].event] = "failed" => HasCause(handler[h].saw[1])

\* A boundary that may still be written is written over the episode it read.
CycleKeepsItsEpisode ==
  cycle # None =>
    /\ cycle.period \in Nat /\ cycle.period <= sub.period
    /\ cycle.to = "PAST_DUE" /\ cycle.period = sub.period => sub.since # None

DunningInv == SubShape /\ DunningHasCause /\ ReadsHaveCause /\ CycleKeepsItsEpisode

\* No row of a failed payment is ever deleted.
LEMMA CausesStay ==
  ASSUME attempts \subseteq attempts', NEW since, HasCause(since)
  PROVE  /\ since # None => \E e \in Failures' : At[e] = since
         /\ HasCause(since)'
BY DEF HasCause, Failures

LEMMA ReadsKept ==
  ASSUME Shape, ReadsHaveCause, attempts \subseteq attempts', NEW h \in Handlers, NEW r,
         handler' = [handler EXCEPT ![h] = r],
         r.pc = "open" /\ Kind[r.event] = "failed" => HasCause(r.saw[1])
  PROVE  ReadsHaveCause'
<1> SUFFICES ASSUME NEW g \in Handlers, handler'[g].pc = "open",
                    Kind[handler'[g].event] = "failed"
             PROVE  handler'[g].saw[1] # None =>
                      \E e \in Failures' : At[e] = handler'[g].saw[1]
  BY DEF ReadsHaveCause, HasCause
<1>1. CASE g = h
  BY <1>1 DEF Shape, HasCause, Failures
<1>2. CASE g # h
  BY <1>2 DEF Shape, ReadsHaveCause, HasCause, Failures
<1> QED
  BY <1>1, <1>2

\* A step of the inbox that leaves the subscription alone.
LEMMA DunningHandlerMoves ==
  ASSUME Shape, DunningInv, UNCHANGED <<sub, cycle>>, attempts \subseteq attempts',
         NEW h \in Handlers, NEW r, handler' = [handler EXCEPT ![h] = r],
         r.pc = "open" /\ Kind[r.event] = "failed" => HasCause(r.saw[1])
  PROVE  DunningInv'
<1>1. SubShape' /\ CycleKeepsItsEpisode'
  BY DEF DunningInv, SubShape, CycleKeepsItsEpisode
<1>2. DunningHasCause'
  BY DEF DunningInv, DunningHasCause, Failures
<1>3. ReadsHaveCause'
  BY ReadsKept DEF DunningInv
<1> QED
  BY <1>1, <1>2, <1>3 DEF DunningInv

LEMMA DunningDecides ==
  ASSUME Shape, DunningInv, UNCHANGED <<sub, cycle>>, attempts \subseteq attempts',
         NEW h \in Handlers, NEW outcome, Decide(h, outcome)
  PROVE  DunningInv'
<1> DEFINE r == Decided1(h, outcome)
<1>1. handler' = [handler EXCEPT ![h] = r] /\ r.pc = "decided"
  BY DecideMoves
<1> HIDE DEF r
<1> QED
  BY <1>1, DunningHandlerMoves

LEMMA DunningNothingMoves ==
  ASSUME DunningInv, UNCHANGED <<sub, cycle, attempts, handler>>
  PROVE  DunningInv'
BY DEF DunningInv, SubShape, DunningHasCause, ReadsHaveCause, HasCause, Failures,
       CycleKeepsItsEpisode

\* An activation clears the clock and leaves the boundary that was read behind.
LEMMA ActivationKeeps ==
  ASSUME Shape, DunningInv, NEW h \in Handlers, NEW e \in Events, sub' = Activated(e),
         UNCHANGED cycle, attempts \subseteq attempts', Decide(h, "PROCESSED")
  PROVE  DunningInv'
<1>1. /\ DOMAIN sub' = DOMAIN sub /\ sub'.status = "ACTIVE" /\ sub'.since = None
      /\ sub'.period = sub.period + 1
  BY DEF DunningInv, SubShape, Activated
<1>2. SubShape' /\ DunningHasCause'
  BY <1>1 DEF DunningInv, SubShape, DunningHasCause
<1>3. CycleKeepsItsEpisode'
  BY <1>1 DEF DunningInv, SubShape, CycleKeepsItsEpisode
<1>4. ReadsHaveCause'
  <2> DEFINE r == Decided1(h, "PROCESSED")
  <2>1. handler' = [handler EXCEPT ![h] = r] /\ r.pc = "decided"
    BY DecideMoves
  <2> HIDE DEF r
  <2> QED
    BY <2>1, ReadsKept DEF DunningInv
<1> QED
  BY <1>2, <1>3, <1>4 DEF DunningInv

LEMMA FailureKeepsCause ==
  ASSUME InboxInv, DunningInv, NEW h \in Handlers, PaymentFailed(h)
  PROVE  DunningInv'
<1> DEFINE e == handler[h].event
<1>0. /\ e \in Events /\ Kind[e] = "failed" /\ handler[h].pc = "open" /\ UNCHANGED cycle
      /\ Shape
  BY CommitsBusy DEF PaymentFailed, Commits, jobVars, InboxInv
<1>1. CASE AttemptExists(e)
  BY <1>0, <1>1, DunningDecides DEF PaymentFailed
<1>2. CASE ~AttemptExists(e)
  <2>1. /\ attempts' = attempts \cup {e} /\ Decide(h, "PROCESSED")
        /\ \E suspends \in BOOLEAN :
             sub' = [sub EXCEPT !.status = IF suspends THEN "SUSPENDED" ELSE "PAST_DUE",
                       !.since = IF handler[h].saw[1] = None THEN At[e] ELSE handler[h].saw[1],
                       !.suspended = suspends \/ handler[h].saw[2],
                       !.lastAt = At[e]]
    BY <1>0, <1>2 DEF PaymentFailed
  <2>2. /\ DOMAIN sub' = DOMAIN sub /\ sub'.period = sub.period
        /\ sub'.since = IF handler[h].saw[1] = None THEN At[e] ELSE handler[h].saw[1]
    BY <2>1 DEF DunningInv, SubShape
  <2>3. sub'.since # None
    BY <1>0, <2>2, BillingAssumption
  <2>4. \E f \in Failures' : At[f] = sub'.since
    <3>1. CASE handler[h].saw[1] = None
      BY <1>0, <2>1, <2>2, <3>1 DEF Failures
    <3>2. CASE handler[h].saw[1] # None
      BY <1>0, <2>1, <2>2, <3>2 DEF DunningInv, ReadsHaveCause, HasCause, Failures
    <3> QED
      BY <3>1, <3>2
  <2>5. SubShape' /\ DunningHasCause'
    BY <2>2, <2>3, <2>4 DEF DunningInv, SubShape, DunningHasCause
  <2>6. CycleKeepsItsEpisode'
    BY <1>0, <2>2, <2>3 DEF DunningInv, CycleKeepsItsEpisode
  <2>7. ReadsHaveCause'
    <3> DEFINE r == Decided1(h, "PROCESSED")
    <3>1. handler' = [handler EXCEPT ![h] = r] /\ r.pc = "decided" /\ attempts \subseteq attempts'
      BY <1>0, <2>1, DecideMoves
    <3> HIDE DEF r
    <3> QED
      BY <1>0, <3>1, ReadsKept DEF DunningInv
  <2> QED
    BY <2>5, <2>6, <2>7 DEF DunningInv
<1> QED
  BY <1>1, <1>2

LEMMA SubscriptionEventKeepsCause ==
  ASSUME Shape, DunningInv, NEW h \in Handlers, SubscriptionEvent(h)
  PROVE  DunningInv'
<1> DEFINE e == handler[h].event
<1>0. UNCHANGED <<cycle, attempts>>
  BY DEF SubscriptionEvent, jobVars, bookVars
<1>1. CASE Decide(h, "STALE") /\ UNCHANGED sub
  BY <1>0, <1>1, DunningDecides
<1>2. CASE /\ Decide(h, "PROCESSED")
           /\ \/ sub' = [sub EXCEPT !.status = "CANCELLED", !.lastAt = At[e]]
              \/ \E moved \in {0, 1} :
                   sub' = [sub EXCEPT !.lastAt = At[e], !.period = @ + moved]
  <2>1. /\ DOMAIN sub' = DOMAIN sub /\ sub'.since = sub.since
        /\ sub'.status \in {sub.status, "CANCELLED"}
        /\ sub'.period \in Nat /\ sub'.period >= sub.period
    <3>0. DOMAIN sub = {"status", "since", "suspended", "lastAt", "period"} /\ sub.period \in Nat
      BY DEF DunningInv, SubShape
    <3>1. CASE sub' = [sub EXCEPT !.status = "CANCELLED", !.lastAt = At[e]]
      BY <3>0, <3>1
    <3>2. CASE \E moved \in {0, 1} :
                 sub' = [sub EXCEPT !.lastAt = At[e], !.period = @ + moved]
      <4>1. PICK moved \in {0, 1} : sub' = [sub EXCEPT !.lastAt = At[e], !.period = @ + moved]
        BY <3>2
      <4>2. /\ DOMAIN sub' = DOMAIN sub /\ sub'.since = sub.since /\ sub'.status = sub.status
            /\ sub'.period = sub.period + moved
        BY <3>0, <4>1
      <4>3. sub'.period \in Nat /\ sub'.period >= sub.period
        BY <3>0, <4>2
      <4> QED
        BY <4>2, <4>3
    <3> QED
      BY <1>2, <3>1, <3>2
  <2>2. SubShape' /\ DunningHasCause'
    BY <1>0, <2>1 DEF DunningInv, SubShape, DunningHasCause, Failures
  <2>3. CycleKeepsItsEpisode'
    BY <1>0, <2>1 DEF DunningInv, SubShape, CycleKeepsItsEpisode
  <2>4. ReadsHaveCause'
    <3> DEFINE r == Decided1(h, "PROCESSED")
    <3>1. handler' = [handler EXCEPT ![h] = r] /\ r.pc = "decided"
      BY <1>2, DecideMoves
    <3> HIDE DEF r
    <3> QED
      BY <1>0, <3>1, ReadsKept DEF DunningInv
  <2> QED
    BY <2>2, <2>3, <2>4 DEF DunningInv
<1> QED
  BY <1>1, <1>2 DEF SubscriptionEvent

LEMMA SettleKeepsCause ==
  ASSUME InboxInv, DunningInv, NEW h \in Handlers, Settle(h)
  PROVE  DunningInv'
<1>0. Shape
  BY DEF InboxInv
<1>1. CASE CheckoutCompleted(h)
  <2>1. handler[h].event \in Events /\ UNCHANGED cycle
    BY <1>1, CommitsBusy DEF CheckoutCompleted, jobVars
  <2>2. /\ attempts \subseteq attempts'
        /\ \/ UNCHANGED sub /\ \E outcome : Decide(h, outcome)
           \/ sub' = Activated(handler[h].event) /\ Decide(h, "PROCESSED")
    BY <1>1 DEF CheckoutCompleted, bookVars
  <2> QED
    BY <1>0, <2>1, <2>2, DunningDecides, ActivationKeeps
<1>2. CASE CheckoutCancelled(h) \/ InvoicePaid(h) \/ ChargeRefunded(h)
  <2>1. UNCHANGED <<sub, cycle, attempts>> /\ \E outcome : Decide(h, outcome)
    BY <1>2 DEF CheckoutCancelled, InvoicePaid, ChargeRefunded, jobVars, bookVars
  <2> QED
    BY <1>0, <2>1, DunningDecides
<1> QED
  BY <1>0, <1>1, <1>2, FailureKeepsCause, SubscriptionEventKeepsCause DEF Settle

\* The other steps of a request: it stops, goes on, or opens its transaction.
LEMMA RequestKeepsCause ==
  ASSUME InboxInv, DunningInv, NEW h \in Handlers,
         \/ \E e \in Events : Receive(h, e) \/ Replay(h, e)
         \/ Claim(h) \/ Open(h) \/ TransactionFails(h) \/ Release(h) \/ Crash(h)
  PROVE  DunningInv'
<1>0. Shape /\ UNCHANGED <<sub, cycle, attempts>>
  BY DEF InboxInv, Receive, Replay, Claim, Open, TransactionFails, Release, Crash,
         jobVars, bookVars
<1>1. CASE UNCHANGED handler
  BY <1>0, <1>1, DunningNothingMoves
<1>2. CASE \E r : handler' = [handler EXCEPT ![h] = r] /\ r.pc # "open"
  BY <1>0, <1>2, DunningHandlerMoves
<1>3. CASE Open(h)
  <2> DEFINE e == handler[h].event
             r == [handler[h] EXCEPT !.pc = "open", !.saw = Seen(e)]
  <2>1. CASE e \notin mapped
    BY <1>0, <1>3, <2>1, DunningDecides DEF Open
  <2>2. CASE e \in mapped
    <3>1. handler' = [handler EXCEPT ![h] = r]
      BY <1>0, <1>3, <2>2 DEF Open, Shape
    <3>2. r.event = e /\ r.saw = Seen(e)
      BY <1>0 DEF Shape, Fields
    <3>3. Kind[e] = "failed" => Seen(e)[1] = sub.since
      BY DEF Seen
    <3>4. HasCause(sub.since)
      BY DEF DunningInv, DunningHasCause, HasCause
    <3> HIDE DEF r, e
    <3> QED
      BY <1>0, <3>1, <3>2, <3>3, <3>4, DunningHandlerMoves DEF HasCause
  <2> QED
    BY <2>1, <2>2
<1>4. CASE TransactionFails(h)
  BY <1>0, <1>4, DunningDecides DEF TransactionFails
<1>5. CASE \E e \in Events : Receive(h, e) \/ Replay(h, e)
  <2>1. PICK e \in Events : Receive(h, e) \/ Replay(h, e)
    BY <1>5
  <2> DEFINE r1 == [Idle EXCEPT !.pc = "recorded", !.event = e]
             r2 == [Idle EXCEPT !.pc = "recorded", !.event = e, !.byHand = TRUE]
  <2>2. r1.pc = "recorded" /\ r2.pc = "recorded"
    BY DEF Idle
  <2>3. \/ UNCHANGED handler
        \/ handler' = [handler EXCEPT ![h] = r1]
        \/ handler' = [handler EXCEPT ![h] = r2]
    BY <2>1 DEF Receive, Replay
  <2> HIDE DEF r1, r2
  <2> QED
    BY <1>1, <1>2, <2>2, <2>3
<1>6. CASE Claim(h)
  <2> DEFINE r == [handler[h] EXCEPT !.pc = "claimed",
                                     !.tries = Spent(inbox[handler[h].event].attempts)]
  <2>1. r.pc = "claimed" /\ Idle.pc = "idle"
    BY <1>0 DEF Shape, Fields, Idle
  <2>2. \/ handler' = [handler EXCEPT ![h] = r]
        \/ handler' = [handler EXCEPT ![h] = Idle]
    BY <1>0, <1>6 DEF Claim, Shape
  <2> HIDE DEF r
  <2> QED
    BY <1>2, <2>1, <2>2
<1>7. CASE Release(h) \/ Crash(h)
  <2>1. handler' = [handler EXCEPT ![h] = Idle] /\ Idle.pc = "idle"
    BY <1>7 DEF Release, Crash, Idle
  <2> QED
    BY <1>2, <2>1
<1> QED
  BY <1>3, <1>4, <1>5, <1>6, <1>7

\* The scheduler's passes over the subscription.
LEMMA SweepsKeepCause ==
  ASSUME DunningInv, DunningReads \/ DunningWrites \/ CycleReads \/ CycleWrites
  PROVE  DunningInv'
<1>0. ReadsHaveCause' /\ UNCHANGED attempts
  BY DEF DunningInv, ReadsHaveCause, HasCause, Failures, DunningReads, DunningWrites,
         CycleReads, CycleWrites, bookVars
<1>1. CASE DunningReads
  BY <1>1, DunningNothingMoves DEF DunningReads, bookVars
<1>2. CASE DunningWrites
  <2>1. /\ UNCHANGED cycle /\ DOMAIN sub' = DOMAIN sub /\ sub'.period = sub.period
        /\ sub'.since = sub.since /\ sub'.status \in {sub.status, "SUSPENDED"}
    BY <1>2 DEF DunningWrites, DunningInv, SubShape
  <2> QED
    BY <1>0, <2>1 DEF DunningInv, SubShape, DunningHasCause, Failures, CycleKeepsItsEpisode
<1>3. CASE CycleReads
  <2>1. UNCHANGED sub
    BY <1>3 DEF CycleReads
  <2>2. \E to : /\ cycle' = [period |-> sub.period, to |-> to]
                /\ to = "PAST_DUE" => sub.status = "PAST_DUE"
    BY <1>3 DEF CycleReads
  <2>3. cycle'.period = sub.period /\ (cycle'.to = "PAST_DUE" => sub.status = "PAST_DUE")
    BY <2>2
  <2> QED
    BY <1>0, <2>1, <2>3 DEF DunningInv, SubShape, DunningHasCause, Failures,
                            CycleKeepsItsEpisode
<1>4. CASE CycleWrites
  <2>0. cycle' = None
    BY <1>4 DEF CycleWrites
  <2>1. CASE UNCHANGED sub
    BY <1>0, <2>0, <2>1 DEF DunningInv, SubShape, DunningHasCause, Failures,
                            CycleKeepsItsEpisode
  <2>2. CASE sub' # sub
    <3>1. /\ cycle # None /\ sub.period = cycle.period
          /\ sub' = [sub EXCEPT !.status = cycle.to,
                                !.period = IF cycle.to \in {"CANCELLED", "EXPIRED"}
                                           THEN @ ELSE @ + 1]
      BY <1>4, <2>2 DEF CycleWrites, SameBoundary
    <3>2. /\ DOMAIN sub' = DOMAIN sub /\ sub'.since = sub.since
          /\ sub'.status = cycle.to /\ sub'.period \in Nat
      BY <3>1 DEF DunningInv, SubShape
    <3> QED
      BY <1>0, <2>0, <3>1, <3>2 DEF DunningInv, SubShape, DunningHasCause, Failures,
                                    CycleKeepsItsEpisode
  <2> QED
    BY <2>1, <2>2
<1> QED
  BY <1>1, <1>2, <1>3, <1>4

LEMMA DunningInvInit == Init => DunningInv
BY DEF Init, DunningInv, SubShape, DunningHasCause, ReadsHaveCause, CycleKeepsItsEpisode, Idle

LEMMA DunningInvStep ==
  ASSUME InboxInv, DunningInv, [Next]_vars
  PROVE  DunningInv'
<1>1. CASE \/ \E e \in Events : LeaseLapses(e) \/ MapWorkspace(e)
           \/ \E pass \in {"dunning", "cycle"} : Lists(pass)
           \/ UNCHANGED vars
  <2>1. UNCHANGED <<sub, cycle, attempts, handler>>
    BY <1>1 DEF LeaseLapses, MapWorkspace, Lists, vars, jobVars, bookVars
  <2> QED
    BY <2>1, DunningNothingMoves
<1> QED
  BY <1>1, SettleKeepsCause, RequestKeepsCause, SweepsKeepCause DEF Next

\* Whoever is past due, and whatever clock is running, has a failed payment
\* on record behind it, however the settlements and the sweeps overlap.
THEOREM PastDueHasACause == Spec => []DunningHasCause
<1>1. Init => DunningInv
  BY DunningInvInit
<1>2. InboxInv /\ DunningInv /\ [Next]_vars => DunningInv'
  BY DunningInvStep
<1>3. DunningInv => DunningHasCause
  BY DEF DunningInv
<1> QED
  BY <1>1, <1>2, <1>3, InboxInvHolds, PTL DEF Spec

-----------------------------------------------------------------------------
(* The types of the inbox.                                                   *)

\* What a request at work carries.
Working(r) ==
  /\ r.pc \in {"recorded", "claimed", "open", "decided"}
  /\ r.event \in Events
  /\ (r.pc = "recorded") <=> (r.tries = 0)
  /\ r.tries \in 0..MaxAttempts
  /\ (r.pc = "decided") <=> (r.outcome # None)
  /\ r.pc = "open" /\ Kind[r.event] = "failed" =>
       r.saw[1] \in Nat \cup {None} /\ r.saw[2] \in BOOLEAN

\* A request works on an event whose row is there.
Requests ==
  \A h \in Handlers :
    handler[h] # Idle => Working(handler[h]) /\ inbox[handler[h].event].status # "NONE"

\* No row has more attempts than there are.
AttemptsBounded == \A e \in Events : inbox[e].attempts <= MaxAttempts

\* Every request of the provider is one of the deliveries it waits for.
Deliveries ==
  /\ pending \in [Events -> Nat]
  /\ \A e \in Events : Cardinality(InFlight(e)) <= pending[e]

\* The subscription, and what the cycle sweep is about to make of it.
Subscription ==
  /\ sub \in [status : SubStatuses, since : Nat \cup {None}, suspended : BOOLEAN,
              lastAt : Nat \cup {None}, period : Nat]
  /\ cycle # None => cycle.to \in SubStatuses

\* The rest: who is mapped and lapsed, the passes listed and the bounds.
Counters ==
  /\ lapsed \subseteq Events /\ mapped \subseteq Events /\ touched \subseteq Events
  /\ listed \subseteq {"dunning", "cycle"} /\ sweep \in BOOLEAN
  /\ faults \in Nat /\ passes \in Nat

\* With InboxInv, the inductive invariant behind TypeOK.
TypeInv == Requests /\ AttemptsBounded /\ Deliveries /\ Subscription /\ Counters

LEMMA TypeInvInit == Init => TypeInv
<1> SUFFICES ASSUME Init PROVE TypeInv
  OBVIOUS
<1>1. Requests
  BY DEF Init, Requests
<1>2. AttemptsBounded
  BY BillingAssumption DEF Init, AttemptsBounded
<1>3. PICK story \in Stories : pending = story.sends /\ faults = story.faults /\ passes = story.passes
  BY DEF Init
<1>4. pending \in [Events -> Nat] /\ faults \in Nat /\ passes \in Nat
  BY <1>3, BillingAssumption
<1>5. \A e \in Events : InFlight(e) = {}
  BY BillingAssumption DEF Init, InFlight, Idle
<1>6. Deliveries
  BY <1>4, <1>5, FS_EmptySet DEF Deliveries
<1>7. Subscription
  BY DEF Init, Subscription, SubStatuses, Serving
<1>8. Counters
  BY <1>4 DEF Init, Counters
<1> QED
  BY <1>1, <1>2, <1>6, <1>7, <1>8 DEF TypeInv

\* The deliveries in flight are requests, so they can be counted.
LEMMA FlightCounts ==
  ASSUME NEW e
  PROVE  IsFiniteSet(InFlight(e)) /\ Cardinality(InFlight(e)) \in Nat
<1>1. IsFiniteSet(Handlers) /\ InFlight(e) \subseteq Handlers
  BY BillingAssumption DEF InFlight
<1> QED
  BY <1>1, FS_Subset, FS_CardinalityType

\* A step that moves no request to another event leaves the deliveries alone.
LEMMA FlightRests ==
  ASSUME Deliveries, UNCHANGED pending,
         \A h \in Handlers : /\ handler'[h].event = handler[h].event
                             /\ handler'[h].byHand = handler[h].byHand
  PROVE  Deliveries'
<1>1. \A e \in Events : InFlight(e)' = InFlight(e)
  BY DEF InFlight
<1> QED
  BY <1>1 DEF Deliveries

\* A request that ends is no longer in flight, and is answered at most once.
LEMMA FlightLeaves ==
  ASSUME Deliveries, Shape, NEW h \in Handlers, handler[h].event \in Events,
         handler' = [handler EXCEPT ![h] = Idle],
         \/ UNCHANGED pending
         \/ ~handler[h].byHand /\ Answered(handler[h].event)
  PROVE  Deliveries'
<1> DEFINE e == handler[h].event
<1>1. \A d \in Events : d # None
  BY BillingAssumption
<1>2. /\ handler'[h] = Idle /\ \A g \in Handlers \ {h} : handler'[g] = handler[g]
  BY DEF Shape
<1>3. \A d \in Events : InFlight(d)' = InFlight(d) \ {h}
  BY <1>1, <1>2 DEF InFlight, Idle
<1>4. \A d \in Events : /\ Cardinality(InFlight(d)') <= Cardinality(InFlight(d))
                        /\ h \in InFlight(d) =>
                             Cardinality(InFlight(d)') = Cardinality(InFlight(d)) - 1
  BY <1>3, FlightCounts, FS_RemoveElement
<1>5. \A d \in Events : /\ IsFiniteSet(InFlight(d)) /\ Cardinality(InFlight(d)) \in Nat
                        /\ Cardinality(InFlight(d)') \in Nat
  BY <1>3, FlightCounts, FS_RemoveElement, FS_CardinalityType
<1>6. CASE UNCHANGED pending
  BY <1>4, <1>5, <1>6 DEF Deliveries
<1>7. CASE ~handler[h].byHand /\ pending' = [pending EXCEPT ![e] = @ - 1]
  <2> DEFINE before == [d \in Events |-> Cardinality(InFlight(d))]
             after  == [d \in Events |-> Cardinality(InFlight(d)')]
  <2>1. PICK d \in Events : d = handler[h].event
    OBVIOUS
  <2>2. h \in InFlight(d) /\ pending' = [pending EXCEPT ![d] = @ - 1]
    BY <1>7, <2>1 DEF InFlight
  <2>3. /\ \A c \in Events : /\ before[c] \in Nat /\ after[c] \in Nat
                            /\ after[c] <= before[c] /\ before[c] <= pending[c]
        /\ after[d] = before[d] - 1
        /\ pending \in [Events -> Nat]
    BY <1>4, <1>5, <2>2 DEF Deliveries
  <2> HIDE DEF before, after
  <2>4. pending' \in [Events -> Nat] /\ \A c \in Events : after[c] <= pending'[c]
    BY <2>2, <2>3
  <2> QED
    BY <2>4 DEF Deliveries, after
<1> QED
  BY <1>6, <1>7 DEF Answered

\* One request moves, and no row disappears.
LEMMA RequestMoves ==
  ASSUME Requests, Shape, NEW h \in Handlers, NEW r, handler' = [handler EXCEPT ![h] = r],
         \A e \in Events : inbox[e].status # "NONE" => inbox'[e].status # "NONE",
         r # Idle => Working(r) /\ inbox'[r.event].status # "NONE"
  PROVE  Requests'
<1>1. handler'[h] = r /\ \A g \in Handlers \ {h} : handler'[g] = handler[g]
  BY DEF Shape
<1> SUFFICES ASSUME NEW g \in Handlers, handler'[g] # Idle
             PROVE  Working(handler'[g]) /\ inbox'[handler'[g].event].status # "NONE"
  BY DEF Requests, Working
<1>2. CASE g = h
  BY <1>1, <1>2
<1>3. CASE g # h
  <2>1. Working(handler[g]) /\ inbox[handler[g].event].status # "NONE"
    BY <1>1, <1>3 DEF Requests
  <2>2. handler[g].event \in Events
    BY <2>1 DEF Working
  <2> QED
    BY <1>1, <1>3, <2>1, <2>2
<1> QED
  BY <1>2, <1>3

\* Nothing moves but what the two last parts are about.
LEMMA RequestsRest ==
  ASSUME TypeInv, UNCHANGED <<inbox, handler, pending>>
  PROVE  Requests' /\ AttemptsBounded' /\ Deliveries'
<1>1. Requests' /\ AttemptsBounded'
  BY DEF TypeInv, Requests, AttemptsBounded
<1>2. Deliveries'
  BY FlightRests DEF TypeInv
<1> QED
  BY <1>1, <1>2

\* A new request is one more in flight, and there was a delivery left for it.
LEMMA ReceiveTyped ==
  ASSUME TypeInv, Shape, NEW h \in Handlers, NEW e \in Events, Receive(h, e)
  PROVE  TypeInv'
<1>1. /\ handler[h] = Idle /\ Cardinality(InFlight(e)) < pending[e]
      /\ UNCHANGED <<lapsed, mapped, bookVars, sub, jobVars, boundVars>>
  BY DEF Receive
<1>2. Subscription' /\ Counters'
  BY <1>1 DEF TypeInv, Subscription, Counters, jobVars, boundVars
<1>3. CASE inbox[e].status \in Settled
  <2>1. UNCHANGED <<inbox, handler>> /\ Answered(e)
    BY <1>3 DEF Receive
  <2>2. Requests' /\ AttemptsBounded'
    BY <2>1 DEF TypeInv, Requests, AttemptsBounded
  <2>3. \A d \in Events : InFlight(d)' = InFlight(d)
    BY <2>1 DEF InFlight
  <2>4. Deliveries'
    <3>1. pending \in [Events -> Nat] /\ \A d \in Events : Cardinality(InFlight(d)) <= pending[d]
      BY DEF TypeInv, Deliveries
    <3>2. Cardinality(InFlight(e)) \in Nat /\ pending[e] \in Nat
      BY <3>1, FlightCounts
    <3>3. pending[e] - 1 \in Nat /\ Cardinality(InFlight(e)) <= pending[e] - 1
      BY <1>1, <3>2
    <3>4. pending' \in [Events -> Nat] /\ \A d \in Events : Cardinality(InFlight(d)) <= pending'[d]
      BY <2>1, <3>1, <3>3 DEF Answered
    <3> QED
      BY <2>3, <3>4 DEF Deliveries
  <2> QED
    BY <1>2, <2>2, <2>4 DEF TypeInv
<1>4. CASE inbox[e].status \notin Settled
  <2> DEFINE r == [Idle EXCEPT !.pc = "recorded", !.event = e]
  <2>1. /\ inbox' = [inbox EXCEPT ![e].status = IF @ = "NONE" THEN "RECEIVED" ELSE @]
        /\ handler' = [handler EXCEPT ![h] = r] /\ UNCHANGED pending
    BY <1>4 DEF Receive
  <2>2. /\ r.pc = "recorded" /\ r.event = e /\ r.tries = 0 /\ r.outcome = None
        /\ r.byHand = FALSE
    BY DEF Idle
  <2>3. Working(r)
    BY <2>2, BillingAssumption DEF Working
  <2> HIDE DEF r
  <2>4. /\ \A d \in Events : /\ inbox[d].status # "NONE" => inbox'[d].status # "NONE"
                             /\ inbox'[d].attempts = inbox[d].attempts
        /\ inbox'[e].status # "NONE"
    BY <2>1 DEF Shape
  <2>5. Requests' /\ AttemptsBounded'
    BY <2>1, <2>2, <2>3, <2>4, RequestMoves DEF TypeInv, AttemptsBounded
  <2>6. /\ handler'[h] = r /\ \A g \in Handlers \ {h} : handler'[g] = handler[g]
    BY <2>1 DEF Shape
  <2>7. /\ InFlight(e)' = InFlight(e) \cup {h} /\ h \notin InFlight(e)
        /\ \A d \in Events \ {e} : InFlight(d)' = InFlight(d)
    <3>1. handler[h].event = None /\ None # e
      BY <1>1, BillingAssumption DEF Idle
    <3>2. \A d \in Events \ {e} : r.event # d /\ None # d
      BY <2>2, BillingAssumption
    <3> QED
      BY <2>2, <2>6, <3>1, <3>2 DEF InFlight
  <2>8. Cardinality(InFlight(e)') = Cardinality(InFlight(e)) + 1
    BY <2>7, FlightCounts, FS_AddElement
  <2>9. Deliveries'
    <3>1. pending \in [Events -> Nat] /\ \A d \in Events : Cardinality(InFlight(d)) <= pending[d]
      BY DEF TypeInv, Deliveries
    <3>2. Cardinality(InFlight(e)') <= pending[e]
      BY <1>1, <2>8, <3>1, FlightCounts
    <3>3. \A d \in Events : Cardinality(InFlight(d)') <= pending[d]
      BY <2>7, <3>1, <3>2
    <3> QED
      BY <2>1, <3>1, <3>3 DEF Deliveries
  <2> QED
    BY <1>2, <2>5, <2>9 DEF TypeInv
<1> QED
  BY <1>3, <1>4

\* A replay is no delivery of the provider's.
LEMMA ReplayTyped ==
  ASSUME TypeInv, Shape, NEW h \in Handlers, NEW e \in Events, Replay(h, e)
  PROVE  TypeInv'
<1> DEFINE r == [Idle EXCEPT !.pc = "recorded", !.event = e, !.byHand = TRUE]
<1>1. /\ handler[h] = Idle /\ faults > 0
      /\ inbox' = [inbox EXCEPT ![e] = [status |-> "RECEIVED", attempts |-> 0, token |-> None]]
      /\ handler' = [handler EXCEPT ![h] = r]
      /\ faults' = faults - 1 /\ touched' = touched \cup {e}
      /\ UNCHANGED <<lapsed, mapped, pending, bookVars, sub, jobVars, passes>>
  BY DEF Replay
<1>2. /\ r.pc = "recorded" /\ r.event = e /\ r.tries = 0 /\ r.outcome = None /\ r.byHand = TRUE
  BY DEF Idle
<1>3. Working(r)
  BY <1>2, BillingAssumption DEF Working
<1> HIDE DEF r
<1>4. /\ \A d \in Events : /\ inbox[d].status # "NONE" => inbox'[d].status # "NONE"
                           /\ inbox'[d].attempts = inbox[d].attempts \/ inbox'[d].attempts = 0
      /\ inbox'[e].status # "NONE"
  BY <1>1 DEF Shape
<1>5. Requests'
  BY <1>1, <1>2, <1>3, <1>4, RequestMoves DEF TypeInv
<1>6. AttemptsBounded'
  BY <1>4, BillingAssumption DEF TypeInv, AttemptsBounded
<1>7. /\ handler'[h] = r /\ \A g \in Handlers \ {h} : handler'[g] = handler[g]
  BY <1>1 DEF Shape
<1>8. \A d \in Events : InFlight(d)' = InFlight(d)
  <2>1. \A d \in Events : None # d
    BY BillingAssumption
  <2> QED
    BY <1>1, <1>2, <1>7, <2>1 DEF InFlight, Idle
<1>9. Deliveries'
  BY <1>1, <1>8 DEF TypeInv, Deliveries
<1>10. Subscription' /\ Counters'
  BY <1>1 DEF TypeInv, Subscription, Counters, jobVars
<1> QED
  BY <1>5, <1>6, <1>9, <1>10 DEF TypeInv

\* A request that goes on with its event.
LEMMA RequestGoesOn ==
  ASSUME TypeInv, Shape, NEW h \in Handlers, NEW r, handler' = [handler EXCEPT ![h] = r],
         handler[h] # Idle, Working(r), UNCHANGED pending,
         r.event = handler[h].event, r.byHand = handler[h].byHand,
         \A e \in Events : inbox[e].status # "NONE" => inbox'[e].status # "NONE"
  PROVE  Requests' /\ Deliveries'
<1>1. r.event \in Events /\ inbox'[r.event].status # "NONE"
  BY DEF TypeInv, Requests, Working
<1>2. Requests'
  BY <1>1, RequestMoves DEF TypeInv
<1>3. handler'[h] = r /\ \A g \in Handlers \ {h} : handler'[g] = handler[g]
  BY DEF Shape
<1>4. Deliveries'
  BY <1>3, FlightRests DEF TypeInv
<1> QED
  BY <1>2, <1>4

\* A request that decides.
LEMMA DecideTyped ==
  ASSUME TypeInv, Shape, NEW h \in Handlers, NEW outcome \in InboxStatuses,
         Decide(h, outcome), handler[h].pc \in {"claimed", "open", "decided"},
         UNCHANGED <<inbox, pending>>
  PROVE  Requests' /\ AttemptsBounded' /\ Deliveries'
<1> DEFINE r == Decided1(h, outcome)
<1>1. /\ handler' = [handler EXCEPT ![h] = r]
      /\ r.pc = "decided" /\ r.event = handler[h].event /\ r.outcome = outcome
  BY DecideMoves
<1>2. r.tries = handler[h].tries /\ r.byHand = handler[h].byHand
  BY DEF Shape, Fields, Decided1
<1>3. handler[h] # Idle
  BY DEF Idle
<1>4. Working(handler[h])
  BY <1>3 DEF TypeInv, Requests
<1> HIDE DEF r
<1>5. Working(r)
  BY <1>1, <1>2, <1>4, BillingAssumption DEF Working
<1>6. Requests' /\ Deliveries'
  BY <1>1, <1>2, <1>3, <1>5, RequestGoesOn
<1>7. AttemptsBounded'
  BY DEF TypeInv, AttemptsBounded
<1> QED
  BY <1>6, <1>7

\* The claim spends an attempt, and never more than there are.
LEMMA ClaimTyped ==
  ASSUME TypeInv, Shape, NEW h \in Handlers, Claim(h)
  PROVE  TypeInv'
<1>1. PICK e \in Events : e = handler[h].event
  <2>1. handler[h] # Idle
    BY DEF Claim, Idle
  <2> QED
    BY <2>1 DEF TypeInv, Requests, Working
<1>2. handler[h].pc = "recorded" /\ handler[h] # Idle
      /\ UNCHANGED <<mapped, bookVars, sub, jobVars, boundVars>>
  BY DEF Claim, Idle
<1>3. Working(handler[h])
  BY <1>2 DEF TypeInv, Requests
<1>4. Subscription'
  BY <1>2 DEF TypeInv, Subscription, jobVars
<1>5. CASE MayClaim(e)
  <2> DEFINE r == [handler[h] EXCEPT !.pc = "claimed", !.tries = Spent(inbox[e].attempts)]
  <2>1. /\ inbox' = [inbox EXCEPT ![e] = [status |-> "PROCESSING",
                                          attempts |-> Spent(@.attempts), token |-> h]]
        /\ lapsed' = lapsed \ {e} /\ UNCHANGED pending
    BY <1>1, <1>5 DEF Claim
  <2>2. handler' = [handler EXCEPT ![h] = r]
    BY <1>1, <1>5 DEF Claim, Shape
  <2>3. Spent(inbox[e].attempts) \in 1..MaxAttempts
    <3>1. inbox[e].attempts \in Nat /\ inbox[e].attempts <= MaxAttempts
      BY DEF TypeInv, AttemptsBounded, Shape
    <3> QED
      BY <3>1, BillingAssumption DEF Spent
  <2>4. /\ r.pc = "claimed" /\ r.event = e /\ r.byHand = handler[h].byHand
        /\ r.tries = Spent(inbox[e].attempts) /\ r.outcome = handler[h].outcome
    BY <1>1 DEF Shape, Fields
  <2> HIDE DEF r
  <2>5. Working(r)
    BY <1>2, <1>3, <2>3, <2>4 DEF Working
  <2>6. \A d \in Events : /\ inbox[d].status # "NONE" => inbox'[d].status # "NONE"
                          /\ inbox'[d].attempts \in {inbox[d].attempts, Spent(inbox[e].attempts)}
    BY <2>1 DEF Shape
  <2>7. Requests' /\ Deliveries'
    BY <1>1, <1>2, <2>1, <2>2, <2>4, <2>5, <2>6, RequestGoesOn
  <2>8. AttemptsBounded'
    BY <2>3, <2>6 DEF TypeInv, AttemptsBounded
  <2>9. Counters'
    BY <1>2, <2>1 DEF TypeInv, Counters, jobVars, boundVars
  <2> QED
    BY <1>4, <2>7, <2>8, <2>9 DEF TypeInv
<1>6. CASE ~MayClaim(e)
  <2>1. /\ handler' = [handler EXCEPT ![h] = Idle]
        /\ IF handler[h].byHand THEN UNCHANGED pending ELSE Answered(handler[h].event)
        /\ UNCHANGED <<inbox, lapsed>>
    BY <1>1, <1>6 DEF Claim
  <2>2. Deliveries'
    BY <1>1, <2>1, FlightLeaves DEF TypeInv
  <2>3. Requests'
    BY <2>1, RequestMoves DEF TypeInv
  <2>4. AttemptsBounded' /\ Counters'
    BY <1>2, <2>1 DEF TypeInv, AttemptsBounded, Counters, jobVars, boundVars
  <2> QED
    BY <1>4, <2>2, <2>3, <2>4 DEF TypeInv
<1> QED
  BY <1>5, <1>6

\* What a transaction reads of the dunning clock is of the clock's type.
LEMMA OpenTyped ==
  ASSUME TypeInv, Shape, NEW h \in Handlers, Open(h)
  PROVE  TypeInv'
<1>1. handler[h].pc = "claimed" /\ handler[h] # Idle
      /\ UNCHANGED <<inboxVars, pending, bookVars, sub, jobVars, boundVars>>
  BY DEF Open, Idle
<1>2. Working(handler[h])
  BY <1>1 DEF TypeInv, Requests
<1>3. PICK e \in Events : e = handler[h].event
  BY <1>2 DEF Working
<1>4. Subscription' /\ Counters' /\ AttemptsBounded'
  BY <1>1 DEF TypeInv, Subscription, Counters, AttemptsBounded, inboxVars, jobVars, boundVars
<1>5. CASE e \in mapped
  <2> DEFINE r == [handler[h] EXCEPT !.pc = "open", !.saw = Seen(e)]
  <2>1. handler' = [handler EXCEPT ![h] = r]
    BY <1>3, <1>5 DEF Open, Shape
  <2>2. /\ r.pc = "open" /\ r.event = e /\ r.byHand = handler[h].byHand
        /\ r.tries = handler[h].tries /\ r.outcome = handler[h].outcome /\ r.saw = Seen(e)
    BY <1>3 DEF Shape, Fields
  <2> HIDE DEF r
  <2>3. Kind[e] = "failed" => r.saw[1] \in Nat \cup {None} /\ r.saw[2] \in BOOLEAN
    BY <2>2 DEF Seen, TypeInv, Subscription
  <2>4. Working(r)
    BY <1>1, <1>2, <1>3, <2>2, <2>3 DEF Working
  <2>5. \A d \in Events : inbox[d].status # "NONE" => inbox'[d].status # "NONE"
    BY <1>1 DEF inboxVars
  <2>6. Requests' /\ Deliveries'
    BY <1>1, <1>3, <2>1, <2>2, <2>4, <2>5, RequestGoesOn
  <2> QED
    BY <1>4, <2>6 DEF TypeInv
<1>6. CASE e \notin mapped
  <2>1. Decide(h, "UNRESOLVED")
    BY <1>3, <1>6 DEF Open
  <2>2. Requests' /\ Deliveries'
    BY <1>1, <2>1, DecideTyped DEF inboxVars, InboxStatuses, Settled
  <2> QED
    BY <1>4, <2>2 DEF TypeInv
<1> QED
  BY <1>5, <1>6

\* A settlement writes a subscription of its type.
LEMMA SettleSubTyped ==
  ASSUME TypeInv, NEW h \in Handlers, handler[h].event \in Events, Settle(h)
  PROVE  Subscription'
<1>1. PICK e \in Events : e = handler[h].event
  OBVIOUS
<1>2. UNCHANGED jobVars
  BY DEF Settle, CheckoutCompleted, CheckoutCancelled, InvoicePaid, PaymentFailed,
         SubscriptionEvent, ChargeRefunded
<1>3. At[e] \in Nat
  BY BillingAssumption
<1> SUFFICES sub' \in [status : SubStatuses, since : Nat \cup {None}, suspended : BOOLEAN,
                       lastAt : Nat \cup {None}, period : Nat]
  BY <1>2 DEF TypeInv, Subscription, jobVars
<1>4. sub \in [status : SubStatuses, since : Nat \cup {None}, suspended : BOOLEAN,
               lastAt : Nat \cup {None}, period : Nat]
  BY DEF TypeInv, Subscription
<1>5. CASE UNCHANGED sub
  BY <1>4, <1>5
<1>6. CASE sub' = Activated(e)
  <2>1. sub.period + 1 \in Nat /\ "ACTIVE" \in SubStatuses
    BY <1>4 DEF SubStatuses, Serving
  <2> QED
    BY <1>3, <1>4, <1>6, <2>1 DEF Activated
<1>7. CASE PaymentFailed(h) /\ sub' # sub
  <2>1. handler[h].pc = "open" /\ Kind[e] = "failed" /\ handler[h] # Idle
    <3>1. Commits(h, {"failed"})
      BY <1>7 DEF PaymentFailed
    <3> QED
      BY <1>1, <3>1 DEF Commits, Idle
  <2>2. handler[h].saw[1] \in Nat \cup {None} /\ handler[h].saw[2] \in BOOLEAN
    BY <1>1, <2>1 DEF TypeInv, Requests, Working
  <2>3. PICK suspends \in BOOLEAN :
          sub' = [sub EXCEPT !.status = IF suspends THEN "SUSPENDED" ELSE "PAST_DUE",
                             !.since = IF handler[h].saw[1] = None THEN At[e]
                                       ELSE handler[h].saw[1],
                             !.suspended = suspends \/ handler[h].saw[2],
                             !.lastAt = At[e]]
    BY <1>1, <1>7 DEF PaymentFailed
  <2>4. (suspends \/ handler[h].saw[2]) \in BOOLEAN
    BY <2>2
  <2> QED
    BY <1>3, <1>4, <2>2, <2>3, <2>4 DEF SubStatuses, Serving
<1>8. CASE SubscriptionEvent(h) /\ sub' # sub
  <2>1. \/ sub' = [sub EXCEPT !.status = "CANCELLED", !.lastAt = At[e]]
        \/ \E moved \in {0, 1} : sub' = [sub EXCEPT !.lastAt = At[e], !.period = @ + moved]
    BY <1>1, <1>8 DEF SubscriptionEvent
  <2>2. "CANCELLED" \in SubStatuses /\ \A moved \in {0, 1} : sub.period + moved \in Nat
    BY <1>4 DEF SubStatuses
  <2> QED
    BY <1>3, <1>4, <2>1, <2>2
<1>9. CASE CheckoutCompleted(h)
  BY <1>1, <1>5, <1>6, <1>9 DEF CheckoutCompleted
<1> QED
  BY <1>5, <1>7, <1>8, <1>9 DEF Settle, CheckoutCancelled, InvoicePaid, ChargeRefunded

\* A settlement decides on a status of the inbox.
LEMMA SettleTyped ==
  ASSUME TypeInv, InboxInv, NEW h \in Handlers, Settle(h)
  PROVE  TypeInv'
<1>1. Busy(h) /\ \E outcome \in InboxStatuses : Decide(h, outcome)
  <2>1. \A outcome : True(handler[h].event, outcome) => outcome \in InboxStatuses
    BY TrueIsSettled DEF InboxStatuses, Claimable
  <2> QED
    BY <2>1, SettleEnters DEF Enters, DecidesOnly, InboxStatuses, Settled
<1>2. handler[h].pc = "open"
  BY DEF Settle, CheckoutCompleted, CheckoutCancelled, InvoicePaid, PaymentFailed,
         SubscriptionEvent, ChargeRefunded, Commits
<1>3. UNCHANGED <<inboxVars, pending, jobVars, boundVars>>
  BY DEF Settle, CheckoutCompleted, CheckoutCancelled, InvoicePaid, PaymentFailed,
         SubscriptionEvent, ChargeRefunded
<1>4. Requests' /\ AttemptsBounded' /\ Deliveries'
  BY <1>1, <1>2, <1>3, DecideTyped DEF InboxInv, inboxVars
<1>5. Subscription'
  BY <1>1, SettleSubTyped DEF InboxInv, BusyWithEvent
<1>6. Counters'
  BY <1>3 DEF TypeInv, Counters, inboxVars, jobVars, boundVars
<1> QED
  BY <1>4, <1>5, <1>6 DEF TypeInv

LEMMA TransactionFailsTyped ==
  ASSUME TypeInv, Shape, NEW h \in Handlers, TransactionFails(h)
  PROVE  TypeInv'
<1>1. /\ handler[h].pc \in {"open", "decided"} /\ Decide(h, Unapplied(h))
      /\ UNCHANGED <<inboxVars, pending, bookVars, sub, jobVars, boundVars>>
  BY DEF TransactionFails
<1>2. Unapplied(h) \in InboxStatuses
  BY DEF Unapplied, InboxStatuses, Claimable, Settled
<1>3. Requests' /\ AttemptsBounded' /\ Deliveries'
  BY <1>1, <1>2, DecideTyped DEF inboxVars
<1>4. Subscription' /\ Counters'
  BY <1>1 DEF TypeInv, Subscription, Counters, inboxVars, jobVars, boundVars
<1> QED
  BY <1>3, <1>4 DEF TypeInv

\* A release writes an outcome: the row of another request's event stays there.
LEMMA ReleaseTyped ==
  ASSUME TypeInv, InboxInv, NEW h \in Handlers, Release(h)
  PROVE  TypeInv'
<1>1. /\ handler[h].pc = "decided" /\ handler' = [handler EXCEPT ![h] = Idle]
      /\ UNCHANGED <<mapped, bookVars, sub, jobVars, boundVars>>
      /\ \/ UNCHANGED pending
         \/ ~handler[h].byHand /\ Answered(handler[h].event)
  BY DEF Release
<1>2. PICK e \in Events : e = handler[h].event
  BY <1>1 DEF InboxInv, BusyWithEvent, Busy
<1>3. PICK outcome : outcome = handler[h].outcome
  OBVIOUS
<1>4. outcome # "NONE"
  BY <1>1, <1>3, TrueIsSettled DEF InboxInv, OutcomesAreTrue, Settled
<1>5. \/ /\ inbox' = [inbox EXCEPT ![e].status = outcome, ![e].token = None]
         /\ lapsed' = lapsed \ {e}
      \/ UNCHANGED <<inbox, lapsed>>
  BY <1>2, <1>3 DEF Release
<1>6. \A d \in Events : /\ inbox[d].status # "NONE" => inbox'[d].status # "NONE"
                        /\ inbox'[d].attempts = inbox[d].attempts
  BY <1>4, <1>5 DEF InboxInv, Shape
<1>7. Requests'
  BY <1>1, <1>6, RequestMoves DEF TypeInv, InboxInv
<1>8. AttemptsBounded'
  BY <1>6 DEF TypeInv, AttemptsBounded
<1>9. Deliveries'
  BY <1>1, <1>2, FlightLeaves DEF TypeInv, InboxInv
<1>10. Subscription' /\ Counters'
  BY <1>1, <1>5 DEF TypeInv, Subscription, Counters, jobVars, boundVars
<1> QED
  BY <1>7, <1>8, <1>9, <1>10 DEF TypeInv

LEMMA CrashTyped ==
  ASSUME TypeInv, Shape, NEW h \in Handlers, Crash(h)
  PROVE  TypeInv'
<1>1. /\ handler[h].pc # "idle" /\ faults > 0 /\ faults' = faults - 1
      /\ touched' = touched \cup {handler[h].event}
      /\ handler' = [handler EXCEPT ![h] = Idle]
      /\ UNCHANGED <<inboxVars, pending, bookVars, sub, jobVars, passes>>
  BY DEF Crash
<1>2. handler[h].event \in Events
  BY <1>1 DEF TypeInv, Requests, Working, Idle
<1>3. Requests'
  BY <1>1, RequestMoves DEF TypeInv, inboxVars
<1>4. AttemptsBounded'
  BY <1>1 DEF TypeInv, AttemptsBounded, inboxVars
<1>5. Deliveries'
  BY <1>1, <1>2, FlightLeaves DEF TypeInv
<1>6. Subscription' /\ Counters'
  BY <1>1, <1>2 DEF TypeInv, Subscription, Counters, inboxVars, jobVars
<1> QED
  BY <1>3, <1>4, <1>5, <1>6 DEF TypeInv

\* The lease, the mapping and the scheduler's passes.
LEMMA OthersTyped ==
  ASSUME TypeInv,
         \/ \E e \in Events : LeaseLapses(e) \/ MapWorkspace(e)
         \/ \E pass \in {"dunning", "cycle"} : Lists(pass)
         \/ DunningReads \/ DunningWrites \/ CycleReads \/ CycleWrites
         \/ UNCHANGED vars
  PROVE  TypeInv'
<1>1. UNCHANGED <<inbox, handler>>
  BY OthersMoveNothing
<1>2. UNCHANGED pending
  BY DEF LeaseLapses, MapWorkspace, Lists, DunningReads, DunningWrites, CycleReads,
         CycleWrites, vars
<1>3. Requests' /\ AttemptsBounded' /\ Deliveries'
  BY <1>1, <1>2, RequestsRest
<1>4. Counters'
  <2>1. CASE \E e \in Events : LeaseLapses(e) \/ MapWorkspace(e)
    <3>1. PICK e \in Events : LeaseLapses(e) \/ MapWorkspace(e)
      BY <2>1
    <3>2. faults \in Nat /\ passes \in Nat
      BY DEF TypeInv, Counters
    <3>3. faults' \in Nat /\ passes' \in Nat
      BY <3>1, <3>2 DEF LeaseLapses, MapWorkspace, boundVars
    <3>4. /\ lapsed' \in {lapsed, lapsed \cup {e}} /\ mapped' \in {mapped, mapped \cup {e}}
          /\ UNCHANGED touched /\ UNCHANGED jobVars
      BY <3>1 DEF LeaseLapses, MapWorkspace, boundVars
    <3> QED
      BY <3>3, <3>4 DEF TypeInv, Counters, jobVars
  <2>2. CASE \E pass \in {"dunning", "cycle"} : Lists(pass)
    BY <2>2 DEF TypeInv, Counters, Lists, inboxVars
  <2>3. CASE DunningReads
    BY <2>3 DEF TypeInv, Counters, DunningReads, inboxVars, boundVars
  <2>4. CASE DunningWrites \/ CycleReads \/ CycleWrites
    BY <2>4 DEF TypeInv, Counters, DunningWrites, CycleReads, CycleWrites, inboxVars, boundVars
  <2>5. CASE UNCHANGED vars
    BY <2>5 DEF TypeInv, Counters, vars, inboxVars, jobVars, boundVars
  <2> QED
    BY <2>1, <2>2, <2>3, <2>4, <2>5
<1>5. Subscription'
  <2>1. CASE CycleReads
    <3>1. PICK to \in {"CANCELLED", IF sub.status = "TRIALING" THEN "EXPIRED" ELSE sub.status} :
            cycle' = [period |-> sub.period, to |-> to]
      BY <2>1 DEF CycleReads
    <3>2. to \in SubStatuses /\ UNCHANGED sub
      BY <2>1 DEF CycleReads, TypeInv, Subscription, SubStatuses
    <3> QED
      BY <3>1, <3>2 DEF TypeInv, Subscription
  <2>2. CASE CycleWrites
    <3>1. sub.period + 1 \in Nat /\ cycle.to \in SubStatuses /\ cycle' = None
      BY <2>2 DEF CycleWrites, TypeInv, Subscription
    <3>2. sub' \in [status : SubStatuses, since : Nat \cup {None}, suspended : BOOLEAN,
                    lastAt : Nat \cup {None}, period : Nat]
      BY <2>2, <3>1 DEF CycleWrites, TypeInv, Subscription
    <3> QED
      BY <3>1, <3>2 DEF Subscription
  <2>3. CASE DunningWrites
    BY <2>3 DEF DunningWrites, TypeInv, Subscription, SubStatuses, Serving
  <2>4. CASE UNCHANGED <<sub, cycle>>
    BY <2>4 DEF TypeInv, Subscription
  <2> QED
    BY <2>1, <2>2, <2>3, <2>4 DEF LeaseLapses, MapWorkspace, Lists, DunningReads, vars, jobVars
<1> QED
  BY <1>3, <1>4, <1>5 DEF TypeInv

LEMMA TypeInvStep ==
  ASSUME InboxInv, TypeInv, [Next]_vars
  PROVE  TypeInv'
<1>1. Shape
  BY DEF InboxInv
<1>2. ASSUME NEW h \in Handlers, NEW e \in Events, Receive(h, e) \/ Replay(h, e)
      PROVE  TypeInv'
  BY <1>1, <1>2, ReceiveTyped, ReplayTyped
<1>3. ASSUME NEW h \in Handlers, Claim(h) \/ Open(h) \/ Crash(h) \/ TransactionFails(h)
      PROVE  TypeInv'
  BY <1>1, <1>3, ClaimTyped, OpenTyped, CrashTyped, TransactionFailsTyped
<1>4. ASSUME NEW h \in Handlers, Settle(h) \/ Release(h)
      PROVE  TypeInv'
  BY <1>4, SettleTyped, ReleaseTyped
<1>5. CASE \/ \E e \in Events : LeaseLapses(e) \/ MapWorkspace(e)
           \/ \E pass \in {"dunning", "cycle"} : Lists(pass)
           \/ DunningReads \/ DunningWrites \/ CycleReads \/ CycleWrites
           \/ UNCHANGED vars
  BY <1>5, OthersTyped
<1> QED
  BY <1>2, <1>3, <1>4, <1>5 DEF Next

\* The inbox's rows and its requests hold only what the program can write:
\* a row has a token exactly while it is PROCESSING, a request past its claim
\* has spent an attempt of no more than MaxAttempts, and the provider has no
\* more requests under way than deliveries it still waits for.
THEOREM InboxTypeOK == Spec => []TypeOK
<1>1. Init => TypeInv
  BY TypeInvInit
<1>2. InboxInv /\ TypeInv /\ [Next]_vars => TypeInv'
  BY TypeInvStep
<1>3. InboxInv /\ TypeInv => TypeOK
  <2> SUFFICES ASSUME InboxInv, TypeInv PROVE TypeOK
    OBVIOUS
  <2>1. Shape /\ TokenMeansClaim /\ Requests /\ AttemptsBounded
    BY DEF InboxInv, TypeInv
  <2>2. inbox \in [Events -> [status : InboxStatuses, attempts : 0..MaxAttempts,
                              token : Handlers \cup {None}]]
    BY <2>1, BillingAssumption DEF Shape, AttemptsBounded
  <2>3. \A h \in Handlers :
          handler[h] # Idle =>
            /\ handler[h].pc \in {"recorded", "claimed", "open", "decided"}
            /\ handler[h].event \in Events
            /\ inbox[handler[h].event].status # "NONE"
            /\ (handler[h].pc = "recorded") <=> (handler[h].tries = 0)
            /\ handler[h].tries <= MaxAttempts
            /\ (handler[h].pc = "decided") <=> (handler[h].outcome # None)
    BY <2>1, BillingAssumption DEF Requests, Working
  <2> QED
    BY <2>1, <2>2, <2>3
    DEF TypeInv, Shape, TokenMeansClaim, Deliveries, Subscription, Counters, TypeOK
<1> QED
  BY <1>1, <1>2, <1>3, InboxInvHolds, PTL DEF Spec
=============================================================================
