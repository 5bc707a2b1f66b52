----------------------------- MODULE BillingInbox -----------------------------
(***************************************************************************)
(* The inbox of the billing provider's events and the settlements behind   *)
(* it.  A delivery records its event, claims the inbox row with a token    *)
(* and a lease, finds the workspace, settles in a transaction of its own   *)
(* and releases the row; the answer tells the provider whether to deliver  *)
(* again.  Deliveries of one event overlap, processes die, leases lapse,   *)
(* transactions fail, and an operator may replay what did not settle.      *)
(* Beside them the scheduler suspends the subscription and moves it over   *)
(* the end of its period.                                                  *)
(*                                                                         *)
(* A transaction is two steps: Open reads the rows it decides on, Commit   *)
(* writes them.  In READ COMMITTED only the conditions of the updates and  *)
(* the unique keys are evaluated again at the write.                       *)
(*                                                                         *)
(* Source: packages/billing/src/reconcile.ts, subscriptions.ts, dunning.ts *)
(* packages/entitlements/src/subscription.ts, apps/api/src/scheduler.ts    *)
(* and apps/api/src/routes/billing-webhook.ts.                             *)
(***************************************************************************)
EXTENDS Integers, Sequences, FiniteSets

CONSTANTS Events, Handlers, Sessions,
          Kind, Target, At,   \* functions of the events
          Packs,              \* the sessions that buy a credit pack
          Wrong,              \* events whose amount is not the one agreed
          Unmapped,           \* events of a customer not known to us yet
          Stories,            \* copies the provider sends of each event, and
                              \* bounds: faults and passes of the scheduler
          MaxAttempts, Retries,
          None

Kinds == {"completed", "cancelled", "paid", "failed", "updated", "ended", "refunded"}

Settled == {"PROCESSED", "STALE", "UNRESOLVED", "DUPLICATE", "FAILED", "DEAD_LETTER"}
Claimable == {"RECEIVED", "RETRYABLE"}
InboxStatuses == {"NONE", "PROCESSING"} \cup Claimable \cup Settled

ASSUME BillingAssumption ==
  /\ Kind \in [Events -> Kinds]
  /\ \A e \in Events :
       /\ Kind[e] \in {"completed", "cancelled"} => Target[e] \in Sessions
       /\ Kind[e] = "failed" => Target[e] = e
       /\ Kind[e] \notin {"completed", "cancelled", "failed"} => Target[e] = None
  /\ DOMAIN Target = Events
  /\ At \in [Events -> Nat]
  /\ Packs \subseteq Sessions
  /\ Wrong \subseteq {e \in Events : Kind[e] = "completed"}
  /\ Unmapped \subseteq Events
  /\ Stories \subseteq [sends : [Events -> Nat], faults : Nat, passes : Nat]
  /\ IsFiniteSet(Handlers)
  /\ None \notin Events \cup Handlers \cup Sessions \cup Nat \cup InboxStatuses
  /\ Events \cap Sessions = {}
  /\ MaxAttempts \in Nat \ {0} /\ Retries \in Nat

VARIABLES
  inbox,      \* per event: status, attempts and claimToken of its row
  lapsed,     \* the rows whose claimedAt is older than the lease
  pending,    \* per event: deliveries the provider has not been answered 200
  handler,    \* what each request handler is doing
  mapped,     \* events whose workspace can be resolved
  session,    \* checkout_session.status
  booked,     \* per target: the events whose effects were committed for it
  attempts,   \* payment_attempt rows, keyed attempt:<event>
  sub,        \* the subscription
  listed,     \* the scheduler's passes that have the subscription on their list
  sweep,      \* the dunning sweep has read a row it is about to suspend
  cycle,      \* the boundary the cycle sweep has read, or None
  faults,     \* crashes, slow requests and replays there may still be
  passes,     \* passes the scheduler may still make
  touched     \* events a process died on or an operator replayed

inboxVars == <<inbox, lapsed, mapped>>
bookVars == <<session, booked, attempts>>
jobVars == <<listed, sweep, cycle>>
boundVars == <<faults, passes, touched>>
vars == <<inboxVars, pending, handler, bookVars, sub, jobVars, boundVars>>

Replayable == {"DEAD_LETTER", "FAILED", "UNRESOLVED", "RETRYABLE", "RECEIVED"}
Serving == {"TRIALING", "ACTIVE", "PAST_DUE"}
SubStatuses == Serving \cup {"SUSPENDED", "CANCELLED", "EXPIRED"}
Targets == Sessions \cup {e \in Events : Kind[e] = "failed"}

\* nobody handles anything
Idle == [pc |-> "idle", event |-> None, byHand |-> FALSE, tries |-> 0,
         saw |-> None, outcome |-> None]

Init ==
  /\ inbox = [e \in Events |-> [status |-> "NONE", attempts |-> 0, token |-> None]]
  /\ lapsed = {}
  /\ \E story \in Stories :
       /\ pending = story.sends
       /\ faults = story.faults
       /\ passes = story.passes
  /\ mapped = {e \in Events : e \notin Unmapped \/ pending[e] = 0}
  /\ handler = [h \in Handlers |-> Idle]
  /\ session = [s \in Sessions |-> "PENDING"]
  /\ booked = [t \in Targets |-> << >>]
  /\ attempts = {}
  /\ sub = [status |-> "TRIALING", since |-> None, suspended |-> FALSE,
            lastAt |-> None, period |-> 0]
  /\ listed = {}
  /\ sweep = FALSE
  /\ cycle = None
  /\ touched = {}

-----------------------------------------------------------------------------
(* The provider.  It keeps delivering until it is answered 200, and an       *)
(* answer may be lost on the way.                                            *)

InFlight(e) == {h \in Handlers : handler[h].event = e /\ ~handler[h].byHand}

\* The effect on the provider of ending a request of e with 200.
Answered(e) == \/ pending' = [pending EXCEPT ![e] = @ - 1]
               \/ UNCHANGED pending

\* #inboxRow, then the status that was read.
Receive(h, e) ==
  /\ handler[h] = Idle
  /\ Cardinality(InFlight(e)) < pending[e]
  /\ IF inbox[e].status \in Settled
     THEN Answered(e) /\ UNCHANGED <<inbox, handler>>
     ELSE /\ inbox' = [inbox EXCEPT ![e].status = IF @ = "NONE" THEN "RECEIVED" ELSE @]
          /\ handler' = [handler EXCEPT ![h] = [Idle EXCEPT !.pc = "recorded", !.event = e]]
          /\ UNCHANGED pending
  /\ UNCHANGED <<lapsed, mapped, bookVars, sub, jobVars, boundVars>>

\* replay: the reset is conditional on the status that was read, #ingest follows.
Replay(h, e) ==
  /\ handler[h] = Idle
  /\ faults > 0
  /\ inbox[e].status \in Replayable
  /\ inbox' = [inbox EXCEPT ![e] = [status |-> "RECEIVED", attempts |-> 0, token |-> None]]
  /\ handler' = [handler EXCEPT ![h] =
                   [Idle EXCEPT !.pc = "recorded", !.event = e, !.byHand = TRUE]]
  /\ faults' = faults - 1
  /\ touched' = touched \cup {e}
  /\ UNCHANGED <<lapsed, mapped, pending, bookVars, sub, jobVars, passes>>

\* Mutant: the expired-lease branch of the claim is missing.
MayClaimReleased(e) == inbox[e].status \in Claimable

\* Who may take the row: nobody holds it, or the holder's lease is over.
MayClaim(e) == \/ inbox[e].status \in Claimable
               \/ inbox[e].status = "PROCESSING" /\ e \in lapsed

\* Mutant: a claim does not spend an attempt.
SpentNever(n) == n

\* The retry budget is only ever compared with MaxAttempts.
Spent(n) == IF n < MaxAttempts THEN n + 1 ELSE n

\* #claim; when it fails the answer is DUPLICATE or IN_PROGRESS, both 200.
Claim(h) ==
  LET e == handler[h].event IN
  /\ handler[h].pc = "recorded"
  /\ IF MayClaim(e)
     THEN /\ inbox' = [inbox EXCEPT ![e] = [status |-> "PROCESSING",
                                            attempts |-> Spent(@.attempts), token |-> h]]
          /\ lapsed' = lapsed \ {e}
          /\ handler' = [handler EXCEPT ![h].pc = "claimed", ![h].tries = Spent(inbox[e].attempts)]
          /\ UNCHANGED pending
     ELSE /\ handler' = [handler EXCEPT ![h] = Idle]
          /\ IF handler[h].byHand THEN UNCHANGED pending ELSE Answered(e)
          /\ UNCHANGED <<inbox, lapsed>>
  /\ UNCHANGED <<mapped, bookVars, sub, jobVars, boundVars>>

-----------------------------------------------------------------------------
(* One settlement.                                                           *)

\* What its transaction read that its writes are computed from.
Seen(e) == CASE Kind[e] = "completed"            -> session[Target[e]]
             [] Kind[e] = "failed"               -> <<sub.since, sub.suspended>>
             [] Kind[e] \in {"updated", "ended"} -> sub.lastAt
             [] OTHER                            -> None

\* #classifyFailure of an error that is not a refusal.
Unapplied(h) == IF handler[h].tries < MaxAttempts THEN "RETRYABLE" ELSE "DEAD_LETTER"

Decide(h, outcome) ==
  handler' = [handler EXCEPT ![h].pc = "decided", ![h].saw = None, ![h].outcome = outcome]

\* #resolveWorkspace; then the transaction begins and reads.
Open(h) ==
  LET e == handler[h].event IN
  /\ handler[h].pc = "claimed"
  /\ IF e \in mapped
     THEN handler' = [handler EXCEPT ![h].pc = "open", ![h].saw = Seen(e)]
     ELSE Decide(h, "UNRESOLVED")
  /\ UNCHANGED <<inboxVars, pending, bookVars, sub, jobVars, boundVars>>

\* The transaction of h, which settles an event of one of these kinds, commits.
Commits(h, kinds) == handler[h].pc = "open" /\ Kind[handler[h].event] \in kinds

Book(e) == booked' = [booked EXCEPT ![Target[e]] = Append(@, e)]

\* The conditional update of the checkout found it PENDING.
StillPending(s) == session[s] = "PENDING"

\* settleSubscription pins the plan and ends the dunning episode.
Activated(e) == [sub EXCEPT !.status = "ACTIVE", !.since = None, !.suspended = FALSE,
                            !.lastAt = At[e], !.period = @ + 1]

\* #applyCheckoutCompleted, #settleSubscription, #settleCreditPack
CheckoutCompleted(h) ==
  LET e == handler[h].event
      s == Target[e]
  IN  /\ Commits(h, {"completed"})
      /\ IF handler[h].saw # "COMPLETED" /\ e \notin Wrong /\ StillPending(s)
         THEN /\ session' = [session EXCEPT ![s] = "COMPLETED"]
              /\ Book(e)
              /\ attempts' = IF s \in Packs THEN attempts ELSE attempts \cup {e}
              /\ sub' = IF s \in Packs THEN sub ELSE Activated(e)
              /\ Decide(h, "PROCESSED")
         ELSE /\ Decide(h, IF handler[h].saw # "COMPLETED" /\ e \in Wrong
                           THEN "FAILED" ELSE "DUPLICATE")
              /\ UNCHANGED <<bookVars, sub>>
      /\ UNCHANGED <<inboxVars, pending, jobVars, boundVars>>

\* #applyCheckoutCancelled
CheckoutCancelled(h) ==
  LET e == handler[h].event
      s == Target[e]
  IN  /\ Commits(h, {"cancelled"})
      /\ IF StillPending(s)
         THEN /\ session' = [session EXCEPT ![s] = "CANCELLED"]
              /\ Book(e)
              /\ Decide(h, "PROCESSED")
         ELSE Decide(h, "DUPLICATE") /\ UNCHANGED <<session, booked>>
      /\ UNCHANGED <<inboxVars, pending, attempts, sub, jobVars, boundVars>>

\* #applyInvoicePaid: no code writes an invoice's providerInvoiceId.
InvoicePaid(h) ==
  /\ Commits(h, {"paid"})
  /\ Decide(h, "UNRESOLVED")
  /\ UNCHANGED <<inboxVars, pending, bookVars, sub, jobVars, boundVars>>

\* nextDunningStep; late is now >= graceEnd
DunningStep(made, late) == IF made <= Retries THEN "retry"
                           ELSE IF ~late THEN "grace" ELSE "suspend"

\* The failed attempts that fall in an episode are some of those on record.
Failures == {e \in attempts : Kind[e] = "failed"}

\* The unique key attempt:<event>.
AttemptExists(e) == e \in attempts

\* #applyPaymentFailed: a second row for one event is refused (P2002).
PaymentFailed(h) ==
  LET e     == handler[h].event
      since == handler[h].saw[1]
      wasSuspended == handler[h].saw[2]
  IN  /\ Commits(h, {"failed"})
      /\ IF AttemptExists(e)
         THEN Decide(h, Unapplied(h)) /\ UNCHANGED <<booked, attempts, sub>>
         ELSE \E made \in 1..(Cardinality(Failures) + 1), late \in BOOLEAN :
                LET suspends == DunningStep(made, late) = "suspend" IN
                /\ attempts' = attempts \cup {e}
                /\ Book(e)
                /\ sub' = [sub EXCEPT !.status = IF suspends THEN "SUSPENDED" ELSE "PAST_DUE",
                                      !.since = IF since = None THEN At[e] ELSE since,
                                      !.suspended = suspends \/ wasSuspended,
                                      !.lastAt = At[e]]
                /\ Decide(h, "PROCESSED")
      /\ UNCHANGED <<inboxVars, pending, session, jobVars, boundVars>>

\* #applySubscriptionEvent; an update may move the period.
SubscriptionEvent(h) ==
  LET e == handler[h].event IN
  /\ Commits(h, {"updated", "ended"})
  /\ IF handler[h].saw # None /\ At[e] <= handler[h].saw
     THEN Decide(h, "STALE") /\ UNCHANGED sub
     ELSE /\ IF Kind[e] = "ended"
             THEN sub' = [sub EXCEPT !.status = "CANCELLED", !.lastAt = At[e]]
             ELSE \E moved \in {0, 1} :
                    sub' = [sub EXCEPT !.lastAt = At[e], !.period = @ + moved]
          /\ Decide(h, "PROCESSED")
  /\ UNCHANGED <<inboxVars, pending, bookVars, jobVars, boundVars>>

\* charge.refunded is recorded, not acted on.
ChargeRefunded(h) ==
  /\ Commits(h, {"refunded"})
  /\ Decide(h, "PROCESSED")
  /\ UNCHANGED <<inboxVars, pending, bookVars, sub, jobVars, boundVars>>

\* The transaction rolls back, or it commits and the acknowledgement is lost.
TransactionFails(h) ==
  /\ \/ handler[h].pc = "open"
     \/ handler[h].pc = "decided" /\ handler[h].outcome = "PROCESSED"
  /\ Decide(h, Unapplied(h))
  /\ UNCHANGED <<inboxVars, pending, bookVars, sub, jobVars, boundVars>>

\* Mutant: #release writes whoever holds the row now.
HoldsClaimAny(h) == TRUE

\* Whether the update of #release, which names the token, finds the row.
HoldsClaim(h) == inbox[handler[h].event].token = h

\* #release, and the answer: 503 for RETRYABLE, 200 for the rest.
Release(h) ==
  LET e == handler[h].event
      outcome == handler[h].outcome
  IN  /\ handler[h].pc = "decided"
      /\ IF HoldsClaim(h)
         THEN /\ inbox' = [inbox EXCEPT ![e].status = outcome, ![e].token = None]
              /\ lapsed' = lapsed \ {e}
         ELSE UNCHANGED <<inbox, lapsed>>
      /\ handler' = [handler EXCEPT ![h] = Idle]
      /\ IF handler[h].byHand \/ outcome = "RETRYABLE"
         THEN UNCHANGED pending
         ELSE Answered(e)
      /\ UNCHANGED <<mapped, bookVars, sub, jobVars, boundVars>>

-----------------------------------------------------------------------------
(* Faults, time and operators.                                               *)

Holding(h, e) == /\ handler[h].pc \in {"claimed", "open", "decided"}
                 /\ handler[h].event = e
                 /\ inbox[e].token = h

\* The process dies: an open transaction is rolled back, nobody is answered.
Crash(h) ==
  /\ handler[h].pc # "idle"
  /\ faults > 0
  /\ faults' = faults - 1
  /\ touched' = touched \cup {handler[h].event}
  /\ handler' = [handler EXCEPT ![h] = Idle]
  /\ UNCHANGED <<inboxVars, pending, bookVars, sub, jobVars, passes>>

\* A minute passes since the claim, under a dead holder or a slow one.
LeaseLapses(e) ==
  /\ inbox[e].status = "PROCESSING"
  /\ e \notin lapsed
  /\ IF \E h \in Handlers : Holding(h, e)
     THEN faults > 0 /\ faults' = faults - 1
     ELSE UNCHANGED faults
  /\ lapsed' = lapsed \cup {e}
  /\ UNCHANGED <<inbox, mapped, pending, handler, bookVars, sub, jobVars,
                 passes, touched>>

\* A relationship #resolveWorkspace reads is written at last.
MapWorkspace(e) ==
  /\ e \notin mapped
  /\ mapped' = mapped \cup {e}
  /\ UNCHANGED <<inbox, lapsed, pending, handler, bookVars, sub, jobVars, boundVars>>

-----------------------------------------------------------------------------
(* The subscription's other writers.                                         *)

\* A pass of the scheduler lists the subscriptions it is for; each is read
\* again in the transaction that handles it, and not checked again.
Lists(pass) ==
  /\ pass \notin listed
  /\ IF pass = "dunning" THEN ~sweep /\ sub.status = "PAST_DUE" /\ sub.since # None
                         ELSE cycle = None /\ sub.status \in Serving
  /\ passes > 0 /\ passes' = passes - 1
  /\ listed' = listed \cup {pass}
  /\ UNCHANGED <<inboxVars, pending, handler, bookVars, sub, sweep, cycle, faults, touched>>

\* advanceDunning reads the row: is its grace period over?
DunningReads ==
  /\ "dunning" \in listed
  /\ listed' = listed \ {"dunning"}
  /\ \/ /\ sub.since # None /\ ~sub.suspended
        /\ \E made \in 1..Cardinality(Failures) : DunningStep(made, TRUE) = "suspend"
        /\ sweep' = TRUE
     \/ UNCHANGED sweep
  /\ UNCHANGED <<inboxVars, pending, handler, bookVars, sub, cycle, boundVars>>

\* It writes without a condition, or its transaction fails.
DunningWrites ==
  /\ sweep
  /\ sweep' = FALSE
  /\ \/ sub' = [sub EXCEPT !.status = "SUSPENDED", !.suspended = TRUE]
     \/ UNCHANGED sub
  /\ UNCHANGED <<inboxVars, pending, handler, bookVars, listed, cycle, boundVars>>

\* advanceCycleWithin reads the period it ends.  The customer may have asked
\* to end the subscription, or changed their mind, at any time before.
CycleReads ==
  /\ "cycle" \in listed
  /\ listed' = listed \ {"cycle"}
  /\ \E to \in {"CANCELLED", IF sub.status = "TRIALING" THEN "EXPIRED" ELSE sub.status} :
       cycle' = [period |-> sub.period, to |-> to]
  /\ UNCHANGED <<inboxVars, pending, handler, bookVars, sub, sweep, boundVars>>

\* Mutant: the write of the cycle is not conditional on the period it read.
SameBoundaryAny == TRUE

\* The boundary it read is the boundary that is there.
SameBoundary == sub.period = cycle.period

CycleWrites ==
  /\ cycle # None
  /\ cycle' = None
  /\ \/ /\ SameBoundary
        /\ sub' = [sub EXCEPT !.status = cycle.to,
                              !.period = IF cycle.to \in {"CANCELLED", "EXPIRED"}
                                         THEN @ ELSE @ + 1]
     \/ UNCHANGED sub
  /\ UNCHANGED <<inboxVars, pending, handler, bookVars, listed, sweep, boundVars>>

-----------------------------------------------------------------------------
Settle(h) == \/ CheckoutCompleted(h) \/ CheckoutCancelled(h) \/ InvoicePaid(h)
             \/ PaymentFailed(h) \/ SubscriptionEvent(h) \/ ChargeRefunded(h)

Next ==
  \/ \E h \in Handlers, e \in Events : Receive(h, e) \/ Replay(h, e)
  \/ \E h \in Handlers : \/ Claim(h) \/ Open(h) \/ Settle(h) \/ TransactionFails(h)
                          \/ Release(h) \/ Crash(h)
  \/ \E e \in Events : LeaseLapses(e) \/ MapWorkspace(e)
  \/ \E pass \in {"dunning", "cycle"} : Lists(pass)
  \/ DunningReads \/ DunningWrites \/ CycleReads \/ CycleWrites

\* Requests are served: every handler goes on, the provider delivers what it
\* was not answered, and a dead holder's minute passes.
Fairness ==
  /\ \A h \in Handlers : WF_vars(Claim(h) \/ Open(h) \/ Settle(h) \/ Release(h))
  /\ WF_vars(\E h \in Handlers, e \in Events : Receive(h, e))
  /\ WF_vars(\E e \in Events : LeaseLapses(e))

Spec == Init /\ [][Next]_vars /\ Fairness

-----------------------------------------------------------------------------
\* The rows and the requests hold only values the program can write, and a
\* request that is past its claim has spent an attempt on it.
TypeOK ==
  /\ inbox \in [Events -> [status : InboxStatuses, attempts : 0..MaxAttempts,
                            token : Handlers \cup {None}]]
  /\ \A e \in Events : inbox[e].status = "PROCESSING" <=> inbox[e].token # None
  /\ lapsed \subseteq Events /\ mapped \subseteq Events /\ touched \subseteq Events
  /\ pending \in [Events -> Nat]
  /\ \A e \in Events : Cardinality(InFlight(e)) <= pending[e]
  /\ \A h \in Handlers :
       handler[h] # Idle =>
         /\ handler[h].pc \in {"recorded", "claimed", "open", "decided"}
         /\ handler[h].event \in Events
         /\ inbox[handler[h].event].status # "NONE"
         /\ (handler[h].pc = "recorded") <=> (handler[h].tries = 0)
         /\ handler[h].tries <= MaxAttempts
         /\ (handler[h].pc = "decided") <=> (handler[h].outcome # None)
  /\ session \in [Sessions -> {"PENDING", "COMPLETED", "CANCELLED"}]
  /\ attempts \subseteq Events
  /\ sub \in [status : SubStatuses, since : Nat \cup {None}, suspended : BOOLEAN,
              lastAt : Nat \cup {None}, period : Nat]
  /\ listed \subseteq {"dunning", "cycle"} /\ sweep \in BOOLEAN
  /\ faults \in Nat /\ passes \in Nat

\* The dunning clock points at a failed payment on record, and whoever is
\* past due has one, whatever the cycle sweep, the dunning sweep and a
\* payment that settles meanwhile write over each other.
DunningHasCause ==
  /\ sub.since # None => \E e \in Failures : At[e] = sub.since
  /\ sub.status = "PAST_DUE" => sub.since # None

\* The books as EventBook sees them.
Verdict(status) ==
  CASE status = "PROCESSED"                    -> "done"
    [] status \in {"DUPLICATE", "STALE"}       -> "void"
    [] status = "FAILED"                       -> "refused"
    [] status \in {"UNRESOLVED", "DEAD_LETTER"} -> "parked"
    [] OTHER                                   -> "open"

Books == INSTANCE EventBook WITH
  book <- [t \in Targets |-> IF booked[t] = << >> THEN None
                             ELSE IF Len(booked[t]) = 1 THEN booked[t][1] ELSE "twice"],
  verdict <- [e \in Events |-> Verdict(inbox[e].status)]

\* Under any overlap, crash, lapsed lease, lost answer or replay, an event is
\* entered in the books once and decided once, as EventBook says.
ImplementsEventBook == Books!Spec

\* A checkout paid with the amount agreed is void only if the same purchase was
\* settled by another payment, whatever closed the session before it
\* (CheckoutService.cancel: a completed event resurrects a cancelled session).
PaidIsHonoured ==
  \A e \in Events \ Wrong :
    Kind[e] = "completed" /\ inbox[e].status = "DUPLICATE" =>
      \E i \in DOMAIN booked[Target[e]] : Kind[booked[Target[e]][i]] = "completed"

\* Nothing is left undecided: an event the provider sent has its outcome,
\* unless a process died on it or an operator replayed it, and then only if
\* every delivery was answered (IN_PROGRESS is answered 200).
Looked(e) == \/ inbox[e].status \in Settled
             \/ pending[e] = 0 /\ (e \in touched \/ inbox[e].status = "NONE")

Decided == []<>(\A e \in Events : Looked(e))
=============================================================================
