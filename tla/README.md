# BrandSpace: verification project

TLA+ models of the parts of the BrandSpace platform that keep money, credits,
reviews and posts consistent while callers race, processes die, answers are lost
and the scheduler sweeps up behind them. Paths below are relative to `src/`.

1. [The system](#1-the-system)
2. [The modules and the code](#2-the-modules-and-the-code)
3. [The runs](#3-the-runs)
4. [Bounds, fairness, assumptions](#4-bounds-fairness-assumptions)
5. [What is proved](#5-what-is-proved)
6. [Disagreements found](#6-disagreements-found)
7. [What is not modelled](#7-what-is-not-modelled)
8. [Plan](#8-plan)

## 1. The system

BrandSpace is a multi-tenant marketing platform: five applications over
twenty-six TypeScript packages, one PostgreSQL database, Redis queues (BullMQ)
and an object store. `apps/web`, `apps/dashboard` and `apps/admin` are pages and
server actions; `apps/api` holds the HTTP routes, the provider webhooks and the
**scheduler**; `apps/worker` consumes the queues. The worker and the dashboard
hold a tenant identity (row-level security), the scheduler a platform one: it
enumerates work across workspaces and enqueues it per workspace.

| Component (package) | State it keeps | Operations | Hard behaviours | What makes it correct |
| --- | --- | --- | --- | --- |
| Credit ledger (`entitlements/src/credit-ledger.ts`, `credit-policy.ts`, `credits.ts`) | wallet (balance, reserved, lifetimes), grant buckets with expiry, reservations with frozen allocations, append-only transaction rows under a unique key | grant, reserve, settle, release, sweep of abandoned reservations, expiry, cycle reset, operator adjustment | any order of these; clock read before the lock; two passes over a half-held bucket; retries of a boundary | the three records of a hold agree; the ledger replays to the balance; a hold can always close; a boundary is applied once |
| AI gateway (`ai-gateway/src/gateway.ts`) | request rows (status, idempotency key, reservation, cost), usage ledger, moderation rows | execute: replay or claim the key, budget, reserve, moderate, walk the model chain, settle or release, record | an await between every read and its write; crash anywhere; a deadline against a hold's ttl; retries of a failed key | one run and one charge per key; failures free; successes paid; no credits held for ever |
| Scheduler (`apps/api/src/scheduler.ts`) | none of its own | periodic sweeps: publishing dispatch and recovery, reservations, expiry, cycle resets, billing, ingestion, automation, analytics, retention | two instances; a pass that fails half way; a limit per pass | every due row is reached; a failing row starves nobody |
| Publishing pipeline (`social-connectors/src/publishing.ts`, worker processor) | publish jobs (status, claim, attempts, provider id), attempts, slot lifecycle | materialise, claim, preflight, send, verify, retry, recover, cancel | one transaction around an external call; lost or misread answers; words read twice; two sweeps of one slot; two jobs of one slot ending together | at most one post per job; a slot's state follows its jobs; the words were reviewed |
| Social connections (`social-connectors/src/oauth.ts`, `connections.ts`) | connection rows (status), live credential | connect, refresh, check, disconnect; marks by publishing and analytics | everybody writes the status by id, after a call to the platform | no job is sent without a usable connection |
| Billing reconciler (`billing/src/reconcile.ts`) | provider event inbox (lease, token), checkouts, subscriptions, invoices, payments | receive, claim, settle in a transaction, release, replay | duplicated, late and reordered events; a lease that runs out; crash between commit and release | an event settles once; the loser of a lease changes nothing |
| Checkout, subscriptions, invoices, dunning (`billing/src`) | checkout sessions, subscription cycles, numbered invoices, credit notes | start, complete, renew, dun, credit | retries, webhook against return page | one activation per payment |
| Entitlements and quotas (`entitlements/src/usage.ts`, `service.ts`) | usage counters and records per period | consume, consume against live rows, refund | counter against the rows it counts; refunds below zero | never above the limit; a retry counts once |
| Content and approvals (`content/src/approvals.ts`, `studio.ts`, `calendar.ts`) | items, variants, approval requests with a fingerprint, slots | submit, decide, cancel, edit, schedule | an edit between reading and deciding | what is published is what was approved |
| Automation (`automation/src/engine.ts`) | rules, runs per occurrence, confirmation tokens | deliver, run, confirm, expire | duplicated deliveries; a daily ceiling | one run per occurrence |
| Copilot (`copilot/src/plans.ts`, `executors.ts`) | plans with a hash, steps, undo records | propose, confirm, execute, undo | stale plans, double confirmation | what runs is what was confirmed |
| Authentication (`auth/src`) | sessions, invitations, memberships, rate limits | sign in, invite, accept, revoke | token reuse | a token works once |
| Analytics (`analytics/src`) | cursors with leases, metric windows, insights | ingest, backfill, detect | overlapping windows | no sample counted twice |
| Brand brain, intelligence, creative | documents, chunks, strategies | ingest, retrieve, generate | restarts of a parse | status column follows the job |
| Assets, storage | asset rows, object keys, derivatives | upload, process, sweep | object without a row | sweeps remove only orphans |
| Configuration, secrets, vault | versioned settings, wrapped keys | draft, publish, rotate | two publishers | one active version |
| Jobs, worker | queue messages | enqueue, consume | duplicated or lost messages | the database decides, the queue only hints |
| Database, tenancy | connections, row-level security context | withWorkspace | one transaction per unit of work | atomicity, assumed here |
| Provider integrations, notifications, activity, observability, onboarding, shared, ui | provider bindings, feeds, helpers | | | |

**How they interact.** The dashboard, the copilot, automation and the content
studio call the AI gateway; the gateway calls the ledger (`reserve`, `settle`,
`release`) and the provider adapters. Billing calls the ledger through a port
(`credits-port.ts`: grants of packs and allowances). The scheduler calls the
ledger's sweep, expiry and cycle reset, and enqueues publishing, ingestion,
analytics and automation work; the worker runs it. They share state only through
the database; no two of them share memory. All conflicts are therefore settled
by row locks, unique keys and conditional updates, which is what the models are
about.

## 2. The modules and the code

    CreditPolicy          pure rules of credit-policy.ts
      |        \
    CreditLedger  SpendingLoop        the wallet / the loop its closed form stands for
      |  implements
    CreditAccount         what the ledger promises its callers
      |  is used by
    AiGateway             a workspace's AI requests
    ReservationSweep      the sweep as a loop of its own transactions

    ContentPlanning       reviews, edits, the calendar and the monthly quota
      |  is composed with
    PublishPipeline       the sweeps, the queue, the worker, the connections and the platforms

    BillingInbox          the provider's events, the settlements, the dunning
      |  implements
    EventBook             what the inbox promises of an event

    AutomationRun         rules, the event outbox, deliveries, proposals

    CreditPolicyProofs    the sums and the spending order, for the two after it
    CreditLedgerProofs, SpendingLoopProofs, ReservationSweepProofs,
    AiGatewayProofs, ContentProofs (ContentPlanning, PublishPipeline and the
    two together), BillingInboxProofs, AutomationProofs
    MC*.tla, *.cfg        instances for TLC

**CreditPolicy** translates `credit-policy.ts`: `FifoByExpiry` (spending order),
`AllocateFifo`, `NarrowAllocation`, `Shortfall`, `RolloverAmount`, `ExpiryFor`.
`allocateFifo` sorts and loops; the operator is its closed form (a bucket gives
what is left after all buckets ahead of it), so that a transaction of the ledger
stays one formula. A date is a natural number, `Never` a null `expiresAt`.

**SpendingLoop** runs the loop as the code writes it, one bucket per step, over
every assignment of dates and amounts of the instance, and is checked to end with
the closed form.

**CreditLedger** is one workspace's wallet. `wallet`, `buckets`, `reservations`
and `ledger` are the rows of `credit_wallet`, `credit_grant`,
`credit_reservation` and `credit_transaction`; `now` is the wall clock. Every
mutation of `credit-ledger.ts` runs in one transaction that locks the wallet row
`FOR UPDATE` first (settle, release: the reservation, then the wallet), so each is
one action: `Grant`, `Reserve`, `Settle`, `Release`, `SweepReservation`,
`ExpireLapsedGrants`, `RunCycleReset`, and `Adjust` of `credits.ts`. Three things
the lock does not serialise are kept:

- the clock is read *before* the lock is waited for, so an action runs with a time
  `t \in ReadTimes` up to `MaxLag` old;
- the order in which transactions get the lock is free;
- the marker of a cycle reset is read before the lock; the unique key of its row
  is what refuses the second run (`Append`).

A transaction the database refuses (a CHECK: `Accepted`; a used key: `Append`)
rolls back whole and has no step. A retry whose key is recorded changes nothing
and is a stuttering step. Ledger rows are a set of records under the unique key
`<<tag, id, bucket>>`; the ordering of rows in a transaction survives only in
their running balance `after`.

**CreditAccount** is the abstract specification: balance, held, holds; a hold is
taken from what is not held, ends once, is charged at most what it held, and
nothing else takes what it covers. `CreditLedger!LedgerIsAnAccount` is the
refinement (balance and reserved of the wallet; status, estimate and charge of
each reservation).

**ReservationSweep** opens the action `SweepReservation` up:
`sweepAbandonedReservations` reads batches ordered by deadline and releases row by
row, each in its own transaction, while callers close reservations of their own;
some rows can never be released. `Begin`, `ReadBatch`, `Attempt`, `Stop` are the
loop's steps; `failed` lives for one sweep only, as in the code. Only such permanent
failures are modelled: the catch takes a transient one the same way, and the next sweep
tries its row again.

**AiGateway** is `execute` for the requests of one workspace. An execution `e` is
named by the reservation it may take (`ai:<request id>`) and is at the place
`pc[e]`; every `await` ends an action, so executions interleave between the read
of a row and its update and a crash (`Crash`) may fall on any await.

| `pc` | action | code |
| --- | --- | --- |
| `lookup`, `reread` | `Lookup` | `#replayIfRecorded`, the read |
| `supersede`, `resupersede` | `Supersede` | `#replayIfRecorded`, the conditional rename |
| `admit` | `Admit` | `assessBudget` |
| `create` | `Create` | `#createRequest`, the unique index |
| `reserve`, `mark` | `Reserve`, `Mark` | `ledger.reserve`, the row learns its reservation |
| `moderate`, `unhold blocked`, `block` | `Moderate`, `UnholdBlocked`, `Block` | `#moderateInput`, `#blockForModeration` |
| `start`, `attempt`, `calling` | `Start`, `Attempt`, `ProviderAnswers`, `ProviderFails` | `#runChain`, retries and fallback under one deadline |
| `settle`, `record` | `Settle`, `Record` | `#settle`: the wallet, then the row and its usage entry |
| `release`, `fail` | `ReleaseFailed`, `RecordFailure` | `#releaseAndRecord`, `#recordFailure` |

The wallet is `CreditAccount`, the interface the ledger is checked to implement;
`OtherMovement` is a grant, an expiry or a reset beside the requests, `SweepHold`
the ledger's sweep. Failure classes are kept as far as the gateway tells them
apart (transient, worth a fallback, deterministic, none of these). Cost is a
member of `Charges`, the estimate a constant.

**ContentPlanning** is a workspace's items with their reviews (`approvals.ts`), edits
(`library.ts`, `studio.ts`), calendar slots (`calendar.ts`) and monthly quota
(`usage.ts`). `status`, `deleted`, `words`, `approvals`, `slots`, `used`, `events`
are the rows; `gate` is the policy `requireApprovalBeforeScheduling`; `tx[u]` is
the request a session has open, between its reads and its commit.

| Code | Actions |
| --- | --- |
| `submit`, `decide`, `cancel` of `ContentApprovalService` | `SubmitReads`, `SubmitCommits`; `DecideReads`, `DecideCommits`; `CancelReads`, `CancelCommits`. The verdicts hold the row lock of the approval from read to commit (`Locked`); the cycle's number comes from an unlocked count |
| edits and `transition` of the library | `EditReads`, `EditCommits`; `TransitionReads`, `TransitionCommits` |
| the studio's tools, the undo of a draft, retention | `ApplyTool`, `ArchiveItem`, `PurgeExpired`: one statement each |
| `schedule`, `reschedule`, `unschedule` | `ScheduleReads`, `ScheduleCommits`; ...; `UnscheduleReads`, `UnscheduleLocks`, `UnscheduleCommits`: the slot is read first, its update takes the lock, the item is read under it |
| `consume`, `refund` of `UsageService` | `Consume`, `Refund`, in the commits of the calendar; `NextMonth` moves the period |

Every transaction is READ COMMITTED: what it read may be stale when it writes, and
an item is updated by id alone (`SetStatus`). `Abort` is a refusal or an error
anywhere.

**PublishPipeline** EXTENDS ContentPlanning, whose steps (`Request`) go on beside it.

| Code | Actions |
| --- | --- |
| `sweepPublishing` (`scheduler.ts`), `materialiseSlot`, by any number of schedulers | `MaterialiseReads`, `MaterialiseCommits`, `MaterialiseAborts`, `Dispatch` |
| the queue and its retention (external) | `message`, `deliveries`; `Evict` |
| `execute` in the worker's one transaction | `Claim`, `Preflight`, `Send` (with `AfterAnswer`: failure classes, lookup, retry), `Settle` (with `SyncLifecycle`), `Refused` (a CHECK), `Lose` (a crash, the 15 s timeout) |
| `#recordAttempt` under the unique key of `publish_attempt` | `jobs[j].recorded`; in `Send`, a number that is taken rolls the transaction back |
| `cancel` | `CancelJob`, then `Settle` |
| `retry`, `resolveVerification` | `ClickReads`, `ClickQueues`, `ClickPublishes`, `ClickAborts` |
| `#connect`, `disconnect` | `Connect`, `Disconnect` |
| `refresh` with `#markNeedsReauth`, `checkHealth` | `ProbeReads`, `ProbeWrites`, `ProbeAborts`, `CheckFindsNone` |
| `#recordConnectionFailure` of the analytics | `IngestionFails` |

`run[j]` is the transaction that holds the row of job `j`. The claim is not
committed before the post is sent, so a rolled back transaction leaves a job that
looks untouched (`RollsBack`). Each statement of it reads what is committed then, and
the model keeps the reads that matter apart: the preflight compares the words, the send
takes the words as they stand, `syncLifecycle` reads the siblings before the commit.
A post of `posts[j]` therefore has two words: those the preflight compared and those that
were sent.

What comes back from a platform that received a post (`OfAPost`) is success, the outage of
something in front of it, or an exception of the adapter as `classifyError` takes it
(`mock-adapters.ts:377-387`, the only adapters there are): AUTH_EXPIRED, AUTH_REVOKED,
RATE_LIMITED, TIMEOUT or UNKNOWN, whatever became of the post. A platform that refuses may answer with any class of
`Answers`.

A connection that was disconnected is not connected again: `#connect` creates a row of its
own. Refresh, check, analytics and a failed post write its status by id at any time after
they read it.

`astray[j]` is bookkeeping of the model: what made job `j` go astray first, so that its row
and the platform may disagree, or nothing. It is set in the step in which it happens, and
no action reads it.

| Cause | What happens | Code |
| --- | --- | --- |
| `lost` | the worker's transaction is lost behind a post | `publishing.ts:418`, in `withWorkspace` |
| `refused` | a constraint refuses it behind a post: the key of the attempt, a CHECK, the index of live slots | `publishing.ts:507`, `1337` |
| `missed` | a lookup does not find a post that landed | `publishing.ts:620` |
| `misread` | an exception behind a post passes for a refusal | `publishing.ts:529-555` |
| `denied` | a person says NOT_PUBLISHED of a post that is there | `publishing.ts:1051` |
| `stale` | a retry or a resolution queues the job by a row it read before the post | `publishing.ts:1154-1187` |

`resolveVerification` has no caller in the program (the dashboard offers cancel and retry);
it is modelled as the handler it is.

**BillingInbox** is `reconcile.ts` with the other writers of the subscription.

| Code | Actions |
| --- | --- |
| the webhook route, `#inboxRow`, `#claim`, `#release` | `Receive`, `Claim`, `Release`; the answer's status code is what `Answered` and RETRYABLE do to `pending` |
| `#resolveWorkspace`, the start of the transaction | `Open` |
| `#applyCheckoutCompleted`, `#applyCheckoutCancelled`, `#applyInvoicePaid`, `#applyPaymentFailed`, `#applySubscriptionEvent`, the refund | `CheckoutCompleted`, `CheckoutCancelled`, `InvoicePaid`, `PaymentFailed`, `SubscriptionEvent`, `ChargeRefunded` |
| failures, crashes, leases | `TransactionFails`, `Crash`, `LeaseLapses` |
| `replay` by an operator | `Replay` |
| `advanceDunning`, `advanceCycleWithin`, each after its listing | `Lists`, `DunningReads`, `DunningWrites`; `CycleReads`, `CycleWrites` |

**EventBook** is the abstract specification: a purchase or a failed attempt is
entered in the books once and for one event; an event is decided once, `done` only
if its effects are in the books, `void` only if the purchase was closed before, by a payment or by a cancellation. That a payment
behind a cancellation is void is what the code does and not what it says: `PaidIsHonoured`
and finding 6. `BillingInbox!ImplementsEventBook` is the refinement.

**AutomationRun** is `automation/src/engine.ts` with the producers of its events, the
queue between them and the confirmation of proposals. `rule`, `event`, `run` are the
rows of `automation_rule`, `automation_event`, `automation_run`; `message` and `tries`
are what the queue remembers of an event's job; `worker[w]` is a delivery under way and
`desk[p]` a person's request. `acts` and `sent` count what was carried out, apart from
what the rows say of it.

| Code | Actions |
| --- | --- |
| creating, switching and deleting rules; the creator's authority | `CreateRule`, `UpdateRule`, `DeleteRule`, `AuthorityChanges` |
| `recordAutomationEvent`, in the transaction of the domain change | `RecordDomain` |
| `schedule.ts`, the due hour | `NextHour`, `ProduceTimed` |
| `threshold-producer.ts`: the read, then the compare-and-swap with the event | `MetricMoves`, `EvaluateReads`, `EvaluateWrites`, `EvaluateAborts` |
| the dispatch sweep and the queue (external) | `Dispatch`, `Evict`, `QueueLoses`; `Stalls` and `Fails` of a worker |
| `processAutomationJob`, `deliver`, `#runRule` | `Take` (the rules are read once), `Evaluate` (one rule; the unique key waits for whoever inserted it), `Deliver` (the commit of all of it) |
| `reissueRunConfirmation`, `confirmRun`, `publishNow` | `AskReads`, `Issue`; `ConfirmReads`, `Claim`, `ConfirmCommits`, `Rollback`, `Leaves` |
| `#expireAutomationProposals` | `WindowCloses`, `Expire` |

A rule's creation counts the existing rules and inserts in one step, and an update or
deletion is one step. The refusals of a confirmer without the permission are `Leaves`.
A confirmed run is SUCCEEDED once its post is planned, even when `materialiseSlot` then
created no job (no connection, no variant for it).
The writes a failing action makes before it fails are not modelled.

## 3. The runs

Every property of a passing run has a mutant: a definition of the model replaced
by a plausible bug (kept beside it in the module, marked *Mutant*), under which
the same run finds the property violated.

| Run | Question | Shows |
| --- | --- | --- |
| `ledger` | do the wallet, the buckets, the reservations and the ledger stay consistent in any order of transactions? | `HoldsAreBacked`, `LedgerReplays`, `BalanceIsInBuckets`, `HoldsCanClose`; the action properties `TerminalStays`, `BoundaryAppliedOnce`, `BoundaryKeepsTheCap`, `SoonestExpiryFirst`; the refinement `LedgerIsAnAccount` |
| `credit_loops` | does the loop of `allocateFifo` compute the closed form, does narrowing charge exactly the cost; can rows that never release starve the others, or a race with a caller raise a false alert? | `LoopComputesAllocation`, `NarrowingIsExact`; `ReportIsTrue` and the liveness `NobodyIsStarved` |
| `gateway` | what may go wrong between the idempotency key and the charge, with crashes at every await? | `OneRunPerKey`, `ChargedOncePerKey`, `NoChargeForFailure`, `FailureFreesItsHold`, `SuccessIsPaid`, and the liveness `HoldsEnd` |
| `planning` | can the status of an item come apart from its review or its slot, can a verdict be overwritten, can the quota be passed, while two requests race? | `ReviewIsOpen`, `ScheduledIsPlanned`, `CounterCoversEvents`, `MonthIsMetered`; the action property `VerdictsStand` |
| `publishing` | can a post be sent twice, sent without a review, or be shown as something it is not, with two schedulers, lost transactions, lost and misread answers, repeated messages, connections that come and go and people retrying? | `StatusIsHonest`, `SentAsReviewed`, `SlotFollowsJobs`; the action property `NoBlindResend` |
| `billing` | can an event be settled twice, lost, or decided for nothing; can the dunning, the cycle and a payment leave a subscription past due without a cause? | the refinement `ImplementsEventBook`, `DunningHasCause`, and the liveness `Decided` |
| `automation` | can an action be carried out twice or be reported falsely, a crossing be announced twice or swallowed, an event or a proposal wait for ever, while jobs stall, workers die, the queue is lost and people race the expiry? | `OutcomeIsTrue`; the action property `CrossingIsNews`; the liveness `EverythingEnds` |
| `ledger_lapsed`, `ledger_deduction`, `gateway_charged_twice`, `publishing_resent`, `billing_paid_void` | does the code do what its comments say? | it does not: section 6 |

`MCCreditLoops` runs one of its two loops in a behaviour, the other rests in one state; they
share no variable. It checks no deadlock, because an allocation ends.

## 4. Bounds, fairness, assumptions

**Ledger.** Two direct grants of one credit (with and without an expiry), one
boundary whose allowance is one or two, two reservations of two credits each, one
gift. A reservation of two always spans two buckets, the second reservation
competes for what the first left, a bucket can lapse while it is held, the boundary
can meet held and free buckets. `MaxTime = 4` with `Ttl = 1` lets a
reservation be taken, lapse, be swept and its credits be written off;
`MaxLag = 1` gives every transaction a stale clock. The view drops the running
balance of rows already written, which no property reads again.

**Credit loops.** Of the allocation, three buckets, every combination of expiry (never, 1, 2), grant date and
spendable amount (0, 1, 3): all ties of the sort, exact fits, shortfalls and partly
used last buckets.

Of the sweep, five reservations, two of them unreleasable, deadlines in any order,
batches of two, at most two releases and three attempts in a sweep: both bounds
bite in the middle of a batch. `NobodyIsStarved` needs fewer unreleasable rows than
`MaxAttempts`; with as many of them, a sweep spends itself on the head of the
order, which the code accepts (see section 7).

**Gateway.** Three executions: two retries and a third caller are what the race on
a superseded key needs. Two ways to call them (one key, or two and one) stand for
all others up to renaming. Two models, two attempts each, so that both retry and
fallback happen and both run out; a budget of two concurrent requests, which refuses the third; charges
below and above the estimate; a wallet that covers one reservation at a time.
Two branches do not fire in the passing run, which shows them unreachable there: settling
a hold that was swept (needs `Grace < Timeout`, section 6) and a failed record after the
charge (`"record" \in Faults`, which `gateway_charged_twice` has). The third lost race of
`Supersede` needs more callers than three; the code marks it as not expected.

**Planning.** Two users, each with one request open: every property of the module is
about a read of one request made stale by the commit of another, and a pair shows
each. One item is reviewed and edited by all of them, a second is only planned, so
that it competes for the day and the quota. One review cycle, one day, two slots, two
months, a plan of one post a month: the limit is met, a slot is taken off the
calendar in a later month than it was placed in, and a refund repeats. `Words` has one
member there, because no property of this run reads it.

**Publishing.** One item and one slot, two schedulers, two connections. `c1` is there from the
start and can be asked for a post; `c2` cannot, may answer UNKNOWN, and is the one people
connect (before, between or after the two sweeps), refresh, check and disconnect and whose
failures they answer (`Handled`), so that a job can be made late, by a scheduler that read
more connections than the other. Two variants of the words, so that an edit can fall between
approval and send or between the two reads. Two attempts and two deliveries, so that both run
out. Two posts of `c2`'s job (a second post is what must not happen, a third would say no
more), one of `c1`'s, which goes astray by a lookup. Two requests of the publishing history
and one probe: a pair of retries is what the race on a FAILED row needs.
`MaxIncidents = 2` is one budget for lost transactions, writes of a connection after its first, clicks,
cancellations, edits and slots taken off the calendar: every pair of them, in every order,
beside everything that needs no incident; a longer story is left to the theorems, which
have no such bound. Requests of the same kind, the two words and the two schedulers are
interchangeable (`Symmetric`). 1,550,000 states. `publishing_resent` has the same instance.

**Billing.** Two request handlers at a time; eleven events, of which the provider
sends one or two by the story the run starts with: the same event twice with two faults, two
events about one purchase with one, and the events that race with the dunning and
the cycle without faults but with passes of the scheduler. A fault is a crash, a
lease that lapses under a living handler, or a replay. `MaxAttempts = 2` reaches
DEAD_LETTER. `Retries = 0` is a length `retryOffsetDays` may have (`domains.ts:1997`), and
lets one failed payment reach the suspension. Everything else of the calendar is a free choice: whether the
grace period is over, how many failed attempts fall in the episode.

**Automation.** Five workspaces (`MCStories`): a rule on a metric with two schedulers and no
fault, a rule for every hour with one fault, a rule that acts with two, a rule that
proposes with one, and the last two together without. One domain row, two deliveries and two
people at a time: a second delivery and a second person are what the unique key and the
token are there for. `MaxPerDay = 1` is the ceiling met at the second run, `MaxDeliveries =
2` lets a job run out, `MaxCycle = 1` re-arms a rule once, `MaxHour = 1` gives a second hour,
`MaxTokens = 2` issues a token over another one, `MaxFaults = 2` covers a stall together with
a lost queue. Authority, hours, metrics and domain rows change only while an existing rule
looks at them. The window of a day is a free choice: a run at the ceiling may be blocked
and need not be. `Lead = 0`, because with any other value no confirmation succeeds
(section 6); the theorems hold for every `Lead`. 575,608 states.

**Fairness.** The scheduler starts its sweeps again and again
(`every(...)`, `scheduler.ts`), so `SweepReservation`, `SweepHold` and the loop of
`ReservationSweep` are weakly fair. A live process takes its next step and a
provider call ends at its deadline at the latest (an abort signal), so `Step(e)` is
weakly fair; a crashed one takes none. `Tick` is fair: time passes until the
bound. Callers owe nothing: `Call`, `CallerCloses`, `Grant` and the provider's
choice of answer are not fair. `Decided` assumes of the inbox: a handler that is not
dead takes its next step (`Claim`, `Open`, `Settle`, `Release`; a process is not
suspended for ever), the provider delivers what it was not answered 200 for
(`Receive`, its documented retry), and a minute passes (`LeaseLapses`, which reads the
database's clock). Nothing is assumed of the operator, of `TransactionFails` or of the
writing of a missing relationship. Planning and publishing state safety only: the
queue's retention (`Evict`) gives no promise to build a liveness property on, see
section 6. `EverythingEnds` assumes of the automation that the dispatch and the expiry sweep
run every minute, that workers take jobs and go on with them, that a claimed request ends
(the transaction's timeout), and that time passes. None of it is fair to one event, job or
run: each action is taken of some of them. `EverythingEnds` therefore counts out the events
whose job the queue keeps as failed, and `Evict`, faults and people owe nothing.

**Assumptions.** A database transaction is atomic and row locks exclude
(`withWorkspace`). A request's steps other than moderation, provider calls and
backoff take no time worth counting against the timeouts (`Tick` waits for them).
`SuccessIsPaid` is checked for `Grace >= Timeout`, that is for route timeouts up to
the 60 s grace of `gateway.ts:567` (the default is 30 s); for longer ones see section 6. The rows' updates may
fail at `"mark"`; the record's failure is finding 3. Executions are called early
enough to end before the clock's bound (`Call`), so that the bound hides nothing.

## 5. What is proved

`tlapm M.tla` checks every step of each module `M` named here. The
results hold for every value of the constants that satisfies the modules' named
assumptions, which say no more than that identifiers are finite sets, amounts and
times naturals and the names of absent things nobody's.

Every safety property a run checks is the subject of a theorem; the liveness properties
are not (see the end of this section).

**CreditPolicyProofs.** What the rules of `credit-policy.ts` compute, for every finite set of
buckets, all dates and all amounts.

- Sums. An amount is a sum over buckets, and the sum of the community modules is a fold: a
  recursive function that picks the elements of a set in an unknown order. `SumAdds` shows
  that the fold exists and meets its equation, `SumRemoves` that the order of picking does
  not matter; the other laws (`SumInserts`, `SumUnion`, `SumPlus`, `SumBounds`, `SumChanges`,
  `SumOverImage`, ...) follow. The induction is over the subsets of a finite set. The
  library states it with an operator `P(_)`, which the provers here cannot instantiate;
  `SetInduction` states the hypothesis as a family of sets and gets it from the
  well-foundedness of the strict subset ordering.
- Spending order. `FifoOrders` and `FifoTransitive`: a strict total order; `LastExists`:
  some bucket of a set is spent last, which is what the induction takes away.
- `AllocationIsExact`: an allocation takes the amount exactly, or all there is.
  `AllocationIsInOrder`: it reaches a bucket only when those ahead have given all they had.
  `NarrowingChargesTheCost`: a settlement charges exactly its cost, and no bucket more than
  the hold had frozen in it.

**SpendingLoopProofs.** `LoopIsAllocateFifo` (`LoopComputesAllocation`) and
`LoopNarrowsExactly` (`NarrowingIsExact`). The invariant (`LoopInv`) is about the buckets
visited so far: they gave their share of the closed form, and what is outstanding is the
amount less what they could give. It is inductive because the sort makes the visited
buckets those spent before the one at hand (`AheadInOrder`, from `OrderIsWhole`: an order
without repetition of as many places as there are buckets lists each). The ledger's theorems are about the
closed form; these two make them theorems about the loop.

**CreditLedgerProofs.** All the properties of the `ledger` run, for any number of buckets,
reservations, cycles, entries and times. The module extends CreditPolicyProofs.

Two action properties are about which rows a transaction may write, not about how much:

- `TerminalReservationsStay` (`TerminalStays`): a settled, released or swept
  reservation never changes again. `TerminalStep` takes one action at a time: each of the
  three that end a reservation is guarded by OPEN, and no other writes the table.
- `BoundariesAppliedOnce` (`BoundaryAppliedOnce`): a cycle boundary that left a row
  on the ledger neither gains nor loses one. By itself the property is not
  inductive: the code looks for one row of the boundary only, its marker.

The invariant `LedgerInv` says that the books agree:

| Part | Says | Needed because |
|---|---|---|
| `Types` | the rows and the CHECKs of the schema | `LedgerTypeOK`; the sums are of naturals |
| `GrantsRecorded` | a bucket that exists has its key on the ledger | a grant the unique key refuses would otherwise add a bucket and no row |
| `BoundariesWhole` | the marker of a boundary is there whenever any of its rows is | the reset that finds no marker writes all rows or, refused by the unique key, none |
| `Holds` | the open reservations, the buckets' columns and the wallet's record the same holds (`HoldsAreBacked`), and an open hold is frozen to the last credit (`HoldsAreWhole`) | settle and release take the allocation off the buckets and the estimate off the wallet: without `HoldsAreWhole` the two would part |
| `Books` | the balance is the replay of the ledger, and the rest of the buckets but for what operators entered | a bucket's debit, the wallet's and the ledger's rows are three writes |

Each transaction is shown to move all of these by the same amount (`LedgerInvHolds`). From it:
`LedgerTypeOK`, `HoldsStayBacked` (`HoldsAreBacked`), `BalanceReplaysLedger`
(`LedgerReplays`), `BalanceStaysInBuckets` (`BalanceIsInBuckets`), `BoundariesKeepTheCap`
(`BoundaryKeepsTheCap`), `HoldsTakeSoonestExpiry` (`SoonestExpiryFirst`). None of these has
a hypothesis on what operators do or on the lag of the clocks.

Closing a hold does: the database refuses a balance below what is held, and an operator's
deduction may take it there (finding 2). So:

- `CoveredHoldsCanClose`: while the balance covers what is held (`Covered`), every open hold can
  be settled and released, whatever operators entered before.
- `HoldsAlwaysClose` (`HoldsCanClose`) and `LedgerImplementsAccount` (`LedgerIsAnAccount`, the
  refinement) assume `OnlyGifts`: operators only add. That is the hypothesis the `ledger`
  run makes of `Adjustments` and the run `ledger_deduction` drops. With it what operators
  entered is positive, so the balance covers what is in the buckets and they cover the holds. In the refinement,
  a step that leaves the reservations alone is the account's `MoveBalance`, allowed because
  `Covered` holds after it.

**ReservationSweepProofs.** `SweepReportsTruly` (`ReportIsTrue`), for any rows, deadlines, batch
sizes and bounds. The report is written when an empty batch is read, and an empty batch means
that there is no candidate only because the bound leaves an attempt to make (`EmptyBatchIsTheEnd`: a
query for zero rows is empty too). From then on callers only take candidates away.
`SweepCountsAttempts` has no run: a sweep tries no row twice, so `attempted` is `swept` and the
named failures, within both bounds. Its invariant, `Untried`, follows the batch: read without
repetition and without the failed rows, it loses its head to one of the two counts.

**AiGatewayProofs.** All the safety properties of the gateway, for any number of
callers and keys, any chain, budget, timeout and price. Frame lemmas come first
(`StepIs`, `OthersStay`, `OthersRow`, `TimeStays`, `OwnRow`): a step is one
execution's, and leaves to the others all but the name of a failed row. Each part
of the invariant is then a statement about the execution that moves.

| Part | Says | Needed because |
|---|---|---|
| `Typed`, `InTime` | types; who runs has time left before `MaxTime` | the deadline sums stay in the clock's range: the bound hides no step |
| `Claimed` | who runs bears its key with a live row; a row seen for supersession has failed; a key is borne once | a superseder may only take the key of a row nobody runs, even if it read that row long ago |
| `Unheld` | before `fail` and `block` a reserved row's hold has ended | the release and the record are two transactions, the sweep may come between |
| `Charged` | a charged hold's row still bears its key, and succeeded, is about to, or died in between | two attempts under one key are told apart by the key alone |
| `Covered` | the hold of who waits for a provider is open beyond the deadline it waits for | the sweep runs beside the request |
| `Backed`, `Billed` | what is held is the estimate times the open holds; only a success costs | `held <= balance` is not inductive alone |

- `AtMostOneRunPerKey` from `Claimed`; `FailuresHoldNothing` from `Unheld`;
  `GatewayTypeOK` from all of `Typed`, `Claimed`, `Backed` and `Billed`.
- `FailuresAreFree` and `OneChargePerKey` from `Charged`, and only if the record of an
  outcome cannot fail (`"record" \notin Faults`). That hypothesis is what finding 3
  drops.
- `SuccessesArePaid` from `Covered`, and only if `Grace >= Timeout`, which a longer timeout
  breaks (section 6): the chain starts after moderation, so a call may end two
  timeouts after the hold was made.

**ContentProofs, planning.** All the properties of the `planning` run, for any number of
items, users, days, cycles and months. Items are written by id alone on stale reads, so
the invariant (`PlanInv`) says what an open request may rely on. It comes in three layers, each
kept on the strength of the ones before: `Base` (types, `Holding`, `ReviewIsOpen`,
`Requested`), `Calendar` (`OneLive`, `Replaced`, `ScheduledIsPlanned`) and `Quota` (`Metered`,
`CounterCoversEvents`). The first is all the pipeline needs, and all it leaves standing.

| Part | Says | Needed because |
|---|---|---|
| `Holding` | who decides or withdraws holds the row of a pending cycle, alone; a withdrawal that did not see the item in review is right to leave it | nobody can submit while a cycle is pending, so what a withdrawal read of the item stays good enough until it commits |
| `OneLive`, `Replaced` | an item has one live slot; who takes a slot off and did not see the item scheduled leaves another slot behind if it is | two people take two slots of one item off at once, one reading before a new schedule |
| `Metered` | every slot was consumed in its month; a refunded slot is cancelled | the live slots and the refunded own slots of a month are different units |

- `ReviewsStayOpen` from `Holding`, `ScheduledArePlanned` from `Replaced`,
  `CounterIsCovered` by counting each event as it is added.
- `MonthsAreMetered`: the live slots of a month map one to one into the consumed units of
  live slots, the refunds of own slots into those of cancelled ones; the two parts make
  up what was consumed, which the counter and the refunds cover, and the counter is at
  most the limit. No induction over data is needed.
- `VerdictsStandFast`: only a closing request writes an existing row, and it holds a
  pending one.

**ContentProofs, pipeline.** `NothingIsResentBlindly` (`NoBlindResend`) and `StatusesAreHonest`
(`StatusIsHonest`), for any number of jobs, connections, schedulers, attempts, answers and lost
transactions. `PipeInv` is the shape of the tables, `ClicksSound` (a retry that read a job with a
post read one that was astray already), and one statement per job, `JobInv`:

| Part | Says | Needed because |
|---|---|---|
| `Worker` | a message is active only for a queued job whose transaction is open, and only an active message brings a job to its preflight | a second delivery, another scheduler or an evicted message finds the row or the message taken |
| `Shows` | a published job has a post, or a person named one | it holds however astray the job is |
| `Sound` | unless the job is astray, its row and the transaction on its way to it deny a post only when there is none | the row is written later than the post lands |

The six causes are therefore all there are: `Sound` is broken nowhere else. That two of them are
against the comments of the code is what `publishing_resent` shows.

**ContentProofs, the two together.** What the pipeline and the planning guarantee of the words
that go out, on top of the two parts before: `PostsAreReviewed` (`SentAsReviewed`),
`SlotsFollowTheirJobs` (`SlotFollowsJobs`), `ReviewsStayOpenWhilePublishing` (`ReviewIsOpen`, which the
`planning` run checks without the pipeline) and `PublishTypesHold`. `PostInv` is `Base` and `PipeInv` with:

| Part | Says | Needed because |
|---|---|---|
| `RunsSound` | past its preflight a transaction holds words that an approval covers | the preflight is earlier than the send |
| `PostsReviewed` | so does every post that is out, of the words that were compared | verdicts are never rewritten, so an approval goes on covering the words after the item moved on |
| `Fit`, `Backed` | a job has a slot, a click has a job, a scheduler a slot and its connections | the parts above are about them |

`PostsAreReviewed` says nothing of an edit between the two reads: the words compared were
approved, those sent need not be.

`SlotsFollowTheirJobs` rests on `PostInv` and on `Decided`: what a transaction that settles read of
the siblings still gives the slot it is going to write, unless another job of the slot was
settling when one of them committed (`overlapped`). A late sibling of a second sweep, a retry and a
cancellation leave a job that is not over, so that there is nothing to decide until it settles and
reads all of them again. No sweep needs to be alone.

`PublishTypesHold` (`PublishTypeOK`) rests on `PostInv`, on `ConnsTyped` and on `PipeTyped`, where a
message that waits has deliveries left and one that is absent or retained has none (`Queue`), and a
transaction carries attempts and words of their types to its commit (`Carries`).

**BillingInboxProofs.** `InboxImplementsEventBook`, the refinement, and `PastDueHasACause`.
`InboxInv`: `BusyWithEvent` and `TokenMeansClaim` (who holds the lease's token has claimed
this event), `RowsMatchBook` (an effect is in the books once, with the row that is the
evidence of it), `OutcomesAreTrue`. `DunningInv`: a subscription is past due only behind a
failed attempt (`DunningHasCause`), what a pass of the scheduler read had its cause when it
was read (`ReadsHaveCause`), and a cycle that kept the status it read is still of the same
episode (`CycleKeepsItsEpisode`): an activation moves the period, so the cycle's write,
conditional on the period, cannot restore PAST_DUE over it.

`InboxTypeOK` (`TypeOK`) is from `TypeInv`, inductive with `InboxInv`. `Requests`: what a request carries
fits where it is, and the row of its event is there. `AttemptsBounded`: a claim spends an attempt,
never one more than the budget. `Deliveries`: the requests of the provider that are in flight are no more than
the deliveries it still waits for, since each leaves with at most one answer; this is why
`pending` never goes below zero, though several requests of one event are answered out of order.

**AutomationProofs.** Type correctness (`AutomationTypeOK`), `OutcomesAreTrue` and
`CrossingsAreNews`, for any number of rules, workers, people, schedulers and faults. `AutoInv`:
`Queued` (a worker that lost its job's lock may go on), `Told` (two open deliveries never
hold an outcome for one run, and none holds one for a run that exists: the unique key
waits for the other transaction), `OnlyExternalAwait`, `Spent` (a claimed request bears the
last token of a run that awaits; two do not claim one run), `Armed` and `Fresh` (an event of
a threshold rule exists for no later cycle than the rule's, and for its own only if the
rule is past the line).

Only model-checked: the liveness properties (`NobodyIsStarved`, `HoldsEnd`, `Decided`,
`EverythingEnds`). They need fairness and `ENABLED`, which the proof system does not handle.
The sort of `allocateFifo` and the order of a batch of the sweep are stated, not computed
(`Sorted` and `FirstOf` say what `Array.sort` and `ORDER BY` promise). That buckets can
always be sorted is `OrderExists`, so the loop always starts; that a batch can always be read is
seen in the run, where a sweep that could not go on would starve somebody.

## 6. Disagreements found

Each is shown by a run that expects one property to be violated.

1. **A half-held bucket is written off once only** (`ledger_lapsed`,
   `LapsedLeaves`). The write-off's ledger key is `expiry:<bucket>:<expiresAt>`
   (`credit-ledger.ts:912`). A bucket that was partly held at the first expiry pass
   needs a second one, whose row the unique index refuses; the whole transaction
   rolls back, in every later pass and in the cycle reset that runs it.
   `scheduler.ts:1339-1341` expects the bucket to leave "until the reservation
   settles or is swept".
2. **An operator's deduction takes held credits** (`ledger_deduction`,
   `HoldsCanClose`). `credits.ts:169-177` compares it with the balance, not with
   what is reserved; the settlement of an open reservation is then refused by a
   CHECK. `credit-ledger.ts:862-863`: "settling it must not fail because a sweep ran
   first".
3. **A charged failure is charged again** (`gateway_charged_twice`,
   `ChargedOncePerKey`). The wallet is settled, the record of the success fails,
   the request becomes FAILED, the retry runs and is charged.
   `gateway.ts:453-455`: "RE-RUNNING CHARGES ONCE, not twice."
4. **A retry posts twice** (`publishing_resent`, `OnlyAnAnswerResends`). `retry` sets
   `attemptCount` back to 0 and the rows of `publish_attempt` stay, so the first attempt after
   it is recorded, behind its post, under a number that is taken (`publishing.ts:507`, `1337`).
   The unique index rolls the worker's transaction back, the message is delivered again, and
   the post goes out again. `publishing.ts:32-33`: "a customer's post goes out ONCE, or
   not at all, and they can always tell which".
5. **A stale retry queues an unknown outcome** (the same run and property: TLC reports finding 4
   first, and this one, in 29 states, when `"refused"` is added to the causes the property
   allows). Two retries read one FAILED job; the first one's post times out and the job waits
   for verification; the second one writes QUEUED by id (`publishing.ts:1154-1187`).
   `publishing.ts:1145-1148`: "only a "NOT_PUBLISHED" from that person, or a provider lookup in
   `verify()`, ever puts such a job back on the queue".
6. **A paid checkout is void** (`billing_paid_void`, `PaidIsHonoured`). A payment that arrives
   behind the cancellation of its checkout finds the session not PENDING and is decided
   DUPLICATE (`reconcile.ts:1074-1081`): nothing is settled and nobody is told.
   `checkout.ts:184-187`: "a session marked cancelled that a later `checkout.completed` event
   resurrects, and reconciliation handles exactly that".

Met while modelling, without a run of their own.

*Credits and gateway.* A late answer is free: moderation and the chain may take one timeout
each (`gateway.ts:636` starts the deadline again) and the hold lives for one timeout and a minute, so
with a timeout above 60 s (the default is 30 s, at most 600 s may be configured) the sweep may
expire the hold of a running request, `settle` leaves it as it is, and the request succeeds unpaid;
`SuccessIsPaid` fails in an instance of AiGateway with one caller, `Timeout = 2`, `Grace = 1` and `MaxTime = 6`. The row of a plan grant shows the
balance before the forfeiture of the same reset (`credit-ledger.ts:1087`, against
`schema.prisma:1089`, "The wallet balance immediately after this row committed");
the budget check is a check-then-act (`gateway.ts:331-336`); a failed update to
RESERVED leaves a FAILED request with an open hold until the sweep
(`gateway.ts:571-578`); `sweepStuckRequests` (`gateway.ts:1277`) has no caller, though
`docs/AI-GATEWAY.md:334-335` promises it, so a crashed request answers CONFLICT to its key
for ever; the credit sweep starves once `maxAttempts` rows are unreleasable; `expireCredits`
takes the first `limit` workspaces by id, so workspaces whose pass always fails can keep
later ones waiting (`scheduler.ts:1345`).

*Planning.* A submission beside a schedule, withdrawn later, leaves a DRAFT item on a
SCHEDULED slot (`calendar.ts:224-225`). A refund is credited to the month it is made in
(`MonthIsMetered` says by how much that shows).

*Publishing.* A post is sent twice after a crash or the transaction's timeout, because the
claim is not committed before the call, though `publishing.ts:511-514` says that the row then says
PUBLISHING and recovery verifies. An exception of the adapter behind a post (`publishing.ts:529-555`,
`errors.ts:126-137`) that is classified UNKNOWN, RATE_LIMITED or AUTH_EXPIRED makes the job FAILED or
queued with its post out. An edit between the preflight's read of the words
(`publishing.ts:1257`) and the read for the send (`463`) is sent unreviewed, which the comment at
`1233-1255` is there to exclude; `SentAsReviewed` exempts exactly these posts. Two jobs that
settle over each other's reads leave their slot PUBLISHING with nothing left to move it, against
"DERIVED FROM THE JOBS" (`publishing.ts:1359`); `SlotFollowsJobs` exempts exactly these slots. A
scheduler that materialises a slot late adds jobs to it and returns it to PUBLISHING, even when it was
taken off the calendar meanwhile. A retained message makes the next dispatch of its job a
no-op until it is evicted (`scheduler.ts:506`); the recovery message's key has a colon, which
the queue client refuses (`client.ts:108`); `main.ts:153` says `attempts: 1`, `queues.ts:41`
says 5; when all jobs are cancelled the item is SCHEDULED with a CANCELLED slot;
`resolveVerification`, the only way for an unverifiable job to leave VERIFICATION_PENDING, has
no caller, and at the last attempt a CHECK may refuse it. A healthy check restores ACTIVE
over a REVOKED that was written while it asked (`connections.ts:377`).

*Billing.* No code writes `invoice.providerInvoiceId`, so an `invoice.paid` is always UNRESOLVED
(`reconcile.ts:1416-1422`); `checkout.cancel`, `expireDue`
and `voidInvoice` have no caller; a delivery answered IN_PROGRESS whose holder dies leaves a
row PROCESSING that nobody delivers or may replay, though `reconcile.ts:389-390` and `830-833` say
that the lease frees it (`Decided` exempts these events); a crash between the settlement and the
release makes an applied `payment_failed` end DEAD_LETTER (its key is taken); two
`payment_failed` at once restart the clock of the dunning despite the comment "NOT RESTARTED";
a late `payment_failed` winds a subscription back; `settleSubscription` does not clear
`cancelAtPeriodEnd`; `advanceDunning` reads and then writes by id, and can suspend a
subscription just paid or cancelled; a subscription listed and suspended before the
cycle reads it again is renewed; an operator's plan assignment sets ACTIVE without
clearing `pastDueSince`.

*Automation.* A confirmed proposal plans its post for the current minute
(`routes/automation.ts`, `publishNow`), and the calendar refuses an instant earlier than now plus
`minLeadMinutes` (`calendar.ts:479-485`, 5 by default, `domains.ts:903`): outside a workspace with
no lead time every confirmed proposal ends FAILED, and with none it succeeds only in the first
moment of a minute. The tests replace `publishNow`. A rule disabled between the read of the
rules and its run still fires, against the comment at `engine.ts:598`: the row tested is the
one read. The daily ceiling can be exceeded by runs that do not see each other. A redelivered event also runs the
rules enabled since. A failed job that the queue keeps makes the redispatch a no-op until it is evicted, though the
comments promise that "the sweep hands it to somebody else". The key
of an approval's event is the item's, so a second approval fires nothing. The proposal of a
deleted rule can be confirmed. A database error in one action rolls back the runs of all
rules of the event. A confirmed post is enqueued before the transaction commits, and its run is SUCCEEDED even when
`materialiseSlot` created no job.

## 7. What is not modelled

- In the modelled parts: `noteLowBalance` (no caller in the program, unlocked read);
  the reads and reports of the ledger; the audit event of an adjustment;
  `purgeExpiredOutputs` of the gateway; routing, pricing and the monetary budgets,
  which only read; `sweepStuckRequests`, which nothing calls.
- Data: calendar arithmetic (`addMonthsClamped` is a number of ticks), formatting,
  prompts, costs (a member of `Charges`), milli-credits as small naturals. Amounts in
  the code are `bigint`, so there is no overflow to model.
- Row-level security, encryption, HTTP, pages, and the providers' adapters: pure I/O
  or data conversions.
- Planning: bulk operations of the library, comments and notifications, strategies and
  campaigns beside the calendar; plan-dependent limits other than scheduled posts (same
  statement, other metric); `consumeWithin` against live rows (`usage.ts:613`).
- Publishing: the connectors' own requests and media resolution behind `Send`; the
  authorization state and the choice of a target before `#connect`, the quota of connected
  accounts, credentials (a connection has a live one or not); metrics collected after
  publication; `verify` and `recoverStaleClaim` (no committed job is PUBLISHING, a job that
  can be looked up never waits for verification, and the queue client refuses their message).
- Sweeps: a release that fails once and succeeds later (section 2).
- Billing: plan changes and pending downgrades, the allowance granted with an activation,
  plan assignment by an operator, refusals for a plan or pack that left the catalogue,
  invoice numbering and rendering, credit notes. `cancelAtPeriodEnd` is part of the free
  choice of `CycleReads`.
- Automation: conditions and action payloads (an outcome is a member of `Possible`), the
  simulation, the reports.
- The copilot keeps no state of its own but plans and tokens like those of the automation's
  proposals; its executors call the operations modelled here. Authentication, analytics,
  brand brain, assets, configuration, provider integrations are not modelled: each is mostly reads and
  single conditional statements, and their share of the code is pages, adapters and prompts.

## 8. Plan

Done, in this order: CreditPolicy, CreditLedger with CreditAccount, SpendingLoop,
ReservationSweep, AiGateway, ContentPlanning, PublishPipeline on top of it, BillingInbox with
EventBook, AutomationRun; the proofs named in section 5.

What is left, by what it would add:

1. **Copilot** (`copilot/src/plans.ts`, `executors.ts`): a plan is confirmed by its hash, its steps
   run one by one with undo records. Property: what runs is what was confirmed; an undo
   meets only what its step wrote.
2. **Analytics ingestion**: cursors under a lease; no window is counted twice.
3. **A commit of its own for the claim** in PublishPipeline, as a proposed change of the code:
   the properties then hold without the causes `lost` and `refused`. A condition on the status in
   the update of `retry` would do the same for `stale`.
4. Proofs of more of what the runs do not check: that the publishing sweep and the queue lose no
   job.
