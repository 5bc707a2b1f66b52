--------------------------- MODULE PublishPipeline --------------------------
(***************************************************************************)
(* Publishing: a due slot becomes one job per connection, a message per    *)
(* job takes it to a worker, and the worker posts it, once, or finds out   *)
(* what became of it.  Composed with ContentPlanning, whose requests go on *)
(* editing, reviewing and unscheduling the item meanwhile.                 *)
(*                                                                         *)
(* The worker runs execute() in ONE transaction (withWorkspace), so the    *)
(* claim of a job is a row lock that nobody else sees and that a crash     *)
(* undoes: a committed job is never PUBLISHING.  What the platform posted  *)
(* is not undone.  READ COMMITTED again: each statement reads what is      *)
(* committed when it runs, so the words sent need not be the words the     *)
(* preflight compared, and two transactions of one slot do not see each    *)
(* other's jobs change.                                                    *)
(*                                                                         *)
(* Time only enables: any slot may be due, any backoff over, any post too  *)
(* late.  The platforms and the queue are external.                        *)
(*                                                                         *)
(* Source: packages/social-connectors/src/publishing.ts, errors.ts,        *)
(* oauth.ts and connections.ts; packages/analytics/src/ingestion.ts;       *)
(* apps/worker/src/processors/publishing.ts; sweepPublishing of            *)
(* apps/api/src/scheduler.ts; packages/jobs/src/client.ts.                 *)
(***************************************************************************)
EXTENDS ContentPlanning

CONSTANTS Conns,          \* connection rows of the brand, each of its own account
          Connected,      \* those there at the start; people connect the others
          Lookup,         \* those whose platform can be asked for a post
          Answers,        \* the failure classes each platform answers with
          Sweepers,       \* the schedulers that materialise slots
          Clicks,         \* requests of the publishing history, one job each
          Probes,         \* requests that refresh or check a connection
          Handled,        \* the connections people act on (bounds the instance)
          MaxAttempts,    \* policy: retry.maxAttempts
          MaxDeliveries,  \* publish-jobs: maxAttempts of a message
          MaxPosts,       \* bound on the posts of one job of each connection
          MaxIncidents    \* bound on the transactions lost, the connections changed,
                          \* the requests by hand, the edits and the slots being
                          \* taken off the calendar, together

ASSUME PublishAssumption ==
  /\ None \notin Words
  /\ Connected \subseteq Conns /\ Lookup \subseteq Conns /\ Handled \subseteq Conns
  /\ MaxAttempts \in Nat \ {0} /\ MaxDeliveries \in Nat \ {0}
  /\ MaxPosts \in [Conns -> Nat] /\ MaxIncidents \in Nat

\* A job is named by what its idempotency key is derived from.
Jobs == (1..MaxSlots) \X Conns

JobStatus == {"NONE", "QUEUED", "VERIFICATION_PENDING", "PUBLISHED", "FAILED",
              "CANCELLED"}

ConnStatus == {"ABSENT", "ACTIVE", "NEEDS_REAUTH", "REVOKED"}

(* FAILURE_BEHAVIOUR *)
Classes == {"AUTH_EXPIRED", "AUTH_REVOKED", "INSUFFICIENT_SCOPE", "RATE_LIMITED",
            "CONTENT_REJECTED", "MEDIA_INVALID", "DUPLICATE_CONTENT",
            "TARGET_UNAVAILABLE", "PLATFORM_UNAVAILABLE", "TIMEOUT",
            "APPROVAL_REVOKED", "NOT_CONNECTED", "UNSUPPORTED", "UNKNOWN"}
Indeterminate == {"DUPLICATE_CONTENT", "PLATFORM_UNAVAILABLE", "TIMEOUT"}
Retryable == {"AUTH_EXPIRED", "RATE_LIMITED", "PLATFORM_UNAVAILABLE", "TIMEOUT"}
NeedsReconnect == {"AUTH_REVOKED", "INSUFFICIENT_SCOPE", "TARGET_UNAVAILABLE",
                   "NOT_CONNECTED"}
ManualRetryUseful == Classes \ (NeedsReconnect \cup
                                {"DUPLICATE_CONTENT", "UNSUPPORTED"})

\* What the pipeline may hear of a post that went out: no failure, an outage
\* in front of the platform, or an exception of the adapter as classifyError
\* takes it.
OfAPost == {None, "PLATFORM_UNAVAILABLE", "AUTH_REVOKED", "AUTH_EXPIRED", "TIMEOUT",
            "RATE_LIMITED", "UNKNOWN"}

ASSUME AnswersAssumption == Answers \in [Conns -> SUBSET Classes]

\* How a job may first go astray, so that its row does not say what happened at
\* the platform or it is sent again: the worker's transaction was lost behind a
\* post, or refused by a constraint; a lookup missed a post; an exception behind
\* a post passed for a refusal; a person denied a post that was there; a request
\* queued the job by a row it had read before a post.
Causes == {"lost", "refused", "missed", "misread", "denied", "stale"}

VARIABLES
  jobs,       \* publish_job rows; of the failure class of a FAILED one, whether
              \* a retry by hand is allowed; whether a person named the post; the
              \* last number in publish_attempt
  conn,       \* status of each connection
  credential, \* the connections with a live credential
  probes,     \* refreshes and checks that have read and not yet written
  run,        \* the transaction that holds the row of each job
  sweep,      \* each scheduler in materialiseSlot, between its reads and its commit
  clicks,     \* requests that have read a job and not yet written it
  message,    \* the queue's message for each job
  deliveries, \* how often the message was delivered, while it is not retained
  posts,      \* the posts of each job the platforms received: the words its
              \* preflight compared with an approval, None without the gate, and
              \* the words that were sent
  astray,     \* what made a job go astray first, None if nothing did
  overlapped, \* slots with two of their jobs' transactions open at one commit
  incidents   \* of MaxIncidents, so far

connVars == <<conn, credential, probes>>
jobVars == <<jobs, run, message, deliveries, posts, astray, overlapped>>
pipelineVars == <<jobVars, connVars, sweep, clicks, incidents>>
vars == <<planningVars, pipelineVars>>

ItemOf(j) == slots[j[1]].item
NoRun == [at |-> "idle"]

\* The brand starts with the approval gate on; SetPolicy may switch it.
PublishInit ==
  /\ Init
  /\ gate
  /\ jobs = [j \in Jobs |-> [status |-> "NONE", attempts |-> 0, manual |-> FALSE,
                             byHand |-> FALSE, recorded |-> 0]]
  /\ conn = [c \in Conns |-> IF c \in Connected THEN "ACTIVE" ELSE "ABSENT"]
  /\ credential = Connected
  /\ probes = [p \in Probes |-> NoRun]
  /\ run = [j \in Jobs |-> NoRun]
  /\ sweep = [w \in Sweepers |-> NoRun]
  /\ clicks = [q \in Clicks |-> NoRun]
  /\ message = [j \in Jobs |-> "absent"]
  /\ deliveries = [j \in Jobs |-> 0]
  /\ posts = [j \in Jobs |-> << >>]
  /\ astray = [j \in Jobs |-> None]
  /\ overlapped = {}
  /\ incidents = 0

Landed(j) == Len(posts[j])

Incident == incidents < MaxIncidents /\ incidents' = incidents + 1

-----------------------------------------------------------------------------
(* Connections: #connect, refresh, checkHealth, disconnect, and the analytics *)

\* A grant without all the scopes asked for is a connection to be repeated.
Connect(c) ==
  /\ c \in Handled
  /\ conn[c] = "ABSENT"
  /\ \E s \in {"ACTIVE", "NEEDS_REAUTH"} : conn' = [conn EXCEPT ![c] = s]
  /\ credential' = credential \cup {c}
  /\ UNCHANGED <<planningVars, jobVars, probes, sweep, clicks, incidents>>

\* The credential is destroyed and the row revoked, whatever the platform says.
Disconnect(c) ==
  /\ Incident
  /\ c \in Handled
  /\ conn[c] # "ABSENT"
  /\ conn' = [conn EXCEPT ![c] = "REVOKED"]
  /\ credential' = credential \ {c}
  /\ UNCHANGED <<planningVars, jobVars, probes, sweep, clicks>>

\* A failed pull writes by id, at any time after it read the connection.
IngestionFails(c) ==
  /\ Incident
  /\ c \in Handled
  /\ conn[c] # "ABSENT"
  /\ \E s \in {"NEEDS_REAUTH", "REVOKED"} : conn' = [conn EXCEPT ![c] = s]
  /\ UNCHANGED <<planningVars, jobVars, credential, probes, sweep, clicks>>

\* Either reads the row and its credential, and then calls the platform.
ProbeReads(p, c, kind) ==
  /\ Incident
  /\ probes[p] = NoRun
  /\ c \in Handled \cap credential
  /\ probes' = [probes EXCEPT ![p] = [at |-> kind, conn |-> c, saw |-> conn[c]]]
  /\ UNCHANGED <<planningVars, jobVars, conn, credential, sweep, clicks>>

\* A check that finds no credential says so at once.
CheckFindsNone(c) ==
  /\ Incident
  /\ c \in Handled \ credential
  /\ conn[c] # "ABSENT"
  /\ conn' = [conn EXCEPT ![c] = "NEEDS_REAUTH"]
  /\ UNCHANGED <<planningVars, jobVars, credential, probes, sweep, clicks>>

\* Both write by id.  A refresh stores the new credential or asks for a grant;
\* a healthy check restores what it read, unless that was a grant to repeat.
ProbeWrites(p) ==
  LET c == probes[p].conn IN
  /\ probes[p] # NoRun
  /\ \/ conn' = [conn EXCEPT ![c] = "NEEDS_REAUTH"] /\ UNCHANGED credential
     \/ /\ probes[p].at = "refresh"
        /\ conn' = [conn EXCEPT ![c] = "ACTIVE"]
        /\ credential' = credential \cup {c}
     \/ /\ probes[p].at = "check"
        /\ probes[p].saw # "NEEDS_REAUTH"
        /\ conn' = [conn EXCEPT ![c] = "ACTIVE"]
        /\ UNCHANGED credential
  /\ probes' = [probes EXCEPT ![p] = NoRun]
  /\ UNCHANGED <<planningVars, jobVars, sweep, clicks, incidents>>

ProbeAborts(p) ==
  /\ probes[p] # NoRun
  /\ probes' = [probes EXCEPT ![p] = NoRun]
  /\ UNCHANGED <<planningVars, jobVars, conn, credential, sweep, clicks, incidents>>

-----------------------------------------------------------------------------
(* The scheduler's sweep *)

\* What latestForItem may find: approvals have one highest cycle or several.
Latest(i) == {approvals[i][a] : a \in {b \in DOMAIN approvals[i] :
    \A c \in DOMAIN approvals[i] : approvals[i][c].cycle <= approvals[i][b].cycle}}

Active == {c \in Conns : conn[c] = "ACTIVE"}

MaterialiseReads(w, s) ==
  /\ sweep[w] = NoRun
  /\ s \in DOMAIN slots
  /\ slots[s].status = "SCHEDULED"
  /\ LET i == slots[s].item IN
     /\ i \notin deleted
     /\ status[i] \notin {"IN_REVIEW", "CHANGES_REQUESTED"}
     /\ gate => \E a \in Latest(i) : a.status = "APPROVED"
  /\ Active # {}
  /\ sweep' = [sweep EXCEPT ![w] = [at |-> "read", slot |-> s, conns |-> Active]]
  /\ UNCHANGED <<planningVars, jobVars, connVars, clicks, incidents>>

\* Created jobs move slot and item by id alone; the slot may have been taken
\* off the calendar meanwhile, and the index may then refuse its return.  The
\* jobs that another sweep created are left as they are.
MaterialiseCommits(w) ==
  /\ sweep[w] # NoRun
  /\ LET s == sweep[w].slot
         i == slots[s].item
         made == {j \in {s} \X sweep[w].conns : jobs[j].status = "NONE"}
     IN  /\ jobs' = [j \in Jobs |-> IF j \in made
                       THEN [jobs[j] EXCEPT !.status = "QUEUED"] ELSE jobs[j]]
         /\ IF made = {} THEN UNCHANGED <<slots, status>>
            ELSE /\ LiveSlots(i) \subseteq {s}
                 /\ slots' = [slots EXCEPT ![s].status = "PUBLISHING"]
                 /\ SetStatus(i, "PUBLISHING")
  /\ sweep' = [sweep EXCEPT ![w] = NoRun]
  /\ UNCHANGED <<deleted, words, approvals, used, events, gate, month, tx, connVars,
                 run, clicks, message, deliveries, posts, astray, overlapped, incidents>>

MaterialiseAborts(w) ==
  /\ sweep[w] # NoRun
  /\ sweep' = [sweep EXCEPT ![w] = NoRun]
  /\ UNCHANGED <<planningVars, jobVars, connVars, clicks, incidents>>

\* A message with the same id, waiting, active or retained, makes this a no-op.
Dispatch(j) ==
  /\ jobs[j].status = "QUEUED"
  /\ message[j] = "absent"
  /\ message' = [message EXCEPT ![j] = "waiting"]
  /\ UNCHANGED <<planningVars, connVars, jobs, run, sweep, clicks, deliveries,
                 posts, astray, overlapped, incidents>>

\* removeOnComplete, removeOnFail: a retained message leaves when enough others
\* have ended after it.  Nobody looks for it before the job is queued again.
Evict(j) ==
  /\ message[j] = "retained"
  /\ jobs[j].status = "QUEUED"
  /\ message' = [message EXCEPT ![j] = "absent"]
  /\ UNCHANGED <<planningVars, connVars, jobs, run, sweep, clicks, deliveries,
                 posts, astray, overlapped, incidents>>

-----------------------------------------------------------------------------
(* execute(), in the worker's transaction *)

Retain(j) == /\ message' = [message EXCEPT ![j] = "retained"]
             /\ deliveries' = [deliveries EXCEPT ![j] = 0]

\* A duplicate delivery finds the job claimed or over: not an error.
Claim(j) ==
  /\ message[j] = "waiting"
  /\ run[j] = NoRun
  /\ IF jobs[j].status = "QUEUED"
     THEN /\ run' = [run EXCEPT ![j] = [at |-> "claimed"]]
          /\ message' = [message EXCEPT ![j] = "active"]
          /\ deliveries' = [deliveries EXCEPT ![j] = @ + 1]
     ELSE Retain(j) /\ UNCHANGED run
  /\ UNCHANGED <<planningVars, connVars, jobs, sweep, clicks, posts, astray,
                 overlapped, incidents>>

At(j, stage) == run[j].at = stage

Terminal == {"PUBLISHED", "FAILED", "CANCELLED"}

\* What becomes of a slot whose jobs are all terminal.
Outcome(all) ==
  IF all = {"PUBLISHED"} THEN "PUBLISHED"
  ELSE IF "PUBLISHED" \in all THEN "PARTIALLY_PUBLISHED"
  ELSE IF all = {"CANCELLED"} THEN "CANCELLED" ELSE "FAILED"

\* Mutant: the jobs are read before the job's own row is written.
LifecycleBefore(j, to) ==
  LET all == {jobs[<<j[1], c>>].status : c \in Conns} \ {"NONE"}
  IN  IF all \subseteq Terminal THEN Outcome(all) ELSE None

\* syncLifecycle's reads: the siblings as committed, and j as it will be.
Lifecycle(j, to) ==
  LET all == ({jobs[<<j[1], c>>].status : c \in Conns \ {j[2]}} \cup {to}) \ {"NONE"}
  IN  IF all \subseteq Terminal THEN Outcome(all) ELSE None

\* The job's row is written and syncLifecycle has read: what is left is the
\* commit.  Only an answer of the platform is recorded as an attempt.
Settling(j, to, attempts, class) ==
  [at |-> "settling", to |-> to, attempts |-> attempts,
   manual |-> to = "FAILED" /\ class \in ManualRetryUseful \ Indeterminate,
   recorded |-> IF At(j, "checked") THEN attempts ELSE jobs[j].recorded,
   byHand |-> to = "PUBLISHED" /\ run[j] = NoRun,
   reauth |-> At(j, "checked") /\ class \in NeedsReconnect,
   slot |-> Lifecycle(j, to)]

\* Mutant: any approval of the item lets it through, whatever it covers.
CoversAny(a, i) == a.status = "APPROVED"

\* approvalCoversItem, on the words as they stand.
Covers(a, i) == a.status = "APPROVED" /\ a.covers = words[i]

\* The last three: a picture refused, a platform switched off, a post too late,
\* for all the model knows.
Refuses(j, class) ==
  \/ /\ class = "APPROVAL_REVOKED"
     /\ \/ slots[j[1]].status = "CANCELLED"
        \/ status[ItemOf(j)] \in {"IN_REVIEW", "CHANGES_REQUESTED"}
        \/ gate /\ \A a \in Latest(ItemOf(j)) : ~Covers(a, ItemOf(j))
  \/ class = "NOT_CONNECTED" /\ (conn[j[2]] # "ACTIVE" \/ j[2] \notin credential)
  \/ class \in {"CONTENT_REJECTED", "UNSUPPORTED", "TARGET_UNAVAILABLE"}

Preflight(j) ==
  /\ At(j, "claimed")
  /\ \/ \E class \in Classes :
          /\ Refuses(j, class)
          /\ run' = [run EXCEPT ![j] = Settling(j, "FAILED", jobs[j].attempts,
                                               class)]
     \/ /\ ItemOf(j) \notin deleted
        /\ ~Refuses(j, "APPROVAL_REVOKED")
        /\ ~Refuses(j, "NOT_CONNECTED")
        /\ run' = [run EXCEPT ![j] = [at |-> "checked",
                     words |-> IF gate THEN words[ItemOf(j)] ELSE None]]
  /\ UNCHANGED <<planningVars, connVars, jobs, sweep, clicks, message, deliveries,
                 posts, astray, overlapped, incidents>>

Blame(j, cause, holds) ==
  astray' = [astray EXCEPT ![j] = IF @ = None /\ holds THEN cause ELSE @]

\* The transaction rolls back: the claim and all it wrote are gone, and a
\* worker's message is delivered again, or kept as failed.
RollsBack(j, cause, landed) ==
  /\ run' = [run EXCEPT ![j] = NoRun]
  /\ IF message[j] # "active" THEN UNCHANGED <<message, deliveries>>
     ELSE IF deliveries[j] < MaxDeliveries
     THEN message' = [message EXCEPT ![j] = "waiting"] /\ UNCHANGED deliveries
     ELSE Retain(j)
  /\ Blame(j, cause, message[j] = "active" /\ landed)
  /\ UNCHANGED <<planningVars, connVars, jobs, sweep, clicks, overlapped>>

\* #afterFailure, #scheduleRetry, #succeed: what the answer makes of the job.
\* An answer that leaves the outcome open is looked up where that is possible;
\* a lookup that misses a post which did land sends the job round again.
AfterAnswer(j, class, landed) ==
  LET count == jobs[j].attempts + 1
      open == class \in Indeterminate
      SettleAs(to) == run' = [run EXCEPT ![j] =
        Settling(j, to, count, IF to = "PUBLISHED" THEN None ELSE class)]
      FailOrRetry == SettleAs(IF class \notin Retryable \/ count >= MaxAttempts
                              THEN "FAILED" ELSE "QUEUED")
  IN  /\ \/ class = None /\ SettleAs("PUBLISHED") /\ UNCHANGED astray
         \/ /\ class # None /\ ~open
            /\ FailOrRetry
            /\ Blame(j, "misread", landed)
         \/ /\ open /\ j[2] \notin Lookup
            /\ SettleAs("VERIFICATION_PENDING")
            /\ UNCHANGED astray
         \/ /\ open /\ j[2] \in Lookup /\ landed
            /\ SettleAs("PUBLISHED")
            /\ UNCHANGED astray
         \/ /\ open /\ j[2] \in Lookup
            /\ FailOrRetry
            /\ Blame(j, "missed", landed)
      /\ UNCHANGED <<planningVars, connVars, jobs, sweep, clicks, message,
                     deliveries, overlapped>>

\* The platform receives the words as they stand and its answer arrives, or is
\* lost; or it refuses them.  The attempt is recorded under a number that
\* publish_attempt may already hold, since a request by hand counts anew.
Send(j) ==
  /\ At(j, "checked")
  /\ \E received \in BOOLEAN, class \in Answers[j[2]] \cup {None} :
       LET landed == received \/ Landed(j) > 0 IN
       /\ IF received
          THEN /\ Landed(j) < MaxPosts[j[2]]
               /\ class \in OfAPost
               /\ posts' = [posts EXCEPT ![j] = Append(@,
                    [checked |-> run[j].words, sent |-> words[ItemOf(j)]])]
          ELSE class # None /\ UNCHANGED posts
       /\ IF jobs[j].attempts < jobs[j].recorded
          THEN RollsBack(j, "refused", landed)
          ELSE AfterAnswer(j, class, landed)
  /\ UNCHANGED incidents

SyncLifecycle(j) ==
  IF run[j].slot = None THEN UNCHANGED <<slots, status>>
  ELSE /\ slots' = [slots EXCEPT ![j[1]].status = run[j].slot]
       /\ SetStatus(ItemOf(j), IF run[j].slot = "CANCELLED" THEN "SCHEDULED"
                                                           ELSE run[j].slot)

\* Mutant: the attempts are not bounded by the table.
AllowsUnbounded(j) ==
  run[j].slot \in {None, "CANCELLED"} \/ LiveSlots(ItemOf(j)) \subseteq {j[1]}

\* publish_job_attempts_bounded and calendar_slot_one_live_per_item.
Allows(j) ==
  /\ run[j].attempts <= MaxAttempts
  /\ run[j].slot \in {None, "CANCELLED"} \/ LiveSlots(ItemOf(j)) \subseteq {j[1]}

Settle(j) ==
  /\ At(j, "settling")
  /\ Allows(j)
  /\ jobs' = [jobs EXCEPT ![j] = [n \in DOMAIN @ |->
                 IF n = "status" THEN run[j].to ELSE run[j][n]]]
  /\ conn' = IF run[j].reauth THEN [conn EXCEPT ![j[2]] = "NEEDS_REAUTH"]
                              ELSE conn
  /\ SyncLifecycle(j)
  /\ run' = [run EXCEPT ![j] = NoRun]
  /\ IF message[j] = "active" THEN Retain(j) ELSE UNCHANGED <<message, deliveries>>
  /\ overlapped' = overlapped \cup
       {s \in {j[1]} : \E c \in Conns \ {j[2]} : At(<<s, c>>, "settling")}
  /\ UNCHANGED <<deleted, words, approvals, used, events, gate, month, tx,
                 credential, probes, sweep, clicks, posts, astray, incidents>>

\* A crash, the 15 s timeout, a lookup that throws inside execute().
Lose(j) ==
  /\ run[j] # NoRun
  /\ Incident
  /\ RollsBack(j, "lost", Landed(j) > 0)
  /\ UNCHANGED posts

Refused(j) ==
  /\ At(j, "settling")
  /\ ~Allows(j)
  /\ RollsBack(j, "refused", Landed(j) > 0)
  /\ UNCHANGED <<posts, incidents>>

-----------------------------------------------------------------------------
(* The publishing history: cancel, retry, resolveVerification *)

\* Mutant: the cancellation does not look at the status it overwrites.
CancellableAny(j) == jobs[j].status \in {"QUEUED", "VERIFICATION_PENDING"}

\* updateMany on status PENDING or QUEUED.
Cancellable(j) == jobs[j].status = "QUEUED"

CancelJob(j) ==
  /\ Incident
  /\ run[j] = NoRun
  /\ Cancellable(j)
  /\ run' = [run EXCEPT ![j] = Settling(j, "CANCELLED", jobs[j].attempts,
                                        None)]
  /\ UNCHANGED <<planningVars, connVars, jobs, sweep, clicks, message, deliveries,
                 posts, astray, overlapped>>

\* Mutant: the retry of a first version, which took unknown outcomes.
MayAskUnknown(j, kind) ==
  \/ /\ kind = "retry"
     /\ jobs[j].manual \/ jobs[j].status = "VERIFICATION_PENDING"
  \/ /\ kind \in {"published", "not_published"}
     /\ jobs[j].status = "VERIFICATION_PENDING"

\* Both read the job without a lock, and write it by id later.
MayAsk(j, kind) ==
  \/ /\ kind = "retry"
     /\ jobs[j].status = "FAILED"
     /\ jobs[j].manual
  \/ /\ kind \in {"published", "not_published"}
     /\ jobs[j].status = "VERIFICATION_PENDING"

ClickReads(q, j, kind) ==
  /\ Incident
  /\ clicks[q] = NoRun
  /\ j[2] \in Handled
  /\ MayAsk(j, kind)
  /\ clicks' = [clicks EXCEPT ![q] = [at |-> kind, job |-> j, saw |-> Landed(j)]]
  /\ UNCHANGED <<planningVars, jobVars, connVars, sweep>>

\* A row that is PUBLISHED has a post, one that is CANCELLED a date: the CHECKs
\* of the table refuse to queue either again.  Nothing asks whether the row is
\* still the one that was read; and a person may be wrong.
ClickQueues(q) ==
  LET j == clicks[q].job IN
  /\ clicks[q].at \in {"retry", "not_published"}
  /\ run[j] = NoRun
  /\ jobs[j].status \notin {"PUBLISHED", "CANCELLED"}
  /\ jobs' = [jobs EXCEPT ![j].status = "QUEUED", ![j].attempts = 0,
                          ![j].manual = FALSE]
  /\ clicks' = [clicks EXCEPT ![q] = NoRun]
  /\ IF clicks[q].saw > 0 THEN Blame(j, "denied", clicks[q].at = "not_published")
                          ELSE Blame(j, "stale", Landed(j) > 0)
  /\ UNCHANGED <<planningVars, connVars, run, sweep, message, deliveries, posts,
                 overlapped, incidents>>

ClickPublishes(q) ==
  LET j == clicks[q].job IN
  /\ clicks[q].at = "published"
  /\ run[j] = NoRun
  /\ jobs[j].status # "CANCELLED"
  /\ run' = [run EXCEPT ![j] = Settling(j, "PUBLISHED", jobs[j].attempts + 1,
                                        None)]
  /\ clicks' = [clicks EXCEPT ![q] = NoRun]
  /\ UNCHANGED <<planningVars, connVars, jobs, sweep, message, deliveries, posts,
                 astray, overlapped, incidents>>

ClickAborts(q) ==
  /\ clicks[q] # NoRun
  /\ clicks' = [clicks EXCEPT ![q] = NoRun]
  /\ UNCHANGED <<planningVars, jobVars, connVars, sweep, incidents>>

-----------------------------------------------------------------------------

Administer ==
  \/ \E c \in Conns : \/ Connect(c)
                      \/ Disconnect(c)
                      \/ IngestionFails(c)
                      \/ CheckFindsNone(c)
  \/ \E p \in Probes : \/ \E c \in Conns, kind \in {"refresh", "check"} :
                             ProbeReads(p, c, kind)
                       \/ ProbeWrites(p)
                       \/ ProbeAborts(p)

Sweep ==
  \/ \E w \in Sweepers : \/ \E s \in DOMAIN slots : MaterialiseReads(w, s)
                         \/ MaterialiseCommits(w)
                         \/ MaterialiseAborts(w)
  \/ \E j \in Jobs : Dispatch(j)

Execute(j) ==
  \/ Claim(j)
  \/ Preflight(j)
  \/ Send(j)
  \/ Settle(j)
  \/ Refused(j)

Click(q) ==
  \/ \E j \in Jobs, kind \in {"retry", "published", "not_published"} :
        ClickReads(q, j, kind)
  \/ ClickQueues(q)
  \/ ClickPublishes(q)
  \/ ClickAborts(q)

\* A request of the planning that runs into the publishing of the item.
Interferes == \/ words' # words
              \/ \E u \in Users : tx'[u].op = "unschedule" /\ tx[u] = Idle

Request ==
  /\ PlanningNext
  /\ IF Interferes THEN Incident ELSE UNCHANGED incidents
  /\ UNCHANGED <<jobVars, connVars, sweep, clicks>>

PublishNext ==
  \/ Request
  \/ Administer
  \/ Sweep
  \/ \E j \in Jobs : Execute(j) \/ CancelJob(j) \/ Lose(j) \/ Evict(j)
  \/ \E q \in Clicks : Click(q)

PublishSpec == PublishInit /\ [][PublishNext]_vars

-----------------------------------------------------------------------------
(* Properties *)

\* The state of the pipeline has its type.
PublishTypeOK ==
  /\ TypeOK
  /\ jobs \in [Jobs -> [status: JobStatus, attempts: 0..MaxAttempts,
                        manual: BOOLEAN, byHand: BOOLEAN,
                        recorded: 0..MaxAttempts]]
  /\ conn \in [Conns -> ConnStatus]
  /\ credential \subseteq Conns
  /\ message \in [Jobs -> {"absent", "waiting", "active", "retained"}]
  /\ deliveries \in [Jobs -> 0..MaxDeliveries]
  /\ astray \in [Jobs -> Causes \cup {None}]
  /\ \A j \in Jobs : message[j] = "active" => run[j] # NoRun
  /\ posts \in [Jobs -> Seq([checked: Words \cup {None}, sent: Words])]

\* A platform receives another post of a job only when the one before was lost
\* sight of: the transaction behind it was lost or refused, its answer was
\* misread or a lookup missed it, a person said it was not there, or a request
\* had read the row before it.  Never because a message came twice or late, two
\* sweeps made the job, a job was cancelled, or a retry read what stands.
NoBlindResend ==
  [][\A j \in Jobs : Landed(j) > 0 /\ Landed(j)' > Landed(j) => astray[j] # None]_vars

\* A second post is a person's NOT_PUBLISHED, a platform's answer or a crash:
\* what the comments of execute, retry and resolveVerification say, and what
\* the program does not keep.
OnlyAnAnswerResends ==
  \A j \in Jobs : Landed(j) > 1 =>
    astray[j] \in {"lost", "missed", "misread", "denied"}

\* What a job's row says is what happened at the platform: a post behind
\* PUBLISHED unless a person named it, and none behind a row that says it did
\* not go out, unless it was lost sight of.
StatusIsHonest ==
  \A j \in Jobs :
    /\ jobs[j].status = "PUBLISHED" => Landed(j) > 0 \/ jobs[j].byHand
    /\ jobs[j].status \in {"NONE", "CANCELLED", "FAILED"} =>
         Landed(j) = 0 \/ astray[j] # None

\* Under the gate, the words of a post are words a reviewer approved, whatever
\* was edited between the approval, the calendar, the queue and the worker; an
\* edit between the preflight's read of the words and the send's is the one
\* that goes out unread.
SentAsReviewed ==
  \A j \in Jobs : \A n \in DOMAIN posts[j] :
    posts[j][n].checked = posts[j][n].sent =>
      \E a \in DOMAIN approvals[ItemOf(j)] :
        /\ approvals[ItemOf(j)][a].status = "APPROVED"
        /\ approvals[ItemOf(j)][a].covers = posts[j][n].sent

JobsOf(s) == {jobs[<<s, c>>].status : c \in Conns} \ {"NONE"}

\* A slot whose jobs are all over shows what became of them, or was taken off
\* the calendar, however many sweeps made the jobs and in whatever order they
\* ended, failed and were tried again.  The exception is two of its jobs that
\* settled over each other's reads.
SlotFollowsJobs ==
  \A s \in DOMAIN slots \ overlapped :
    JobsOf(s) # {} /\ JobsOf(s) \subseteq Terminal =>
      slots[s].status \in {Outcome(JobsOf(s)), "CANCELLED"}
=============================================================================
