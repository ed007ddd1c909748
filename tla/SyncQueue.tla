------------------------------- MODULE SyncQueue -------------------------------
(***************************************************************************)
(* The durable sync queue: the plpgsql functions of the control plane that *)
(* pair a pgmq message with a ledger row (sync_job_requests) and its       *)
(* attempts, and the lanes of the sync worker that claim, process and      *)
(* resolve jobs through packages/queue.                                    *)
(*                                                                         *)
(* One action is one database transaction, or one step of a lane between   *)
(* two of them.  Time is not counted: a visibility window or a lease       *)
(* deadline may pass at any moment.                                        *)
(***************************************************************************)
EXTENDS Naturals, FiniteSets

CONSTANTS
  Job,             \* ledger rows: one per (tenant, idempotency key, generation)
  Lane,            \* the concurrent claim loops of all worker processes
  Worker,          \* worker ids: the lanes of one process share one
  WorkerOf,        \* the worker id each lane claims with
  QueueOf,         \* the queue a job's priority selects: 1 high, 2 standard, 3 backfill
  Malformed,       \* jobs whose payload parseSyncJob rejects
  MaxAttempts,     \* the retry budget the worker passes to retryOrFail
  MaxReads,        \* bound: redeliveries per job
  MaxDisturbances, \* bound: crashes, deferrals and windows that close mid-work
  NoWorker, NoClaim, NoLane

Queue == 1 .. 3

ASSUME QueueAssumption ==
  /\ WorkerOf \in [Lane -> Worker]
  /\ QueueOf \in [Job -> Queue]
  /\ Malformed \subseteq Job
  /\ MaxAttempts \in Nat \ {0}
  /\ MaxReads \in Nat
  /\ MaxDisturbances \in Nat
  /\ NoWorker \notin Worker
  /\ NoLane \notin Lane
  /\ NoClaim \notin [job : Job, read : 1 .. MaxReads]

VARIABLES
  request,      \* request[j]: sync_job_requests.status, "absent" before the row exists
  message,      \* message[j]: where the pgmq message is
  readCount,    \* readCount[j]: pgmq's read_ct
  attempt,      \* attempt[j][n]: row n of sync_job_attempts with its outcome row
  deadLetter,   \* deadLetter[j]: envelopes of j in albert_sync_deadletter
  claim,        \* claim[l]: the claim the lane's process() works on
  scan,         \* scan[l]: the queue the lane's claim() polls next
  disturbances  \* how often the environment has interfered

ledgerVars == <<request, message, readCount, attempt, deadLetter>>
vars == <<request, message, readCount, attempt, deadLetter, claim, scan, disturbances>>

Terminal == {"succeeded", "failed"}
Status == {"absent", "queued", "running", "retry_wait"} \cup Terminal
Reads == 1 .. MaxReads
Claim == [job : Job, read : Reads]

\* pgmq keeps a message in its queue table until it is archived.
InQueue == {"hidden", "visible"}

Attempt == [worker : Worker \cup {NoWorker},
            deadline : {"none", "open", "passed"},
            outcome : {"none", "retry"} \cup Terminal,
            error : {"none", "retryable", "terminal", "deferral"}]

NoAttempt == [worker |-> NoWorker, deadline |-> "none", outcome |-> "none", error |-> "none"]

TypeOK ==
  /\ request \in [Job -> Status]
  /\ message \in [Job -> InQueue \cup {"unsent", "archived"}]
  /\ readCount \in [Job -> 0 .. MaxReads]
  /\ attempt \in [Job -> [Reads -> Attempt]]
  /\ deadLetter \in [Job -> Nat]
  /\ claim \in [Lane -> Claim \cup {NoClaim}]
  /\ scan \in [Lane -> Queue]
  /\ disturbances \in 0 .. MaxDisturbances

Init ==
  /\ request = [j \in Job |-> "absent"]
  /\ message = [j \in Job |-> "unsent"]
  /\ readCount = [j \in Job |-> 0]
  /\ attempt = [j \in Job |-> [n \in Reads |-> NoAttempt]]
  /\ deadLetter = [j \in Job |-> 0]
  /\ claim = [l \in Lane |-> NoClaim]
  /\ scan = [l \in Lane |-> 1]
  /\ disturbances = 0

Disturb ==
  /\ disturbances < MaxDisturbances
  /\ disturbances' = disturbances + 1

-------------------------------------------------------------------------------
(* The lease. *)

\* Mutant of Newest: the check for a later attempt is forgotten.
NewestUnchecked(j, n) == TRUE

\* No attempt later than n was recorded for job j.
Newest(j, n) == \A later \in Reads : later > n => attempt[j][later].worker = NoWorker

\* require_active_sync_job_lease: the five conditions under which a call of
\* worker w about read n of job j is accepted.
LeaseActive(j, n, w) ==
  /\ attempt[j][n].worker = w
  /\ request[j] = "running"
  /\ attempt[j][n].deadline = "open"
  /\ Newest(j, n)
  /\ attempt[j][n].outcome = "none"

\* Lane l still holds the lease of job j.
Holds(l, j) ==
  /\ claim[l] # NoClaim
  /\ claim[l].job = j
  /\ LeaseActive(j, claim[l].read, WorkerOf[l])

-------------------------------------------------------------------------------
(* Publishing and claiming. *)

\* Mutant of Enqueue: a repeated key reopens the row.
EnqueueReopens(j, delayed) ==
  /\ request[j] \in {"absent", "succeeded", "failed"}
  /\ request' = [request EXCEPT ![j] = "queued"]
  /\ message' = [message EXCEPT ![j] = IF delayed THEN "hidden" ELSE "visible"]
  /\ UNCHANGED <<readCount, attempt, deadLetter, claim, scan, disturbances>>

\* enqueue_sync_job: a second call with the same key returns the first
\* receipt and changes nothing.
Enqueue(j, delayed) ==
  /\ request[j] = "absent"
  /\ request' = [request EXCEPT ![j] = "queued"]
  /\ message' = [message EXCEPT ![j] = IF delayed THEN "hidden" ELSE "visible"]
  /\ UNCHANGED <<readCount, attempt, deadLetter, claim, scan, disturbances>>

\* A message pgmq.read may return to a lane that polls queue q.
Readable(j, q) == QueueOf[j] = q /\ message[j] = "visible" /\ readCount[j] < MaxReads

\* claim_sync_jobs returns a message of the polled queue.  A payload that does
\* not parse makes claim() throw after the transaction has committed: the
\* attempt exists and nobody works on it.
ClaimJob(l, j) ==
  /\ claim[l] = NoClaim
  /\ Readable(j, scan[l])
  /\ LET n == readCount[j] + 1
     IN  /\ readCount' = [readCount EXCEPT ![j] = n]
         /\ attempt' = [attempt EXCEPT ![j][n] =
              [worker |-> WorkerOf[l], deadline |-> "open", outcome |-> "none", error |-> "none"]]
         /\ claim' = IF j \in Malformed THEN claim
                     ELSE [claim EXCEPT ![l] = [job |-> j, read |-> n]]
  /\ message' = [message EXCEPT ![j] = "hidden"]
  /\ request' = [request EXCEPT ![j] = "running"]
  /\ scan' = [scan EXCEPT ![l] = 1]
  /\ UNCHANGED <<deadLetter, disturbances>>

\* Mutants of PollNext: the round ends before the last queue, or after it.
PollNextShort(l) ==
  /\ claim[l] = NoClaim
  /\ \A j \in Job : ~Readable(j, scan[l])
  /\ scan' = [scan EXCEPT ![l] = IF @ = 2 THEN 1 ELSE @ + 1]
  /\ UNCHANGED <<ledgerVars, claim, disturbances>>

PollNextBeyond(l) ==
  /\ claim[l] = NoClaim
  /\ \A j \in Job : ~Readable(j, scan[l])
  /\ scan' = [scan EXCEPT ![l] = IF @ = 4 THEN 1 ELSE @ + 1]
  /\ UNCHANGED <<ledgerVars, claim, disturbances>>

\* The polled queue has nothing to read: claim() tries the next one, and
\* starts again from the first after the last.
PollNext(l) ==
  /\ claim[l] = NoClaim
  /\ \A j \in Job : ~Readable(j, scan[l])
  /\ scan' = [scan EXCEPT ![l] = IF @ = 3 THEN 1 ELSE @ + 1]
  /\ UNCHANGED <<ledgerVars, claim, disturbances>>

-------------------------------------------------------------------------------
(* The calls of a lane about the job it works on. *)

\* Mutant of Outcome: the outcome row is not written.
OutcomeForgotten(j, n, outcome, error) == UNCHANGED attempt

\* Record how read n of job j ended; an outcome row is written once.
Outcome(j, n, outcome, error) ==
  attempt' = [attempt EXCEPT ![j][n] = [@ EXCEPT !.outcome = outcome, !.error = error]]

Release(l) == claim' = [claim EXCEPT ![l] = NoClaim]

\* extend_sync_job_visibility, from the page walk or the lane's heartbeat.
Extend(l, j) ==
  /\ Holds(l, j)
  /\ message' = [message EXCEPT ![j] = "hidden"]
  /\ UNCHANGED <<request, readCount, attempt, deadLetter, claim, scan, disturbances>>

\* Mutants of Complete: the message is left in its queue, or the caller's lease
\* is not required.
CompleteUnarchived(l, j) ==
  /\ Holds(l, j)
  /\ Outcome(j, claim[l].read, "succeeded", "none")
  /\ request' = [request EXCEPT ![j] = "succeeded"]
  /\ Release(l)
  /\ UNCHANGED <<message, readCount, deadLetter, scan, disturbances>>

CompleteUnfenced(l, j) ==
  /\ claim[l] # NoClaim /\ claim[l].job = j
  /\ message[j] \in InQueue
  /\ message' = [message EXCEPT ![j] = "archived"]
  /\ Outcome(j, claim[l].read, "succeeded", "none")
  /\ request' = [request EXCEPT ![j] = "succeeded"]
  /\ Release(l)
  /\ UNCHANGED <<readCount, deadLetter, scan, disturbances>>

\* complete_sync_job.
Complete(l, j) ==
  /\ Holds(l, j)
  /\ message[j] \in InQueue
  /\ message' = [message EXCEPT ![j] = "archived"]
  /\ Outcome(j, claim[l].read, "succeeded", "none")
  /\ request' = [request EXCEPT ![j] = "succeeded"]
  /\ Release(l)
  /\ UNCHANGED <<readCount, deadLetter, scan, disturbances>>

\* Mutant of Budget: the last attempt is not granted.
BudgetOneShort(error) == IF error = "retryable" THEN MaxAttempts - 1 ELSE 1

\* retry_or_fail_sync_job counts reads as attempts; a failure that is not
\* retryable is passed with a budget of one.
Budget(error) == IF error = "retryable" THEN MaxAttempts ELSE 1

Retry(l, j, error) ==
  /\ Holds(l, j)
  /\ claim[l].read < Budget(error)
  /\ message' = [message EXCEPT ![j] = "hidden"]
  /\ request' = [request EXCEPT ![j] = "retry_wait"]
  /\ Outcome(j, claim[l].read, "retry", error)
  /\ Release(l)
  /\ UNCHANGED <<readCount, deadLetter, scan, disturbances>>

Fail(l, j, error) ==
  /\ Holds(l, j)
  /\ claim[l].read >= Budget(error)
  /\ message[j] \in InQueue
  /\ message' = [message EXCEPT ![j] = "archived"]
  /\ deadLetter' = [deadLetter EXCEPT ![j] = @ + 1]
  /\ request' = [request EXCEPT ![j] = "failed"]
  /\ Outcome(j, claim[l].read, "failed", error)
  /\ Release(l)
  /\ UNCHANGED <<readCount, scan, disturbances>>

\* defer_sync_job: the same message comes back later, with its read count.
Defer(l, j) ==
  /\ Holds(l, j)
  /\ Disturb
  /\ message' = [message EXCEPT ![j] = "hidden"]
  /\ request' = [request EXCEPT ![j] = "retry_wait"]
  /\ Outcome(j, claim[l].read, "retry", "deferral")
  /\ Release(l)
  /\ UNCHANGED <<readCount, deadLetter, scan>>

\* Any call of a lane whose lease is gone raises; processing ends, and the
\* service swallows the error.
LoseClaim(l) ==
  /\ claim[l] # NoClaim
  /\ ~Holds(l, claim[l].job)
  /\ Release(l)
  /\ UNCHANGED <<ledgerVars, scan, disturbances>>

-------------------------------------------------------------------------------
(* Time and crashes. *)

\* The delay of a job nobody works on is over.
DelayEnds(j) ==
  /\ message[j] = "hidden"
  /\ \A l \in Lane : ~Holds(l, j)
  /\ message' = [message EXCEPT ![j] = "visible"]
  /\ UNCHANGED <<request, readCount, attempt, deadLetter, claim, scan, disturbances>>

\* The message of a job a lane works on becomes visible.  extend reads the
\* clock for the attempt's deadline after pgmq has set the message's, so the
\* lease can be open a little longer than the message is hidden.
WindowCloses(j) ==
  /\ message[j] = "hidden"
  /\ \E l \in Lane : Holds(l, j)
  /\ Disturb
  /\ message' = [message EXCEPT ![j] = "visible"]
  /\ UNCHANGED <<request, readCount, attempt, deadLetter, claim, scan>>

DeadlinePasses(j, n) ==
  /\ message[j] = "visible"
  /\ attempt[j][n].deadline = "open"
  /\ attempt' = [attempt EXCEPT ![j][n].deadline = "passed"]
  /\ UNCHANGED <<request, message, readCount, deadLetter, claim, scan, disturbances>>

\* The worker process dies between two database calls, or an error outside the
\* queue's protocol ends process() without a call that resolves the job.
Crash(l) ==
  /\ claim[l] # NoClaim
  /\ Disturb
  /\ Release(l)
  /\ scan' = [scan EXCEPT ![l] = 1]
  /\ UNCHANGED ledgerVars

-------------------------------------------------------------------------------
Poll(l) == PollNext(l) \/ \E j \in Job : ClaimJob(l, j)

\* How the processing of a job ends for the lane, one way or another.
Resolve(l, j) ==
  \/ Complete(l, j)
  \/ \E error \in {"retryable", "terminal"} : Retry(l, j, error) \/ Fail(l, j, error)

Next ==
  \/ \E j \in Job, delayed \in BOOLEAN : Enqueue(j, delayed)
  \/ \E l \in Lane : Poll(l)
  \/ \E l \in Lane, j \in Job : Resolve(l, j) \/ Extend(l, j) \/ Defer(l, j)
  \/ \E l \in Lane : LoseClaim(l) \/ Crash(l)
  \/ \E j \in Job : DelayEnds(j) \/ WindowCloses(j)
  \/ \E j \in Job, n \in Reads : DeadlinePasses(j, n)

Spec == Init /\ [][Next]_vars

\* Every lane keeps polling and every call of process() ends: the worker aborts
\* an operation at its deadline and the service's loop runs until shutdown.
\* Visibility timeouts and delays are finite.
Fairness ==
  /\ \A l \in Lane : WF_vars(Poll(l)) /\ WF_vars(LoseClaim(l))
  /\ \A l \in Lane : WF_vars(\E j \in Job : Resolve(l, j))
  /\ \A j \in Job : WF_vars(DelayEnds(j))

FairSpec == Spec /\ Fairness

-------------------------------------------------------------------------------
(* Safety. *)

\* At most one lane's calls about a job are accepted, however many lanes,
\* some of them with the same worker id, believe they work on it
\* (require_active_sync_job_lease and claim_sync_jobs together).
SingleLease ==
  \A j \in Job : \A l, m \in Lane : Holds(l, j) /\ Holds(m, j) => l = m

\* No job is lost and none is delivered again: the ledger row is open exactly
\* while pgmq still holds the message, through every retry, deferral and crash
\* (enqueue, complete and retry_or_fail keep the two in step).
NoLostJob ==
  \A j \in Job :
    /\ request[j] = "absent" <=> message[j] = "unsent"
    /\ request[j] \in Terminal <=> message[j] = "archived"

\* The ledger explains every resolution: a job is terminal exactly when its
\* newest attempt says so, and no attempt follows a terminal one
\* (sync_job_requests.status against the outcome rows).
LedgerExplains ==
  \A j \in Job :
    /\ \A n \in Reads : attempt[j][n].outcome \in Terminal =>
         n = readCount[j] /\ request[j] = attempt[j][n].outcome
    /\ request[j] \in Terminal => readCount[j] > 0 /\ attempt[j][readCount[j]].outcome = request[j]

\* A job sends one dead-letter envelope when it fails, and only after a failure
\* that no retry can repair or when the reads are used up; a worker that was
\* superseded never sends a second one (retry_or_fail_sync_job).
DeadLetterJustified ==
  \A j \in Job :
    /\ deadLetter[j] = IF request[j] = "failed" THEN 1 ELSE 0
    /\ request[j] = "failed" =>
         \/ readCount[j] >= MaxAttempts
         \/ attempt[j][readCount[j]].error = "terminal"

\* Attempt rows are numbered 1 to read_ct without a gap, and every lane's claim
\* names one of them that no other lane's claim names.
ClaimsAreAttempts ==
  /\ \A j \in Job : \A n \in Reads :
       IF n <= readCount[j] THEN attempt[j][n].worker \in Worker ELSE attempt[j][n] = NoAttempt
  /\ \A l \in Lane : claim[l] # NoClaim => claim[l].read <= readCount[claim[l].job]
  /\ \A l, m \in Lane : claim[l] # NoClaim /\ claim[l] = claim[m] => l = m

\* The inductive invariant behind the properties above.
QueueInv ==
  /\ TypeOK
  /\ ClaimsAreAttempts
  /\ NoLostJob
  /\ LedgerExplains
  /\ DeadLetterJustified

\* What the ledger has recorded stays: a terminal job is never reopened and an
\* outcome row never rewritten, whatever a late or superseded worker calls.
HistoryIsFinal ==
  [][\A j \in Job :
       /\ request[j] \in Terminal => request'[j] = request[j]
       /\ \A n \in Reads : attempt[j][n].outcome # "none" =>
            attempt'[j][n].outcome = attempt[j][n].outcome]_vars

\* Contracts, comments and an ADR: a deferral does not consume the failure
\* budget.  A job is given up only for a failure no retry can repair, or when
\* MaxAttempts of its reads ended in something other than a deferral.
DeferralsKeepBudget ==
  \A j \in Job : request[j] = "failed" =>
    \/ attempt[j][readCount[j]].error = "terminal"
    \/ Cardinality({n \in 1 .. readCount[j] : attempt[j][n].error # "deferral"}) >= MaxAttempts

-------------------------------------------------------------------------------
(* Liveness, and what the queue promises. *)

\* Every job that was published is eventually resolved, when crashes and
\* deferrals are finite and its payload parses (claim, retry and redelivery).
EveryJobResolves ==
  \A j \in Job \ Malformed : request[j] = "queued" ~> request[j] \in Terminal

StageOf(status) ==
  IF status = "absent" THEN "absent"
  ELSE IF status = "succeeded" THEN "done"
  ELSE IF status = "failed" THEN "dead" ELSE "pending"

Holders(j) == {l \in Lane : Holds(l, j)}

AnyOf(lanes) == IF lanes = {} THEN NoLane ELSE CHOOSE l \in lanes : TRUE

Promise == INSTANCE LeasedWork WITH
  stage <- [j \in Job |-> StageOf(request[j])],
  holder <- [j \in Job |-> AnyOf(Holders(j))],
  envelopes <- {j \in Job : deadLetter[j] > 0}

\* The queue keeps the promise of LeasedWork: jobs are resolved once, and only
\* by a lane whose lease is active (every function that requires the lease).
KeepsPromise == Promise!WorkSpec
===============================================================================
