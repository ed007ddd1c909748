--------------------------- MODULE BackfillLifecycle ---------------------------
(***************************************************************************)
(* The initial backfill of one stream of one connection generation.        *)
(*                                                                         *)
(* The plan is a chain of phases (recent, thirteen_months, full_history).  *)
(* A phase is walked page by page by jobs of the durable queue: its first  *)
(* job, and a continuation where a claim reached its page budget.  The     *)
(* lanes of the sync workers claim the jobs, land and commit pages,        *)
(* publish the continuation or the next phase, close the sync run and      *)
(* acknowledge; a recovery routine publishes what was lost.                *)
(*                                                                         *)
(* The queue is LeasedWork, the specification SyncQueue implements.  One   *)
(* action is one transaction of the control plane, or one step of a lane   *)
(* between two; a lane whose lease is gone goes on until a call is fenced. *)
(***************************************************************************)
EXTENDS Naturals

CONSTANTS
  LastPhase,      \* phases are 1 .. LastPhase; the last one completes the backfill
  LastPage,       \* pages of a phase are 0 .. LastPage
  PagesPerClaim,  \* BACKFILL_PAGES_PER_CLAIM
  MaxAttempts,    \* the retry budget of a job
  MaxReplay,      \* bound: replays of a phase
  MaxFaults,      \* bound: crashes, lapsed leases, vendor errors and deferrals
  Lane, NoLane, NoJob

Phase == 1 .. LastPhase
Page == 0 .. LastPage
Replay == 1 .. MaxReplay

\* A job is its idempotency key.  `from` is the cursor in the payload: 0 for
\* the phase's own key, the page after the budget for a continuation's.
Job == [phase : Phase, replay : Replay, from : Page]

ASSUME BackfillAssumption ==
  /\ LastPhase \in Nat \ {0}
  /\ LastPage \in Nat
  /\ PagesPerClaim \in Nat \ {0}
  /\ MaxAttempts \in Nat \ {0}
  /\ MaxReplay \in Nat \ {0}
  /\ MaxFaults \in Nat
  /\ NoLane \notin Lane
  /\ NoJob \notin Job

VARIABLES
  stage, holder, envelopes,  \* the queue, see LeasedWork
  reads,        \* reads[j]: how often job j was claimed
  active,       \* the jobs whose request row has the status running
  phase,        \* phase[p]: sync_stream_phases.status
  replay,       \* replay[p]: sync_stream_phases.replay_version
  lastJob,      \* lastJob[p]: sync_stream_phases.last_job_request_id
  run,          \* run[j]: status of the job's row in sync_runs
  cursor,       \* cursor[j]: where the run resumes: cursor_end, or the payload's cursor
  owner,        \* owner[j]: the lane whose current claim wrote attempt_number
  landed,       \* landed[p]: the pages of the phase in the analytical store
  complete,     \* stream_cursors.backfill_complete
  lane,         \* lane[l]: where process() is
  coordinator,  \* the stream-less job that fans out the plan
  faults        \* how often the environment has interfered

queueVars == <<stage, holder, envelopes, reads, active>>
phaseVars == <<phase, replay, lastJob>>
runVars == <<run, cursor, owner>>
dataVars == <<landed, complete>>
vars == <<queueVars, phaseVars, runVars, dataVars, lane, coordinator, faults>>

Work == INSTANCE LeasedWork

PhaseStatus == {"planned", "queued", "running", "succeeded", "failed"}
RunStatus == {"none", "running", "retry_wait", "succeeded", "failed"}
Place == {"defer", "begin", "resume", "land", "commit", "publish", "mark", "close", "ack",
          "limited", "retry", "fatal", "retried", "abandoned"}

Idle == [at |-> "idle"]
Walk == [at : Place, job : Job, page : Page, walked : 1 .. PagesPerClaim,
         target : Job \cup {NoJob}, redelivered : BOOLEAN]

TypeOK ==
  /\ Work!WorkTypeOK
  /\ reads \in [Job -> Nat]
  /\ active \subseteq Job
  /\ phase \in [Phase -> PhaseStatus]
  /\ replay \in [Phase -> Replay]
  /\ lastJob \in [Phase -> Job \cup {NoJob}]
  /\ run \in [Job -> RunStatus]
  /\ cursor \in [Job -> Page]
  /\ owner \in [Job -> Lane \cup {NoLane}]
  /\ landed \in [Phase -> SUBSET Page]
  /\ complete \in BOOLEAN
  /\ lane \in [Lane -> Walk \cup {Idle}]
  /\ coordinator \in {"start", "mark", "done"}
  /\ faults \in 0 .. MaxFaults

\* The first job of phase p at replay r.
FirstJob(p, r) == [phase |-> p, replay |-> r, from |-> 0]

\* register_sync_stream_phase has written the immutable plan.
Init ==
  /\ Work!WorkInit
  /\ reads = [j \in Job |-> 0]
  /\ active = {}
  /\ phase = [p \in Phase |-> "planned"]
  /\ replay = [p \in Phase |-> 1]
  /\ lastJob = [p \in Phase |-> NoJob]
  /\ run = [j \in Job |-> "none"]
  /\ cursor = [j \in Job |-> j.from]
  /\ owner = [j \in Job |-> NoLane]
  /\ landed = [p \in Phase |-> {}]
  /\ complete = FALSE
  /\ lane = [l \in Lane |-> Idle]
  /\ coordinator = "start"
  /\ faults = 0

Interfere ==
  /\ faults < MaxFaults
  /\ faults' = faults + 1

-------------------------------------------------------------------------------
(* Shared steps. *)

\* Lane l is at the given place of process(), with job j.
At(l, place, j) == lane[l].at = place /\ lane[l].job = j

Goto(l, place) == lane' = [lane EXCEPT ![l].at = place]

Stop(l) == lane' = [lane EXCEPT ![l] = Idle]

\* enqueue_sync_job with the key of j: idempotent.
Publish(j) == Work!Submit(j) \/ (stage[j] # "absent" /\ UNCHANGED <<stage, holder, envelopes>>)

\* Mutant of Markable: the replay version of the row is not looked at.
MarkableAnyReplay(j) == phase[j.phase] \in {"planned", "queued", "running", "failed"}

\* mark_sync_stream_phase_enqueued finds its row.
Markable(j) ==
  /\ phase[j.phase] \in {"planned", "queued", "running", "failed"}
  /\ replay[j.phase] <= j.replay

MarkQueued(j) ==
  /\ phase' = [phase EXCEPT ![j.phase] = "queued"]
  /\ replay' = [replay EXCEPT ![j.phase] = j.replay]
  /\ lastJob' = [lastJob EXCEPT ![j.phase] = j]

PredecessorDone(p) == \A q \in Phase : q = p - 1 => phase[q] = "succeeded"

\* The phase row a job may still change: same replay, not yet decided.
Current(j) == replay[j.phase] = j.replay /\ phase[j.phase] \in {"queued", "running"}

-------------------------------------------------------------------------------
(* A claim, from the queue to the first page. *)

\* claim_sync_jobs.  A new read of the same job has a new attempt number.
Claim(l, j) ==
  /\ lane[l] = Idle
  /\ holder[j] = NoLane
  /\ Work!Grant(j, l)
  /\ reads' = [reads EXCEPT ![j] = @ + 1]
  /\ active' = active \cup {j}
  /\ owner' = [owner EXCEPT ![j] = IF @ = l THEN NoLane ELSE @]
  /\ lane' = [lane EXCEPT ![l] =
       [at |-> "begin", job |-> j, page |-> j.from, walked |-> 1, target |-> NoJob,
        redelivered |-> reads[j] > 0]]
  /\ UNCHANGED <<phaseVars, run, cursor, dataVars, coordinator, faults>>

\* A deep phase gives way to a recent phase that is still open, here or in
\* another stream of the connection.
YieldToRecent(l, j) ==
  /\ At(l, "begin", j)
  /\ j.phase # 1
  /\ Interfere
  /\ Goto(l, "defer")
  /\ UNCHANGED <<queueVars, phaseVars, runVars, dataVars, coordinator>>

\* Mutant of Begin: the predecessor is not checked.
BeginUnordered(l, j) ==
  /\ At(l, "begin", j)
  /\ run[j] # "succeeded"
  /\ Current(j)
  /\ run' = [run EXCEPT ![j] = "running"]
  /\ owner' = [owner EXCEPT ![j] = l]
  /\ phase' = [phase EXCEPT ![j.phase] = "running"]
  /\ Goto(l, "resume")
  /\ UNCHANGED <<queueVars, replay, lastJob, cursor, dataVars, coordinator, faults>>

\* beginRun, one transaction: the run row, then the phase row.
Begin(l, j) ==
  /\ At(l, "begin", j)
  /\ run[j] # "succeeded"
  /\ Current(j) /\ PredecessorDone(j.phase)
  /\ run' = [run EXCEPT ![j] = "running"]
  /\ owner' = [owner EXCEPT ![j] = l]
  /\ phase' = [phase EXCEPT ![j.phase] = "running"]
  /\ Goto(l, "resume")
  /\ UNCHANGED <<queueVars, replay, lastJob, cursor, dataVars, coordinator, faults>>

\* The phase moved on, or its predecessor is open: sync_stream_phase_lease_stale
\* rolls the transaction back.
BeginStale(l, j) ==
  /\ At(l, "begin", j)
  /\ run[j] # "succeeded"
  /\ ~(Current(j) /\ PredecessorDone(j.phase))
  /\ Goto(l, "retry")
  /\ UNCHANGED <<queueVars, phaseVars, runVars, dataVars, coordinator, faults>>

BeginAgain(l, j) ==
  /\ At(l, "begin", j)
  /\ run[j] = "succeeded"
  /\ Goto(l, "ack")
  /\ UNCHANGED <<queueVars, phaseVars, runVars, dataVars, coordinator, faults>>

\* Mutant of Resume: a redelivered claim takes the page at the cursor for done.
ResumeAhead(l, j) ==
  /\ At(l, "resume", j)
  /\ lane' = [lane EXCEPT ![l] = [@ EXCEPT
       !.at = "land",
       !.page = IF lane[l].redelivered /\ cursor[j] < LastPage THEN cursor[j] + 1 ELSE cursor[j]]]
  /\ UNCHANGED <<queueVars, phaseVars, runVars, dataVars, coordinator, faults>>

\* resumeInitialBackfillCursor: a redelivered claim goes on at the cursor of a
\* running run.
Resume(l, j) ==
  /\ At(l, "resume", j)
  /\ lane' = [lane EXCEPT ![l] = [@ EXCEPT
       !.at = "land",
       !.page = IF lane[l].redelivered /\ run[j] = "running" THEN cursor[j] ELSE j.from]]
  /\ UNCHANGED <<queueVars, phaseVars, runVars, dataVars, coordinator, faults>>

-------------------------------------------------------------------------------
(* The page walk. *)

\* Every write of a page runs under the write permit: the lease must be active
\* and the run running.  The lease is extended after the last of them.
Land(l, j) ==
  /\ At(l, "land", j)
  /\ holder[j] = l
  /\ run[j] = "running"
  /\ landed' = [landed EXCEPT ![j.phase] = @ \cup {lane[l].page}]
  /\ Goto(l, "commit")
  /\ UNCHANGED <<queueVars, phaseVars, runVars, complete, coordinator, faults>>

LandFenced(l, j) ==
  /\ At(l, "land", j)
  /\ holder[j] = l
  /\ run[j] # "running"
  /\ Goto(l, "retry")
  /\ UNCHANGED <<queueVars, phaseVars, runVars, dataVars, coordinator, faults>>

\* Mutant of HasMore: the last page is taken for one too many.
HasMoreShort(page) == page + 1 < LastPage

HasMore(page) == page < LastPage

\* Mutants of CommitRows: the cursor moves past the last page, or the final page
\* closes the run.
CommitRowsBeyond(j, page) ==
  /\ phase' = IF ~HasMore(page) /\ Current(j)
              THEN [phase EXCEPT ![j.phase] = "succeeded"] ELSE phase
  /\ complete' = (complete \/ (~HasMore(page) /\ j.phase = LastPhase))
  /\ run' = [run EXCEPT ![j] = "running"]
  /\ cursor' = [cursor EXCEPT ![j] = page + 1]

CommitRowsClosing(j, page) ==
  /\ phase' = IF ~HasMore(page) /\ Current(j)
              THEN [phase EXCEPT ![j.phase] = "succeeded"] ELSE phase
  /\ complete' = (complete \/ (~HasMore(page) /\ j.phase = LastPhase))
  /\ run' = [run EXCEPT ![j] = "succeeded"]
  /\ cursor' = [cursor EXCEPT ![j] = IF HasMore(page) THEN page + 1 ELSE page]

\* What commitPage writes, whoever holds the lease by now.  The cursor of a
\* final page stays where the page began (a final page without one stores the
\* stream's; the phase is decided then and is not resumed).
CommitRows(j, page) ==
  /\ phase' = IF ~HasMore(page) /\ Current(j)
              THEN [phase EXCEPT ![j.phase] = "succeeded"] ELSE phase
  /\ complete' = (complete \/ (~HasMore(page) /\ j.phase = LastPhase))
  /\ run' = [run EXCEPT ![j] = "running"]
  /\ cursor' = [cursor EXCEPT ![j] = IF HasMore(page) THEN page + 1 ELSE page]

\* commitPage, then the prefetched page while the claim's budget lasts.
CommitPage(l, j) ==
  /\ At(l, "commit", j)
  /\ CommitRows(j, lane[l].page)
  /\ LET walk == lane[l] IN
     IF HasMore(walk.page) /\ walk.walked < PagesPerClaim
     THEN lane' = [lane EXCEPT ![l] =
            [walk EXCEPT !.at = "land", !.page = walk.page + 1, !.walked = walk.walked + 1]]
     ELSE Goto(l, "publish")
  /\ UNCHANGED <<queueVars, replay, lastJob, owner, landed, coordinator, faults>>

-------------------------------------------------------------------------------
(* Leaving the claim. *)

\* The job the lane publishes: the continuation of its phase, or the first job
\* of the next phase at the replay version that phase has now.  The version is
\* read in a transaction of its own; when it moves on before the publication,
\* the first job of the version read had been published, so nothing changes.
Successor(j, page) ==
  IF HasMore(page) THEN [j EXCEPT !.from = page + 1]
  ELSE IF j.phase < LastPhase THEN FirstJob(j.phase + 1, replay[j.phase + 1])
  ELSE NoJob

PublishSuccessor(l, j) ==
  LET next == Successor(j, lane[l].page)
  IN  /\ At(l, "publish", j)
      /\ next # NoJob
      /\ Publish(next)
      /\ lane' = [lane EXCEPT ![l] = [@ EXCEPT !.at = "mark", !.target = next]]
      /\ UNCHANGED <<reads, active, phaseVars, runVars, dataVars, coordinator, faults>>

\* The last page of the last phase has no successor.
NothingToPublish(l, j) ==
  /\ At(l, "publish", j)
  /\ Successor(j, lane[l].page) = NoJob
  /\ Goto(l, "close")
  /\ UNCHANGED <<queueVars, phaseVars, runVars, dataVars, coordinator, faults>>

MarkSuccessor(l, j) ==
  /\ At(l, "mark", j)
  /\ Markable(lane[l].target)
  /\ MarkQueued(lane[l].target)
  /\ Goto(l, "close")
  /\ UNCHANGED <<queueVars, runVars, dataVars, coordinator, faults>>

MarkStale(l, j) ==
  /\ At(l, "mark", j)
  /\ ~Markable(lane[l].target)
  /\ Goto(l, "retry")
  /\ UNCHANGED <<queueVars, phaseVars, runVars, dataVars, coordinator, faults>>

\* complete_sync_page_run closes a running run whose request is running.
Closable(j) == run[j] = "running" /\ j \in active

CloseRun(l, j) ==
  /\ At(l, "close", j)
  /\ Closable(j) \/ run[j] = "succeeded"
  /\ run' = [run EXCEPT ![j] = "succeeded"]
  /\ Goto(l, "ack")
  /\ UNCHANGED <<queueVars, phaseVars, cursor, owner, dataVars, coordinator, faults>>

CloseStale(l, j) ==
  /\ At(l, "close", j)
  /\ ~Closable(j) /\ run[j] # "succeeded"
  /\ Goto(l, "retry")
  /\ UNCHANGED <<queueVars, phaseVars, runVars, dataVars, coordinator, faults>>

\* queue.complete.
Acknowledge(l, j) ==
  /\ At(l, "ack", j)
  /\ holder[j] = l
  /\ Work!Finish(j)
  /\ active' = active \ {j}
  /\ Stop(l)
  /\ UNCHANGED <<reads, phaseVars, runVars, dataVars, coordinator, faults>>

-------------------------------------------------------------------------------
(* Failures of a claim. *)

\* A call to the vendor or the database fails: a retryable error, one no retry
\* repairs, or the vendor's rate limit.
Break(l, j, error) ==
  /\ lane[l].at \in {"begin", "resume", "land", "commit", "publish", "mark", "close", "ack"}
  /\ lane[l].job = j
  /\ error = "limited" => lane[l].at = "land"
  /\ Interfere
  /\ Goto(l, error)
  /\ UNCHANGED <<queueVars, phaseVars, runVars, dataVars, coordinator>>

\* queue.retryOrFail comes before markRunFailed.
RetryJob(l, j) ==
  /\ At(l, "retry", j)
  /\ holder[j] = l
  /\ reads[j] < MaxAttempts
  /\ Work!Revoke(j)
  /\ active' = active \ {j}
  /\ Goto(l, "retried")
  /\ UNCHANGED <<reads, phaseVars, runVars, dataVars, coordinator, faults>>

FailJob(l, j) ==
  /\ At(l, "fatal", j) \/ (At(l, "retry", j) /\ reads[j] >= MaxAttempts)
  /\ holder[j] = l
  /\ Work!Abandon(j)
  /\ active' = active \ {j}
  /\ Goto(l, "abandoned")
  /\ UNCHANGED <<reads, phaseVars, runVars, dataVars, coordinator, faults>>

\* markRunFailed changes the run only if this claim's attempt began it last.
RunFailed(l, j, status) ==
  run' = IF owner[j] = l /\ run[j] # "succeeded"
         THEN [run EXCEPT ![j] = status] ELSE run

MarkRunRetried(l, j) ==
  /\ At(l, "retried", j)
  /\ RunFailed(l, j, "retry_wait")
  /\ Stop(l)
  /\ UNCHANGED <<queueVars, phaseVars, cursor, owner, dataVars, coordinator, faults>>

MarkRunFailed(l, j) ==
  /\ At(l, "abandoned", j)
  /\ RunFailed(l, j, "failed")
  /\ phase' = IF Current(j) THEN [phase EXCEPT ![j.phase] = "failed"] ELSE phase
  /\ Stop(l)
  /\ UNCHANGED <<queueVars, replay, lastJob, cursor, owner, dataVars, coordinator, faults>>

\* A rate limit is recorded first and then deferred.
MarkRunLimited(l, j) ==
  /\ At(l, "limited", j)
  /\ RunFailed(l, j, "retry_wait")
  /\ Goto(l, "defer")
  /\ UNCHANGED <<queueVars, phaseVars, cursor, owner, dataVars, coordinator, faults>>

Defer(l, j) ==
  /\ At(l, "defer", j)
  /\ holder[j] = l
  /\ Work!Revoke(j)
  /\ active' = active \ {j}
  /\ Stop(l)
  /\ UNCHANGED <<reads, phaseVars, runVars, dataVars, coordinator, faults>>

\* A fenced call of a lane whose lease is gone raises, and so does the call
\* that would report it.
LoseClaim(l, j) ==
  /\ lane[l].at \in {"land", "ack", "retry", "fatal", "defer"}
  /\ lane[l].job = j
  /\ holder[j] # l
  /\ Stop(l)
  /\ UNCHANGED <<queueVars, phaseVars, runVars, dataVars, coordinator, faults>>

-------------------------------------------------------------------------------
(* The environment, the coordinator and recovery. *)

\* The visibility window of a working lane closes.
Lapse(j) ==
  /\ holder[j] # NoLane
  /\ Interfere
  /\ Work!Revoke(j)
  /\ UNCHANGED <<reads, active, phaseVars, runVars, dataVars, lane, coordinator>>

\* The process dies; the lease it held lapses.
Crash(l) ==
  /\ lane[l] # Idle
  /\ Interfere
  /\ Stop(l)
  /\ \/ holder[lane[l].job] = l /\ Work!Revoke(lane[l].job)
     \/ holder[lane[l].job] # l /\ UNCHANGED <<stage, holder, envelopes>>
  /\ UNCHANGED <<reads, active, phaseVars, runVars, dataVars, coordinator>>

\* fanOut of the stream-less job publishes and marks the recent phase.
FanOut ==
  /\ coordinator = "start"
  /\ Publish(FirstJob(1, 1))
  /\ coordinator' = "mark"
  /\ UNCHANGED <<reads, active, phaseVars, runVars, dataVars, lane, faults>>

FanOutMark ==
  /\ coordinator = "mark"
  /\ coordinator' = "done"
  /\ \/ Markable(FirstJob(1, 1)) /\ MarkQueued(FirstJob(1, 1))
     \/ ~Markable(FirstJob(1, 1)) /\ UNCHANGED phaseVars
  /\ UNCHANGED <<queueVars, runVars, dataVars, lane, faults>>

\* The coordinator's claim ends early: its job is retried, or given up.
FanOutBreaks ==
  /\ coordinator # "done"
  /\ Interfere
  /\ coordinator' \in {"start", "done"}
  /\ UNCHANGED <<queueVars, phaseVars, runVars, dataVars, lane>>

RequestOver(p) == lastJob[p] # NoJob /\ stage[lastJob[p]] \in {"done", "dead"}

\* Mutant of Recoverable: planned phases are left to their predecessor's lane.
RecoverableBegun(p) ==
  \/ phase[p] = "failed"
  \/ phase[p] \in {"queued", "running"} /\ (lastJob[p] = NoJob \/ RequestOver(p))

\* recover_sync_stream_phases: phases that wait although nothing is under way.
Recoverable(p) ==
  \/ phase[p] = "planned" /\ PredecessorDone(p)
  \/ phase[p] = "failed"
  \/ phase[p] \in {"queued", "running"} /\ (lastJob[p] = NoJob \/ RequestOver(p))

NextReplay(p) == IF phase[p] = "failed" \/ RequestOver(p) THEN replay[p] + 1 ELSE replay[p]

Recover(p) ==
  LET j == FirstJob(p, NextReplay(p))
  IN  /\ Recoverable(p)
      /\ NextReplay(p) <= MaxReplay
      /\ Publish(j)
      /\ MarkQueued(j)
      /\ UNCHANGED <<reads, active, runVars, dataVars, lane, coordinator, faults>>

-------------------------------------------------------------------------------
\* What lane l does by itself with job j.
Proceed(l, j) ==
  \/ Begin(l, j) \/ BeginStale(l, j) \/ BeginAgain(l, j) \/ Resume(l, j)
  \/ Land(l, j) \/ LandFenced(l, j) \/ CommitPage(l, j)
  \/ PublishSuccessor(l, j) \/ NothingToPublish(l, j) \/ MarkSuccessor(l, j) \/ MarkStale(l, j)
  \/ CloseRun(l, j) \/ CloseStale(l, j) \/ Acknowledge(l, j)
  \/ RetryJob(l, j) \/ FailJob(l, j)
  \/ MarkRunRetried(l, j) \/ MarkRunFailed(l, j) \/ MarkRunLimited(l, j)
  \/ Defer(l, j) \/ LoseClaim(l, j)

Disturbed(l, j) ==
  \/ YieldToRecent(l, j)
  \/ \E error \in {"retry", "fatal", "limited"} : Break(l, j, error)

Next ==
  \/ \E l \in Lane, j \in Job : Claim(l, j) \/ Proceed(l, j) \/ Disturbed(l, j)
  \/ \E j \in Job : Lapse(j)
  \/ \E l \in Lane : Crash(l)
  \/ FanOut \/ FanOutMark \/ FanOutBreaks
  \/ \E p \in Phase : Recover(p)

Spec == Init /\ [][Next]_vars

\* A lane polls again after every job and its calls return or are aborted at
\* the operation deadline; a scheduler runs recover_sync_stream_phases for good.
Fairness ==
  /\ \A l \in Lane : WF_vars(\E j \in Job : Claim(l, j))
  /\ \A l \in Lane : WF_vars(\E j \in Job : Proceed(l, j))
  /\ \A p \in Phase : WF_vars(Recover(p))

FairSpec == Spec /\ Fairness

-------------------------------------------------------------------------------
(* Safety. *)

\* A phase that is recorded as succeeded has every page in the analytical
\* store, and a stream recorded as backfilled has every page of every phase:
\* whatever lanes lost their lease, resumed, or walked the phase twice
\* (commitPage checks no lease, beginRun and the cursors carry the guarantee).
CoverageIsReal ==
  /\ \A p \in Phase : phase[p] = "succeeded" => landed[p] = Page
  /\ complete => \A p \in Phase : landed[p] = Page

\* Phases run in the order of the plan: none is running or done before every
\* earlier one is done (the predecessor check of beginRun, which neither mark
\* nor recovery repeats).
EarlierDone(p) == \A q \in Phase : q < p => phase[q] = "succeeded"

PhasesInOrder ==
  \A p \in Phase : phase[p] \in {"running", "succeeded"} => EarlierDone(p)

\* The pages a lane skips are in the store already: the cursor in the payload
\* of a job, the cursor its run resumes from and the page its lane walks are
\* each preceded by landed pages only, and a page is landed before it is
\* committed (resumeInitialBackfillCursor and enqueueContinuation).
Before(page) == 0 .. page - 1

NoPageSkipped ==
  /\ \A j \in Job : stage[j] # "absent" => Before(j.from) \subseteq landed[j.phase]
  /\ \A j \in Job : run[j] # "none" => Before(cursor[j]) \subseteq landed[j.phase]
  /\ \A l \in Lane : lane[l] # Idle => Before(lane[l].page) \subseteq landed[lane[l].job.phase]
  /\ \A l \in Lane : lane[l].at \in {"commit", "publish"} =>
       lane[l].page \in landed[lane[l].job.phase]

\* The work of job j goes on in another job, or the backfill is over: a later
\* part of the phase was published, or all of it is landed and the next phase,
\* if there is one, was published.
WorkGoesOn(j) ==
  \/ \E page \in Page : page > j.from /\ stage[[j EXCEPT !.from = page]] # "absent"
  \/ /\ landed[j.phase] = Page
     /\ j.phase = LastPhase \/ \E r \in Replay : stage[FirstJob(j.phase + 1, r)] # "absent"

\* ADR-0062: a run does not become terminal before its durable successor is
\* published (PublishSuccessor comes before CloseRun, on every path).
SuccessorBeforeSuccess == \A j \in Job : run[j] = "succeeded" => WorkGoesOn(j)

\* Recovery finds the request that carries an open phase: it is one of the
\* phase's current replay, and it was published (mark and recover write the
\* three columns together).
OpenPhaseHasRequest ==
  \A p \in Phase : phase[p] \in {"queued", "running"} =>
    /\ lastJob[p] # NoJob
    /\ lastJob[p].phase = p /\ lastJob[p].replay = replay[p]
    /\ stage[lastJob[p]] # "absent"

\* What a lane has seen to before it reached its place.
OnTrack(l) ==
  LET j == lane[l].job IN
  /\ stage[j] # "absent"
  /\ j.from <= lane[l].page
  /\ lane[l].at \in {"resume", "land", "commit"} => EarlierDone(j.phase)
  /\ lane[l].at = "mark" => lane[l].target \in Job /\ stage[lane[l].target] # "absent"
  /\ lane[l].at \in {"mark", "close"} => WorkGoesOn(j)

LanesOnTrack == \A l \in Lane : lane[l] # Idle => OnTrack(l)

RunsOnTrack ==
  /\ \A j \in Job : run[j] = "none" => cursor[j] = j.from
  /\ \A j \in Job : run[j] # "none" => stage[j] # "absent" /\ j.from <= cursor[j]
  /\ coordinator = "mark" => stage[FirstJob(1, 1)] # "absent"

\* The inductive invariant behind the properties above.
BackfillInv ==
  /\ TypeOK
  /\ CoverageIsReal
  /\ PhasesInOrder
  /\ NoPageSkipped
  /\ SuccessorBeforeSuccess
  /\ OpenPhaseHasRequest
  /\ LanesOnTrack
  /\ RunsOnTrack

\* Progress is never taken back: a succeeded phase is not reopened by a late
\* mark, a recovery or a failing walker, and no replay version goes down
\* (the guards of mark_sync_stream_phase_enqueued).
ProgressIsFinal ==
  [][\A p \in Phase :
       /\ phase[p] = "succeeded" => phase'[p] = "succeeded" /\ lastJob'[p] = lastJob[p]
       /\ replay'[p] >= replay[p]]_vars

\* ADR-0062: a terminal queue request does not leave its run active.  No lane
\* works on the job any more, and its run is still running.
FalselyActive(j) ==
  /\ stage[j] \in {"done", "dead"}
  /\ run[j] = "running"
  /\ \A l \in Lane : lane[l] # Idle => lane[l].job # j

NoFalselyActiveRun == \A j \in Job : ~FalselyActive(j)

-------------------------------------------------------------------------------
(* Liveness. *)

\* The backfill completes: with finitely many faults, whatever they are, every
\* phase succeeds (recovery publishes what exhausted or lost jobs left).
BackfillCompletes == <>(complete /\ \A p \in Phase : phase[p] = "succeeded")
===============================================================================
