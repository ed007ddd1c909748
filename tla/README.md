# Verification of Albert's ingestion core

Albert answers questions about a business from the data of its Xero, Lightspeed
R-Series and Deputy accounts. Its core is not the question but the copy: sync workers
walk vendor histories page by page, land them in an analytical store and keep, in a
PostgreSQL control plane, the ledger that says what has been copied. An answer is only
as good as that ledger. This directory models the ledger and the workers that write it, the queue that turns
landed pages into canonical rows, the nightly sweep that looks for deleted records, the
deletion that ends it all, and the turns of the conversation that answers from it.

## Inventory

Paths are relative to `src/`; CP is `infra/migrations/control-plane/`.

| Component | State | Operations | Where it is hard | What makes it correct |
|---|---|---|---|---|
| **Sync job queue** (CP/0003, 0008, 0027, `packages/queue`) | pgmq message and read count; `sync_job_requests`; attempt and outcome rows; dead-letter queue | enqueue, claim, extend, complete, retry-or-fail, defer | lanes of one process share a worker id; a window lapses while a lane works; crash after claim; malformed payload | one accepted worker per job; nothing lost, nothing resolved twice; dead letters justified; every job resolved |
| **Initial backfill** (CP/0027, 0080, 0045, `sync-workers/src/worker.ts`) | `sync_stream_phases`, `sync_runs`, `stream_cursors` | fan-out, begin, resume, land, commit, publish, mark, close, acknowledge, recover | a chain of separate transactions; commit and begin are not fenced by the lease; late marks race with recovery | recorded coverage is real, phases in order, no page skipped, successor before terminal, completion |
| **Stream cursors** (`control-plane-store.ts:871`, `connectors/deputy`, `connectors/lightspeed-r/spec-sync.ts`, CP/0073, 0029) | `stream_cursors`; the cursors in job payloads and continuations | schedule, signal, claim, fetch, land, commit, publish, close | jobs of different ages overlap and are redelivered; commits out of order and without a lease; records change during a walk | no change left behind the cursor; the cursor never moves back; every change lands |
| **Reconciliation sweeps** (CP/0033, 0058, analytical/0081, `worker.ts`, `analytical-store.ts`) | sweep row; scans, identities and tombstone applications; source records; job rows and batches | begin, extract, land, record, publish, commit, block, retry | the control plane and the store are two databases; the successor is published before the phase is committed; a page is read twice with the vendor changing between | a tombstone rests on two scans that missed the record; phases are not ahead of their scans; a sweep ends or shows why not |
| **Write permits, connection lifecycle** (CP/0038, 0006, 0020, 0025) | connection status, permits | acquire, upload, land, release, disconnect, reconnect | a permit races with the deletion request; a page under way when the request is made | no write after quiescence; a live connection is whole |
| **Deletion worker** (CP/0006, 0020, 0032, 0054, `services/deletion-worker`) | `deletion_requests`, attempts, evidence, deletion queue | claim, revoke, destroy, quiesce, purge, verify, prove, retry, requeue, force | a crash between two stores; a lease lost in a stage; a watchdog beside the worker | the proof is true, evidence is kept, every request is pursued |
| **Canonical transform queue** (CP/0004, 0045, 0064, 0079, `services/transform-worker`) | `canonical_transform_jobs`, `progressive_stream_coverage`, the reconciliation request | claim, continue, retry or fail, complete | completions do not see each other's writes; pages that miss the same record; continuations give attempts back | coverage is exact, the budget is spent on failures, every job ends |
| **Credential refresh lease** (CP/0008, 0070, `credential-refresh-lease.ts`, `credential-vault.ts`, `connectors/xero`) | lease row with fence; envelope version and token; the vendor's newest token | acquire, extend, reread, exchange, publish, release; account selection | single-use refresh tokens; an operation outlives the coordinator that gave it up | the holder publishes undisturbed; concurrency neither loses nor replays the token; every call ends |
| Token key rotation (CP/0031) | wrapped secrets, rotation rows | rotate, resume | rotation concurrent with refresh | no secret lost |
| Vendor rate budget (CP/0008, 0070) | theoretical arrival time | reserve, penalise | clock and burst boundaries | the vendor's limit |
| Xero webhook inbox (CP/0010, 0037, 0039, 0089), Deputy receipts (CP/0009, 0028, 0029) | inbox rows, sequence | receive, claim, complete | duplicates, gaps, leases | every event leads to a sync once |
| **Conversation turns, answer finaliser** (CP/0018, 0026, 0084, 0094, `app/api/conversation`, `services/semantic-query`) | turn row with lease, artifact, trace events, usage ledger | begin, emit, write, finalize, fail, reap, rewind | a reaped owner finalizes late; a write of the trace is lost; a request outlives its caller | an answer is bound once and with its event; every turn ends, every reader is told |
| Promotion relay (CP/0043, analytical/0084) | relay tenants, tokens | claim, apply, complete | taken-over lease completes | every tenant reached |
| OAuth sessions, raw batches | see `PROJECT.json` | | replays of one request | idempotence |
| Canonical pipeline, connectors, semantic registry, compiler, query service, agent, web app, operator diagnostics, deploy, scripts, evals | mostly stateless | | pure functions and I/O | see Not modelled |

The parts meet in the control plane. The workers publish jobs into the queue and claim
them from it; a page commit writes the run, the phase and the cursor in one transaction;
a commit also enqueues transform jobs; recovery reads phases and requests and publishes
again. Nothing is shared in memory between lanes, and every hand-over is a committed row. A
deletion request fences the sync workers through write permits; the answer to a question
is bound by the semantic service into the turn the web handler runs. Components in bold
are modelled.

`PROJECT.json` lists every component with its status, and every hazard with the line
where it bites and the properties that would notice it.

## Modules

| Module | What it is |
|---|---|
| `LeasedWork` | abstract: what the queue promises to whoever publishes a job |
| `SyncQueue` | the queue and the lanes' protocol around one claim; implements `LeasedWork` |
| `SyncQueueProofs` | theorems about `SyncQueue` |
| `BackfillLifecycle` | the initial backfill of one stream, built on `LeasedWork` |
| `BackfillProofs` | theorems about `BackfillLifecycle` |
| `CredentialRefresh` | the refresh of one credential with a single-use token |
| `CredentialProofs` | theorems about `CredentialRefresh` |
| `StreamCursor` | the incremental copy of one stream with Deputy's or Lightspeed's watermark |
| `CursorProofs` | theorems about `StreamCursor` |
| `ConversationTurns` | the turns of one conversation, from POST to bound answer |
| `ConversationProofs` | theorems about `ConversationTurns` |
| `DeletionLifecycle` | the deletion of one connection, the watchdog, and the sync writes it fences |
| `DeletionProofs` | theorems about `DeletionLifecycle` |
| `TransformQueue` | the queue of canonical transforms and the coverage it decides |
| `TransformProofs` | theorems about `TransformQueue` |
| `ReconciliationSweep` | one reconciliation sweep of one stream, from its registration to its last tombstone |
| `SweepProofs` | theorems about `ReconciliationSweep` |
| `MCSyncQueue`, `MCBackfillLifecycle`, `MCCredentialRefresh`, `MCStreamCursor`, `MCConversationTurns` | instances for TLC |
| `MCServices` | instances of `DeletionLifecycle`, `CredentialRefresh` and `ReconciliationSweep` side by side |
| `MCRecords` | instances of `StreamCursor` and `ReconciliationSweep` side by side |
| `MCPipeline` | instances of `StreamCursor` and `TransformQueue` side by side |

`MCServices`, `MCRecords` and `MCPipeline` each put two or three parts into one run. The parts share no
variable and no action of one reads another's, so the variable `on` picks, once and for
all, which of them moves; each part's fairness is conjoined with it. Their
interleaving would multiply the states and show nothing more. Where modelled parts do
meet, they meet inside a module: the sync writes and the deletion in `DeletionLifecycle`,
the queue and the backfill through `LeasedWork`, the account selection and the refresh in
`CredentialRefresh`, the web handler and the semantic service in `ConversationTurns`.

### SyncQueue

One action is one plpgsql function, hence one transaction, or one step of a lane between
two of them. `request`, `attempt` and `deadLetter` are the ledger's tables; `message` and
`readCount` are what pgmq keeps (external code, modelled from its use in CP/0003:
`send`, `read`, `set_vt`, `archive`); `claim` and `scan` are the two local variables of a
lane that outlive a database call. `LeaseActive` is `require_active_sync_job_lease`
condition by condition. Every call of a lane is guarded by it, and `LoseClaim` is the
exception raised when it fails.

Time is not counted. A message has a visibility time and an attempt a lease deadline;
`extend_sync_job_visibility` takes them from two readings of the clock, so the deadline is
the later one. `WindowCloses` and `DeadlinePasses` let both pass at any moment, in that
order. `DelayEnds` is the end of a delay or window nobody works under.

Abstracted or left out:

* `claim_sync_jobs` archives a message without a request row (CP/0003:648-660). The row
  and the message are created in one transaction and are purged together, so the branch
  is not reachable in the model and has no action.
* The generation guard of `enqueue_sync_job` is not in this module. A second call
  with the same key changes nothing and is a stutter.
* pgmq reads in message order with SKIP LOCKED; the model reads any visible message.
* The wrappers of CP/0058 and 0059 validate failure evidence and delegate. They refuse
  `database_lock_timeout`, which `syncFailure` gives (`worker.ts:66`). The lane then ends without
  resolving the job and the claim lapses: the model has this as `Crash` and `WindowCloses`, within
  `MaxDisturbances`. A job that meets a lock timeout on every attempt is not covered.
* A payload that does not parse: the claim commits and the lane throws
  (`service.ts:85`). `Malformed` says which jobs those are.

### BackfillLifecycle

One stream of one connection generation under a progressive plan: phases
`1 .. LastPhase`, each with pages `0 .. LastPage`. A job *is* its idempotency key
(phase, replay version, cursor in the payload); fan-out (`worker.ts:1048`), the page walk
(`worker.ts:1149`) and recovery (CP/0027:435) build the same key for the same job. The
queue is `LeasedWork`, so a lane can be superseded at any point; `lane[l].at` is the place
of `process()` between two calls. Only the calls that need the lease in the code need it
in the model: landing a page, acknowledging, retrying, deferring, failing. `beginRun` and
`commitPage` do not check it in the code, and do not here.

Recovery (`recover_sync_stream_phases`) publishes planned phases again and, for a phase whose
last request is dead, chooses the next replay version. The time conditions on it
(`available_at`, 30 seconds since the last change) are left to chance, as all time is.

Abstracted or left out:

* The replay version of the next phase is read in one transaction and used in the next;
  the model does both at once (see the comment at `Successor` for why nothing is lost).
* A failing mark in the fan-out ends the coordinator, which recovery covers.
* A final page without a cursor keeps the cursor the page began with; its phase is
  decided by then and no walk resumes from it.
* A broken pagination contract is a fatal error like others (`Break` with "fatal").
* Optional phases the vendor reports as unavailable, the single-pass and resume-verified
  plans, generation changes, empty-page skips, readiness progress and the transform jobs
  a commit enqueues.

### CredentialRefresh

One credential, shared by all replicas. A call of `withLease` is named by its lease id and
has two strands, because `raceWithSignal` (`connector-sdk/src/http.ts:72`) stops waiting for
an operation without stopping it: `call[c].at` is the coordinator (polling for the lease,
holding it, releasing it), `call[c].op` the operation (reread under the lease, request to
the vendor, look at the signal, publish). A call that has lost its lease may thus still
carry a token and try to publish it. `lease` is the row of
`oauth_credential_refresh_leases`, `stored` the active envelope. `newest` is the vendor's
side, known from how the connectors use it: a refresh token is good once, and each
exchange issues the next. `Publish` is `compareAndSwap` with a proof: the lease assertion,
the version check and the write are one transaction. `SelectRead` and `SelectStore` are
`select_account`, whose `compareAndSwap` needs no proof because the token does not
change; only a provisional credential meets it (`MaxSelections = 0` is a
connection's credential).

Time is left to chance: `Lapse` is a heartbeat that comes too late, so an extension is
the absence of a lapse, and `Expire` ends a lease nobody renews.

Left out: the map `refreshes` that shares one refresh within a process (it only removes
interleavings), creating and destroying a credential, the wrappers of the deletion worker
(CP/0008:476-620), and the rotation of the wrapping key.

### StreamCursor

One stream after its backfill. A cursor is a record of what the code encodes in it
(`connector-sdk/src/cursor.ts`): the watermark, the id after which a walk goes on, the
bound the walk started with, and the pass. `Pages(c)` is the set of answers a request from
cursor `c` may get: a page may be cut after any record, which stands for the page size. With
`Bounded` it is Deputy's `sync` (`connectors/deputy/index.ts:434`): records modified from
the watermark up to the bound, where the watermark moves when the walk ends. Otherwise it
is Lightspeed's `syncStreamPage`: the watermark rises on every page, and the archived
population (`Hidden`) is a second pass.

`cursorRow` is the row of `stream_cursors`. The scheduler copies its cursor into a payload, a
webhook's job reads it when claimed, a continuation carries its own; so jobs of different
ages walk the stream at once. `Newer` is the comparison of `commitPage`'s ON CONFLICT
within one generation. Landing and closing need the lease; committing and publishing do
not. A lane has at most one lease, and `LapseClaim` ends it, so that two lanes may hold the
same job. The vendor is the pair of `mod` (time of the last change) and `ver` (their
number), and `landed` the version of each record in the store, where a newer version is
never replaced by an older one.

Abstracted or left out:

* One clock serves the vendor and the workers, and a change is visible at the vendor from
  the instant it is dated with. Deputy's bound relies on both.
* Jobs that agree in cursor and request time are one job. The scheduler's interval and its
  key per interval are left to chance.
* A continuation's key is a digest of the whole cursor, which also holds timestamps the
  walk has seen (`observedWatermark`, `oldestObservedAt`); `PublishNext` therefore lets a cursor
  that was continued before be continued again or not.
* Generations, the coverage columns, streams without timestamps, tombstones of webhooks and
  Xero's page-number scan. The queue's attempts: `Fail` redelivers or dead-letters.

### ConversationTurns

The turns of one conversation. One action is one transaction, or one step of the POST
handler (`app/api/conversation/route.ts`) between two awaits. `turn` is the row of
`conversation_turns` (status, lease, visibility), `artifact` what `answer_artifacts` binds,
`recorded` the trace rows, `usage` the ledger of model usage, `trace` the emitter with its
queue of writes, `runner` the handler, `context` what the model was told of earlier
turns, `request` the finalization under way in the semantic service, `browser` the other end
of the stream. A request goes on after its caller has given it up, the trace queue
writes in its own time, a retry may follow a commit whose answer was lost, and the reaper, a
rewind or a disconnect may come between any two steps. `BeginTurn` reaps before it
refuses because another visible turn runs, as `begin_albert_turn` does. Leases and
timeouts may run out at any moment: `renew_albert_turn_lease` fails whenever it is called
(below), so a long turn loses its lease.

Left out: titles, the history endpoint, archived conversations, attachments, and what the
agent says; a run is a number of progress events and an answer, a clarification or a failure.

### DeletionLifecycle

The deletion of one connection, from the request to the proof, with the workers
(`services/deletion-worker`), the scheduler and watchdog in the database (CP/0006, 0020), a user who
may reconnect (CP/0034), and the sync jobs whose page is on its way (CP/0038). One action is one
transaction, or one call of a store or the vendor. `deletion` is the request, `jobs` the
messages, `attempt` the latest attempt row, `eraser[k]` a worker with its stage and the
evidence it carries, `writer[w]` and `permit[w]` a sync job and its write permit. `Leased` is
`require_active_deletion_lease`; every stage is guarded by it, and `Refused` is the
exception. The watchdog takes no lease. `Requeue` sends a new message whose reads begin at
zero, while the attempts keep their numbers; the claims that find their number taken get
no lease and are followed by later ones.

Left out or abstracted:

* The deletion of a whole tenant, with its approval, and generations of a connection.
* What the evidence says beyond what the code compares: `Evidence` has a value for each
  case `Preserves` and `NamesTargets` tell apart, and an outcome stays what it was first.
* The verification of the four stores is one step; nothing writes between its parts once
  the stores are fenced.
* An upload that the storage policy has admitted ends before its permit expires (twenty
  minutes, `ExpirePermit`). Without this `ProofIsTrue` would not hold.
* Numbers of messages nobody remembers are used again (`Unused`), and attempt numbers
  are capped at a requeue (`MaxNumber`), to keep the state finite.

### TransformQueue

Every landed page has one row in `canonical_transform_jobs`. The phases are extracted and
their jobs queued in the initial state, as a claim asks for (CP/0045:455); what is open is
when each is claimed. `Transformable` is the condition of `claim_canonical_transform_job`:
the job is due, or its lease has run out, and its stream's masters are queryable. A lane maps the
page (`MapPage`, one transaction), replays a bounded chunk of what depends on it
(`ReplayChunk`, another), and then asks for a continuation, completes, or fails. A failure is
reported with its code, and the queue refuses codes that it does not know (`Refused`: CP/0059:150
against the list of CP/0058:88-160). The lane swallows that exception as it does a lost lease
(`service.ts:132`), nobody extends the lease any more, and the row is claimed again when it has
run out, whatever its attempts. Among such codes are `database_statement_timeout`
(`processor.ts:28`), which `MeetTrouble` may bring once, and those of a page that fails
each time (`MeetStrangePage`): an incomplete or malformed staging batch, an immutable lineage.
The database runs at READ COMMITTED (`sync-workers/src/postgres.ts:83`), so a completion reads
in `DecideCompletion` and writes in `CommitCompletion`, and others may commit between the
two unless a row lock keeps them out (`Behind`). `coverage` is `progressive_stream_coverage`, and
`reconciliation` says that the request for one has been written.

`Layouts` describes what pages hold: which record on which page each refers to, how
many chunks its replay takes, which pages are strange, and how many troubles (a lapsed lease, a failing
database, a dead process, a page that cannot be mapped) may strike. A strange page is claimed
for ever, so `Counted` stops at `MaxCount`; no other page gets there, and nothing is said of a
strange page's attempts.

Left out: the quarantine of single records (`canonical-pipeline.ts:426-434`), so a page either
maps or misses a reference as a whole; in the code that is what a connector-owned lookup
does, while a row with any other missing reference is put aside and the rest of the page commits;
enqueueing; readiness rows, quality gates, snapshots, identity projection and
control projections of a completion; a superseded connection; the advisory lock that
serialises the transforms of a tenant, which only removes interleavings.

### ReconciliationSweep

A vendor that reports no deletions is asked twice for all identities of a stream, and what
neither scan lists gets a tombstone. The sweep's row (`sweep`, CP/0033) says which of the four
phases it is in; `scan`, `applied` and `reconciled` are what the analytical database has
recorded of it (analytical/0081), `copy` its source records. No transaction spans the two.
A job *is* its phase and the record its page comes after; `errand` is its ledger row with
reads and holder, `batch` the immutable raw batch that its first extraction registers.
`sweeper[l].at` is the place of `process()` between two calls: begin, extract, land, record,
conclude (publish the next phase, or compare the totals), commit, continue, finish.
`Fenced` is the lease condition, and `FindLeaseLost` the exception when it fails; publishing
asks for no lease in the code and not here. `clock` orders the vendor's editions and the
times at which jobs are published, which become the tombstones' versions. `Poll` is an incremental
job that lands beside the sweep, and `missing` remembers what the vendor did not list when
a page was read.

Abstracted or left out:

* Pages follow the order of ids, and the vendor answers each from what it lists at that moment. That
  is a keyset walk; a vendor that pages by number may skip a record when another
  is deleted, and then `missing` would not hold what a page has skipped.
* The other deletion strategies (soft delete, a verified feed, append-only streams), totals
  the provider reports, identities that are invalid, quarantined or listed twice, each of
  which fails a scan.
* The coordinator's job; the first job of the stream is queued in the initial state. Runs, permits
  and the connection's generation and status, which the other modules have.
* The candidates' bound on `source_updated_at`, which a row that was ingested before the first
  scan exceeds only if the vendor's clock is ahead.

## Runs

| Run | Asks | Instance |
|---|---|---|
| `queue_safety` | exclusive leases, nothing lost, ledger and dead letters consistent, history final, every job resolved, and the refinement of `LeasedWork` | a malformed job of the first queue and a good one of the last; 2 lanes with one worker id; 2 attempts, 4 reads, 2 disturbances |
| `queue_deferral` | expected violation, see Findings | 2 jobs, one malformed; 2 lanes; 2 attempts, 3 reads, 2 disturbances |
| `backfill_chain` | recorded coverage, successor before success, no page skipped, phases in order | 2 phases of 2 pages, 2 lanes, 1 page per claim, so that continuations occur; 2 attempts, 1 fault; recovery publishes what is planned or unmarked, no second replay |
| `backfill_liveness` | progress final under late marks; completion over a chain of phases | 2 phases of 1 page, 2 lanes, 2 attempts, 3 replays of each phase, 1 fault |
| `backfill_active_run` | expected violation, see Findings | 1 lane, 1 phase, 1 page |
| `credential_selection` | expected violation, see Findings | 3 calls, no fault, 1 selection |
| `records_safety` | cursor: nothing skipped, watermark never back, while a lease lapses or a step fails. Sweep: phases not ahead of their scans, nothing left behind, tombstones proven | Deputy; 2 records, 1 of them there at first, 2 lanes, 3 instants, 2 changes, 1 job from outside, 1 disturbance. Sweep: 2 records, pages of 1, 2 lanes, 2 attempts; 1 listed and 1 upset, or 1 or 2 listed and 1 change |
| `cursor_passes` | expected violation, see Findings | Lightspeed, the older record archived and the newer one active; 1 lane, 2 changes, no fault |
| `conversation_turns` | answers bound once and with their event, contexts visible, shown answers bound or failed, turns final, every turn ends, every reader is told | 2 turns without faults or 1 turn with a progress event and 2 faults; 1 retry of a finalization |
| `services` | deletion: the proof is true, a live connection whole, evidence kept, the credential destroyed, the request pursued. Credential: the holder undisturbed, the token neither lost nor replayed, the lease not taken, every call ends. Sweep: it ends, is blocked or leaves a dead letter | 2 deletion workers, 1 sync job, 2 attempts, 2 messages; 1 mishap, or 1 page and 1 loss, or an outage without an end; 3 calls, 1 fault, 1 selection; the sweep of `records_safety` with 1 lane and 1 listed |
| `deletion_outcome` | expected violation, see Findings | the deletion of `services` with no mishap |
| `pipeline` | every change lands; coverage exact, budget spent on failures, every transform ends unless the queue refuses its failure | Deputy, 2 records, 1 lane, 2 changes, 1 disturbance; 4 pages of two streams, one the other's master, 2 lanes, 2 attempts, counted up to 4, four layouts |

**Bounds.** Two lanes suffice for a takeover: one that believes, one that owns. Two jobs let
a lane leave one and take the other. `MaxReads` exceeds `MaxAttempts` so that exhausted and
redelivered jobs occur; `MaxDisturbances` and `MaxFaults` bound crashes, lapses, deferrals
and vendor errors *together*. A late mark costs a replay version without a fault, so the
liveness runs have `MaxReplay = MaxFaults + 2`: with fewer, recovery would run out of replay
numbers, which the code never does. Symmetry over lanes is used in safety runs only.
Deadlock is not checked in the backfill runs because the bounded system stops when the
backfill is complete; the queue's lanes poll for ever and its runs check deadlock. Three
calls are a holder, one that has lost the lease and one that waits. A call is made once, so the
credential part ends, and its deadlock is not checked. A backfill of several phases *and* pages
is checked for safety only: there recovery can use up any small number of replays while
marks are late, which is an artefact of `MaxReplay`. With pages to continue even two replays are more
than a run can finish, so what happens between replays (a mark that comes after recovery has
recorded the next one) is checked in `backfill_liveness`, and walkers of two replays are the
theorem `OrderIsKept`. Two records are one before and one after the cut of
a page, and three instants are one before, one at and one after the bound of a walk. A lane
whose lease lapses goes on beside the lane that gets its job and those that come after, so
an old walk commits after new ones; `MaxJobs` bounds what is published from outside, not the
continuations. The clock ends, so deadlock is not checked in the cursor runs.

Two turns are one that runs and one that begins, is refused, or was given the first one's
answer as context; `allowance` puts faults and progress events where a single turn meets them,
as the product of both would not finish. Two faults are a lost write and a lost answer,
or a crash and a failing call. Two deletion workers are one that has lost its lease and one that has
the next; two attempts make the first message end and a second begin; `Spares` takes the
mishaps of the workers, of the sync job and of the world apart. The four pages of
`pipeline` are the recent phase of a master with two pages, that of its dependant, and the
last page of a full history; the four layouts are a long replay with two troubles, a page that
needs a record of its sibling, two pages that need a record nobody has, and a strange page with
a sibling that refers to it and one trouble. Two attempts stand for the twelve of the code; with two
troubles at most, a page that is not strange is never claimed more than four times. Two records with pages of one are what it takes for a scan to
have two pages, with a change between them; a sweep's two attempts stand for the eight of
the code. Type invariants of `ConversationTurns`, `StreamCursor`, `DeletionLifecycle` and
`ReconciliationSweep` are proved and no run repeats them. A conversation that is over, a deletion that has been proved and
a drained queue stand still, so deadlock is not checked there; what must happen is stated
as liveness.

**Fairness.** Queue: weak fairness of polling, of resolving a claim, of losing a lost one,
and of the end of delays. The service loop runs until shutdown (`service.ts`), each
operation is aborted at a deadline, and timeouts are finite. Backfill: weak fairness of
claiming, of each lane's progress and of recovery per phase, which a scheduler calls
periodically. Credential: weak fairness of each strand of each call and of expiry; every
wait in the code has a deadline and the database's clock passes every expiry. Cursor: weak
fairness of the clock and of each lane, strong fairness of the scheduler, which runs every
five minutes whatever is queued: that other open jobs disable it is due to the bound
`MaxJobs`. Changes stop before the clock does, for a record that is changed for ever is
never caught up with. Conversation: weak fairness of a
handler's steps once its turn has begun, of the trace queue, of the semantic service, of time
and of the reaper, which cron runs; nobody has to open a turn, rewind or disconnect.
Deletion: weak fairness of each worker, of timeouts and permits, of the scheduler and the
watchdog (cron), and of a page once it has begun; nobody has to reconnect. Transforms: weak
fairness of lanes, delays and leases, strong fairness of the claim of each job: claims
are served in the order of `available_at`, and a job that is put back comes due later than
one that waits. A row that is left running keeps its old `available_at`, but comes again only when its
lease of 900 seconds has ended; that the lanes get to the other jobs in between is an
assumption about their number. Sweep: weak fairness of each lane's steps, of the delays of
retries, of the visibility windows nobody extends, and of a lane that rests claiming what there is to read.
Nothing is assumed about faults except that they are finite, save for the
outage in `services` that may last for ever.

## Proofs

Checked by TLAPS for every value of the constants, from the named assumptions
`QueueAssumption`, `BackfillAssumption`, `RefreshAssumption`, `CursorAssumption`,
`TurnAssumption`, `DeletionAssumption`, `TransformAssumption` and `SweepAssumption` (finite budgets are natural
numbers, "no lane" and "no call" are none; the numbers of jobs, lanes, phases, pages, turns,
workers, streams and faults are arbitrary).

`SyncQueueProofs`: `QueueInv` is inductive. Lease exclusivity does not hold by itself in an
inductive argument. It rests on `ClaimsAreAttempts`: attempts are numbered without a gap
and no two lanes hold the same (job, read), so the newest attempt belongs to one lane.
`NoLostJob` and `LedgerExplains` need each other: a terminal row must not be claimed
again, which follows from its message being archived. From the invariant follow
`QueueTypes`, `LeaseIsExclusive`, `NoJobIsLost`, `AttemptsAreClaims`, `LedgerIsExplained`,
`DeadLettersAreJustified`, the action property `HistoryNeverChanges`, and `QueueKeepsPromise`: every step maps to a
step of `LeasedWork` or a stutter, the abstract holder being the lane whose lease is active.

`BackfillProofs`: `BackfillInv` is inductive. Since neither begin nor commit is fenced,
nothing about the current holder helps. The argument is that three facts only grow
(a published job stays published, a landed page stays landed, a succeeded phase stays
succeeded) and that every lane, run and phase row speaks only of such facts: `LanesOnTrack`
and `RunsOnTrack` say which. The lemmas `PhaseMove`, `PublishMove`, `RunMove` and
`LaneMove` each state what a step of one kind must show, and every action is one of these
kinds. Theorems: `BackfillTypes`, `CoverageIsProved`, `OrderIsKept`, `NoPageIsSkipped`,
`SuccessorComesFirst`, `RequestIsKnown`, `ProgressStays`.

`CredentialProofs`: `RefreshInv` is inductive, for any number of calls and faults. That
the holder meets no conflict follows from the fence: a grant raises it above every
proof handed out, so only the newest call can publish and it has read the version under its
own lease. The second half, `Calm`, says what holds while no fault has occurred: a running
operation holds the lease, and the newest token is stored or carried by it. Theorems:
`RefreshTypes`, `HolderIsUndisturbed`, `TokenIsKept`, `NothingIsReplayed` and the action
property `LeaseIsNotTaken`.

`CursorProofs`: `CursorInv` is inductive under the further assumption `Bounded`, Deputy's
watermark, for any number of records, lanes, jobs, changes and faults. `NothingSkipped`
speaks of the stored cursor alone, but any cursor that is in a payload, in a lane or on its way to
the row may be stored next, by a lane with or without its lease. So the invariant
says of all of them that they are `Safe`: a walk from there, or the one after it, asks for
whatever has not landed; and of a page in flight that its cursor will be safe once it has
landed. Cursors stay safe (`SafetyLasts`) because a change is dated no earlier than any
cursor that exists when it is made, and `PageIsSafe` shows that a fetch leads from a safe cursor to
a safe one. `Newer` is not needed for this, only for `WatermarkStays`. Theorems:
`CursorTypes`, `NoChangeIsSkipped`, `WatermarkStays`, `DeputyIsAtLeastOnce`.

`ConversationProofs`: `TurnInv` is inductive, for any number of turns, retries and faults.
Five actors write a turn's row, none asks who owns it, and each asks only for its status. The
parts say what each place of the runner has seen to (`Standing`), what the
emitter has numbered and written when an answer is on its way (`Answering`), and that a
running turn's context names visible, completed turns only, which a rewind keeps because it hides
every later turn with the one it names. Theorems: `TurnInvariant`, `TurnTypes`, `AnswersAreBacked`,
`ContextsAreVisible`, `ShownAnswersAreBound` and the action property `TurnsAreFinal`.

`DeletionProofs`: `DeletionInv` is inductive, for any number of workers, sync jobs,
messages and mishaps. That the proof is true does not rest on the lease, which can be lost in any
stage, but on the order of the stages: a request that has been claimed fences the connection
for good, so from a check of quiescence on no sync job is inside its fence and the stores
only empty, whoever empties them. A worker at a later stage speaks of facts that stay. Theorems:
`DeletionInvariant`, `DeletionTypes`, `ProofsAreTrue`, `LiveConnectionsAreWhole` and the action
property `EvidenceStays`.

`TransformProofs`: `TransformInv` is inductive, for any streams, masters, pages, layouts and
lanes. What a completion has read must still hold when it commits. It does because
completions of one recent phase wait for each other, no other lane claims a row that is being
completed, and a page done or a stream ready stays so (`TransformsAreFinal`). For
the budget, a claim that no trouble has paid for belongs to a lane that is at work on it, unless the page
is strange or waits for a record.
Theorems: `TransformInvariant`, `TransformTypes`, `CoverageExact`, `BudgetSpentOnFailures` and the
action property `TransformsAreFinal`.

`SweepProofs`: two inductive invariants, for any number of records, lanes, changes and faults and
any size of a page. `SweepIInv` is about what the scans have read: pages are contiguous
(`ScansAreContiguous`), so a complete scan has seen every record or has read a page while the
vendor did not list it; and a tombstone carries the time its job was published, which is later than every
old version (`TombstonesAreLater`), so a row that is still current when it lands is still the candidate it
was. `EvidenceInv` adds what ties the row of the sweep to the other database. No lease helps, since a lane
whose lease is lost goes on until its next call. What does is that a batch is made once: every attempt at
a page agrees whether another one follows (`PagesAreFull`), and every page but the last is recorded, full,
and followed by the next (`PagesAreChained`). A complete scan has therefore recorded all the pages there
are (`CompleteIsKnown`), so that no late attempt judges it again, candidates only become fewer
(`CandidatesShrink`), and the tombstone pages meet them in the order of their ids
(`CandidatesAreBeyond`). The two facts about pages, that a first page is below the rest and that it is full
unless it is the last, are the lemmas `FirstPageIsFirst` and `PageLength`. TLC checked both invariants on
2 records in pages of 1 and on 3 in pages of 2 before they were proved. Theorems:
`SweepTypeCorrect`, `SweepsAreReal` and the action property `TombstonesAreAlwaysProven`.

Only model-checked: the liveness properties `EveryJobResolves`, `BackfillCompletes`,
`EveryCallEnds`, `EveryChangeLands`, `EveryTurnEnds`, `EveryReaderIsTold`,
`CredentialIsDestroyed`, `DeletionIsPursued`, `EveryTransformEnds` and `SweepIsPursued` (liveness under fairness
is beyond the prover), and the five violations. `ClaimsAreAttempts` and
`OpenPhaseHasRequest` are conjuncts of inductive invariants that the proofs establish and
no run repeats. That `BackfillLifecycle`, built on `LeasedWork`, also holds of the
composition with the detailed `SyncQueue` follows from `QueueKeepsPromise` for safety; the
composed state space is not explored.

## Findings

1. **Deferrals consume the failure budget.** Four places in the repository say they do not
   (`worker.ts:358`, `contracts.ts:187`, ADR-0002:46, CP/0008:685), but the budget is pgmq's
   read count (CP/0003:858), which a deferral's redelivery raises. `queue_deferral` shows a
   job dead-lettered at its first retryable failure.
2. **A dead request can leave its run running.** If the process dies between the final page
   commit of a phase and the closing of its run, `beginRun` refuses every later attempt (the
   phase has succeeded), the rollback takes the new attempt number with it, and
   `markRunFailed` finds no row. ADR-0062:54 says this cannot happen. `backfill_active_run`
   shows the trace. No data is lost: `CoverageIsReal` and `BackfillCompletes` hold all the
   same.
3. **An account selection can cost a refresh its token.** `select_account`
   (`connectors/xero/index.ts:416`, also `connectors/lightspeed-r/index.ts:288`) writes the
   credential without the lease. Between the vendor's answer and the publication of a
   refresh of the same provisional credential it raises the version; the refresh, which
   holds the lease, is refused and drops the only valid token. ADR-0003:66 says rotation
   remains correct under worker concurrency. `credential_selection` shows it without a
   fault.
4. **Lightspeed's incremental sync is not at-least-once.** The watermark in its cursor rises
   to the latest record seen on every page (`spec-sync.ts:351`), and the first request of
   the next pass, over the archived population, filters by it. An archived record changed
   before the latest active one is not asked for by this walk nor by any later one.
   `cursor.ts:9` says the watermark "must not advance during a paged window",
   `docs/albert-v1-spec.md:295` that incremental sync is at-least-once. `cursor_passes`
   shows it with one lane and no fault; the nightly reconciliation with its lookback is what
   remains. With Deputy's watermark the same property is a theorem.

5. **A deletion can prove an empty result instead of the vendor's answer.** The connector's
   `revoke_credentials` destroys the credential on its way out (`finally vault.destroy`,
   `connectors/xero/index.ts:588`, `connectors/lightspeed-r/index.ts:390`). The worker then presents
   the outcome to `destroy_claimed_deletion_credentials`, which compares it with the token rows
   that are still there (CP/0054:774): there are none, the outcome is refused, and the next attempt,
   which finds no credential, records an empty result. ADR-0004:107-109 says a retry cannot
   replace a provider's outcome with an empty result. `deletion_outcome` shows it with one
   worker and no mishap.

## What the code does not keep

Six more statements of the repository are written down beside the properties and are not
kept by the code. They were model-checked and refuted, but have no run of their own:

* `DeletionEnds` (`DeletionLifecycle`). A worker that dies, or loses its lease, after the
  request is set to verifying leaves it there: the next claim takes queued, waiting and running
  requests only and removes the message (CP/0006:430-433), and the scheduler looks at queued
  and failed requests only (CP/0006:393-411). ADR-0004 says that a process failure resumes without another
  user action. `DeletionIsPursued` is what does hold.
* `LiveTurnIsNotReaped` (`ConversationTurns`). `renew_albert_turn_lease` (CP/0084:29-35) sets a
  column `updated_at` that `conversation_turns` (CP/0002:404-425) does not have, so it always
  fails; `artifact-store.ts:109` and `route.ts:374-376` swallow the error. A turn longer than its lease
  is reaped under its live owner, against `route.ts:371-373`. `TurnIsFinal` says what is
  then still true.
* `ReconciliationIsScheduled` (`TransformQueue`). ADR-0027 and the comment at CP/0045:715 have
  the completion that makes the last required stream queryable or superseded schedule one
  reconciliation. The completion of the last page of a full history returns (CP/0045:583) before it
  comes to that; and when the last pages of two streams complete at once, neither sees the other's
  uncommitted coverage, so neither schedules it.
* `AttemptsAreBounded` (`TransformQueue`). ADR-0063:20 speaks of the ordinary twelve-attempt failure budget,
  and `processor.ts:124` asks for it. But `retry_or_fail_canonical_transform_job` (CP/0059:162-173) raises for any code
  that is not on the list of CP/0058, and `processor.ts` reports what its pattern trusts, for one
  `canonical_staging_batch_incomplete` (`canonical-pipeline.ts:421`) or `canonical_lineage_immutable`
  (`processor.ts:45`). The row stays running, is claimed again after each lease and never fails: the
  readiness of its domains is not blocked and no error is recorded.
  `EveryTransformEnds` says that the other pages end all the same.
* `SweepIsCarried` (`ReconciliationSweep`). `worker.ts:877-879` says that publishing the successor
  before the acknowledgement leaves no window without a durable continuation. It is also published
  before the phase is committed (`worker.ts:807`, `worker.ts:835`), so the successor's job may run first, be refused at
  `begin_reconciliation_phase`, and use up its attempts before the commit; no job is left that could go on.
  A lasting failure of a job that has not begun its phase leaves the sweep in the same place: only the attempt a
  phase is leased to can block it. `SweepIsPursued` is what does hold: a dead letter is there to be seen.
* `TombstonesAreOnRecord` (`ReconciliationSweep`). ADR-0021 wants no landing without durable evidence for its
  replay. The tombstones of a page and the record of their application are two transactions
  (`worker.ts:702-707`, `worker.ts:740-745`); after a crash between them the retried page finds its candidates gone,
  extracts other content than its batch holds, and is refused until the phase is blocked. The tombstones
  stay, without an application. `TombstonesAreProven` is what still holds of them.

## Not modelled

* *The barrier between the streams of a connection* in a backfill (`worker.ts:369`): deep phases
  wait for every open recent phase, and `BackfillLifecycle` follows one stream. The
  barrier of the transforms is modelled.
* *Xero's page-number scan* (`connectors/xero/index.ts:867`), accepted after two equal passes, and
  the *Xero webhook inbox* with the gaps in its sequence.
* *Vendor rate budget*. One function over timestamps of a real clock: arithmetic, with no steps
  beyond its row lock.
* *Token key rotation*, *OAuth sessions*, *promotion relay*, *Deputy webhook receipts*. Each a short
  protocol of its own with one or two writers; left out for size.
* *Tenant deletion*, generations of a connection, optional streams that become unavailable,
  the single-pass and resume-verified backfill plans.
* *Quality gates, readiness rows, snapshots and identity projection* of a transform's completion.
* *Canonical pipeline, connectors, semantic registry, compiler, query service*. Set-based
  SQL, field mappings and translation of questions: large pure functions over business data, whose
  questions are about values and not about steps, and whose inputs cannot be enumerated in
  any instance that would be worth checking. They are most of the repository's lines.
* *Agent runtime* (a language model's choices are arbitrary), *web application* (request handlers
  and user interface over the functions above), *operator diagnostics, attestors, deployment,
  scripts, evaluations* (tooling around the program).
