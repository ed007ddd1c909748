--------------------------- MODULE DeletionLifecycle ----------------------------
(***************************************************************************)
(* The deletion of one connection: its deletion request and the queue, the *)
(* deletion workers (services/deletion-worker), the watchdog and the       *)
(* scheduler in the database, a user who disconnects and may reconnect,    *)
(* and the sync workers, whose writes to the raw and the analytical store  *)
(* the request fences through write permits.                               *)
(*                                                                         *)
(* One action is one database transaction, or one request to a store or to *)
(* the vendor.  Between two of them other workers act, the lease of the    *)
(* message may run out, and a worker may die.  Time is not counted: a      *)
(* permit, a visibility timeout and the fifteen minutes of the watchdog    *)
(* end at any moment.                                                      *)
(***************************************************************************)
EXTENDS Naturals

CONSTANTS
  Eraser,        \* deletion worker processes
  Writer,        \* sync jobs of the connection, each with its permit
  Nobody,
  MaxAttempts,   \* attempts of one message, 20 in the code
  MaxNumber,     \* bound: attempt numbers remembered at a requeue
  MaxMessages,   \* bound: messages at a time, those left behind included
  Spares         \* bounds to explore: permits granted, mishaps of the deletion
                 \* workers, mishaps of the sync jobs; and does an outage last?

Spare == [writes : Nat, mishaps : Nat, losses : Nat, outage : BOOLEAN]

ASSUME DeletionAssumption ==
  /\ Nobody \notin Eraser
  /\ MaxAttempts \in Nat \ {0}
  /\ MaxNumber \in Nat
  /\ MaxMessages \in Nat
  /\ Spares \subseteq Spare

Message == 1 .. MaxMessages
Store == {"raw", "analytical", "control"}

\* What progress.remote_revocation says: destroyed by the watchdog, the worker's
\* longer form of that, an outcome for the credential, or no credential found.
Evidence == {"none", "forced", "grace", "outcome", "empty"}

VARIABLES
  connected,  \* the connection is live and not fenced by a request
  credential, \* its token reference is in the vault
  informed,   \* the vendor has been asked to revoke it
  stores,     \* the stores that hold data of the connection
  deletion,   \* the row of deletion_requests
  jobs,       \* jobs[m]: the message in the deletion queue
  attempt,    \* the latest row of deletion_job_attempts
  eraser,     \* eraser[k]: where the worker is, its claim and its evidence
  writer,     \* writer[w]: where the sync job is in its page
  permit,     \* permit[w]: its row of sync_write_permits
  spare       \* what may still happen of what is bounded

deletionVars == <<connected, credential, informed, stores, deletion, jobs, attempt,
                  eraser, writer, permit, spare>>

Resting == [pc |-> "idle", message |-> 0, reads |-> 0, evidence |-> "none"]

EraserPc == {"idle", "context", "tell", "destroy", "record", "quiesce", "raw",
             "analytical", "control", "mark", "verify", "complete", "failed"}
WriterPc == {"idle", "permitted", "sending", "uploaded", "landing", "unlocked", "release"}

DeletionTypeOK ==
  /\ connected \in BOOLEAN /\ credential \in BOOLEAN /\ informed \in BOOLEAN
  /\ stores \subseteq Store
  /\ deletion \in [status : {"none", "queued", "running", "retry_wait", "verifying",
                             "failed", "completed", "cancelled"},
                   message : Message \cup {0}, started : BOOLEAN, destroyed : BOOLEAN,
                   evidence : Evidence]
  /\ jobs \in [Message -> [at : {"absent", "visible", "hidden"}, reads : Nat]]
  /\ attempt \in [number : Nat, by : Eraser \cup {Nobody}, done : BOOLEAN]
  /\ eraser \in [Eraser -> [pc : EraserPc, message : Message \cup {0}, reads : Nat,
                            evidence : Evidence]]
  /\ writer \in [Writer -> WriterPc]
  /\ permit \in [Writer -> {"none", "open", "expired"}]
  /\ spare \in Spare

NoDeletion == [status |-> "none", message |-> 0, started |-> FALSE, destroyed |-> FALSE,
               evidence |-> "none"]
NoMessage == [at |-> "absent", reads |-> 0]
NoAttempt == [number |-> 0, by |-> Nobody, done |-> FALSE]

DeletionInit ==
  /\ connected = TRUE /\ credential = TRUE /\ informed = FALSE
  /\ stores = Store
  /\ deletion = NoDeletion
  /\ jobs = [m \in Message |-> NoMessage]
  /\ attempt = NoAttempt
  /\ eraser = [k \in Eraser |-> Resting]
  /\ writer = [w \in Writer |-> "idle"]
  /\ permit = [w \in Writer |-> "none"]
  /\ spare \in Spares

connectionVars == <<connected, informed>>
writerVars == <<writer, permit>>

Mishap == spare.mishaps > 0 /\ spare' = [spare EXCEPT !.mishaps = @ - 1]
Loss == spare.losses > 0 /\ spare' = [spare EXCEPT !.losses = @ - 1]

\* A request in one of these states fences the connection.
Fencing == deletion.status \in {"queued", "running", "retry_wait", "verifying", "failed"}

-------------------------------------------------------------------------------
(* Requesting a deletion.                                                  *)

\* Messages nobody remembers; which of their numbers is next does not matter.
Unused == {m \in Message : jobs[m].at = "absent" /\ \A k \in Eraser : eraser[k].message # m}

\* enqueue_deletion_request
Send(row) ==
  \E m \in Unused :
    /\ \A n \in Unused : m <= n
    /\ jobs' = [jobs EXCEPT ![m] = [at |-> "visible", reads |-> 0]]
    /\ deletion' = [row EXCEPT !.status = "queued", !.message = m]

\* albert_disconnect_connection locks the connection's row, so it waits for a
\* sync write that holds it.
RequestDeletion ==
  /\ connected
  /\ \A w \in Writer : writer[w] # "landing"
  /\ connected' = FALSE
  /\ Send(NoDeletion)
  /\ attempt' = NoAttempt
  /\ UNCHANGED <<credential, informed, stores, eraser, writerVars, spare>>

\* Mutant of Due: a failed request is given up.
DueUntilFailed == deletion.status = "queued"

\* enqueue_due_deletion_requests looks at these requests.
Due == deletion.status \in {"queued", "failed"}

\* The scheduler, or a repeated disconnect, sends a failed request's message.  The
\* new message's reads start at 0 while the attempts keep their numbers, here up
\* to a bound.
Requeue ==
  /\ Due /\ deletion.message = 0
  /\ Send(deletion)
  /\ attempt' = [attempt EXCEPT !.number = IF @ > MaxNumber THEN MaxNumber ELSE @]
  /\ UNCHANGED <<connectionVars, credential, stores, eraser, writerVars, spare>>

\* A reconnect supersedes a request no worker has touched, while the credential
\* is still there; the message stays behind.
Reconnect ==
  /\ ~connected
  /\ deletion.status \in {"queued", "retry_wait", "failed"}
  /\ ~deletion.started /\ ~deletion.destroyed /\ deletion.evidence = "none"
  /\ attempt.number = 0
  /\ credential
  /\ deletion' = [deletion EXCEPT !.status = "cancelled"]
  /\ connected' = TRUE
  /\ UNCHANGED <<credential, informed, stores, jobs, attempt, eraser, writerVars, spare>>

\* Mutant of Overdue: a request that waits for its next attempt is passed over.
OverdueUnlessRetried == deletion.status \in {"queued", "running"} /\ ~deletion.destroyed

\* Requests the watchdog looks at, fifteen minutes on.
Overdue ==
  deletion.status \in {"queued", "running", "retry_wait", "failed"} /\ ~deletion.destroyed

\* force_overdue_deletion_credential_destruction
ForceDestruction ==
  /\ Overdue
  /\ credential' = FALSE
  /\ deletion' = [deletion EXCEPT !.destroyed = TRUE, !.evidence = "forced"]
  /\ UNCHANGED <<connectionVars, stores, jobs, attempt, eraser, writerVars, spare>>

-------------------------------------------------------------------------------
(* The lease of a deletion worker.                                         *)

\* require_active_deletion_lease
Leased(k) ==
  /\ deletion.status \in {"running", "verifying"}
  /\ deletion.message = eraser[k].message
  /\ jobs[eraser[k].message].at = "hidden"
  /\ attempt.number = eraser[k].reads /\ attempt.by = k /\ ~attempt.done

EraserAt(k, pc) == eraser[k].pc = pc
Advance(k, pc) == eraser' = [eraser EXCEPT ![k].pc = pc]

\* A call at stage pc that the lease or its own condition refuses throws.
Refused(k, pc, condition) ==
  /\ EraserAt(k, pc) /\ ~(Leased(k) /\ condition)
  /\ Advance(k, "failed")
  /\ UNCHANGED <<connectionVars, credential, stores, deletion, jobs, attempt, writerVars,
                 spare>>

\* Mutant of Claimable: the message alone decides.
ClaimableAnyway(m) == deletion.message = m

\* claim_deletion_jobs.  An attempt number the request has had before gets no
\* row of its own, and the claim no lease.
Claimable(m) ==
  deletion.message = m /\ deletion.status \in {"queued", "retry_wait", "running"}

ClaimDeletion(k, m) ==
  LET reads == jobs[m].reads + 1 IN
  /\ EraserAt(k, "idle") /\ jobs[m].at = "visible"
  /\ IF Claimable(m)
     THEN /\ jobs' = [jobs EXCEPT ![m] = [at |-> "hidden", reads |-> reads]]
          /\ deletion' = [deletion EXCEPT !.status = "running", !.started = TRUE]
          /\ attempt' = IF reads > attempt.number
                        THEN [number |-> reads, by |-> k, done |-> FALSE] ELSE attempt
          /\ eraser' = [eraser EXCEPT ![k] = [Resting EXCEPT !.pc = "context",
                                              !.message = m, !.reads = reads]]
     ELSE /\ jobs' = [jobs EXCEPT ![m] = NoMessage]
          /\ UNCHANGED <<deletion, attempt, eraser>>
  /\ UNCHANGED <<connectionVars, credential, stores, writerVars, spare>>

\* The visibility timeout passes.  Each stage extends it, so that it passes
\* under a worker at work only by mishap.
Reappear(m) ==
  /\ jobs[m].at = "hidden"
  /\ jobs' = [jobs EXCEPT ![m].at = "visible"]
  /\ IF \E k \in Eraser : eraser[k].message = m /\ Leased(k) THEN Mishap ELSE UNCHANGED spare
  /\ UNCHANGED <<connectionVars, credential, stores, deletion, attempt, eraser, writerVars>>

-------------------------------------------------------------------------------
(* DeletionProcessor.process, stage by stage.                              *)

\* ProductionCredentialRevoker.revoke reads the targets and what was recorded.
ReadContext(k) ==
  /\ EraserAt(k, "context") /\ Leased(k)
  /\ eraser' = [eraser EXCEPT ![k] =
       IF credential THEN [@ EXCEPT !.pc = "tell"]
       ELSE [@ EXCEPT !.pc = "destroy",
                      !.evidence = CASE deletion.evidence = "none" -> "empty"
                                     [] deletion.evidence = "forced" -> "grace"
                                     [] OTHER -> deletion.evidence]]
  /\ UNCHANGED <<connectionVars, credential, stores, deletion, jobs, attempt, writerVars,
                 spare>>

\* revoke_credentials of the connector: the vendor is asked, and whatever it
\* says the credential is destroyed on the way out.  A credential that cannot
\* be read or destroyed makes the outcome a failure, like any other.
TellVendor(k) ==
  /\ EraserAt(k, "tell")
  /\ informed' \in {informed, TRUE}
  /\ \/ credential' = (credential /\ ~Leased(k)) /\ UNCHANGED spare
     \/ UNCHANGED credential /\ Mishap
  /\ eraser' = [eraser EXCEPT ![k] = [@ EXCEPT !.pc = "destroy", !.evidence = "outcome"]]
  /\ UNCHANGED <<connected, stores, deletion, jobs, attempt, writerVars>>

\* Mutant of Preserves: the later evidence replaces the earlier.
PreservesAny(evidence) == TRUE

\* What destroy_claimed_deletion_credentials and record_deletion_progress ask of
\* evidence given after the credential was destroyed.
Preserves(evidence) ==
  IF deletion.evidence = "forced" THEN evidence = "grace" ELSE evidence = deletion.evidence

\* Before that, it must name the credentials the vault still holds.
NamesTargets(evidence) == (evidence = "outcome") <=> credential

EvidenceAccepted(evidence) ==
  IF deletion.destroyed THEN Preserves(evidence) ELSE NamesTargets(evidence)

DestroyClaimed(k) ==
  /\ EraserAt(k, "destroy") /\ Leased(k) /\ EvidenceAccepted(eraser[k].evidence)
  /\ IF deletion.destroyed THEN UNCHANGED <<credential, deletion>>
     ELSE /\ credential' = FALSE
          /\ deletion' = [deletion EXCEPT !.destroyed = TRUE,
                                          !.evidence = eraser[k].evidence]
  /\ Advance(k, "record")
  /\ UNCHANGED <<connectionVars, stores, jobs, attempt, writerVars, spare>>

\* The vault is verified empty, and the evidence recorded as progress.
RecordEvidence(k) ==
  /\ EraserAt(k, "record") /\ Leased(k) /\ ~credential /\ Preserves(eraser[k].evidence)
  /\ deletion' = [deletion EXCEPT !.evidence = eraser[k].evidence]
  /\ Advance(k, "quiesce")
  /\ UNCHANGED <<connectionVars, credential, stores, jobs, attempt, writerVars, spare>>

\* Mutant of Quiescent: open permits are not waited for.
QuiescentAssumed == TRUE

\* assert_deletion_quiescent removes expired permits and waits for the others.
Quiescent == \A w \in Writer : permit[w] # "open"

AssertQuiescent(k) ==
  /\ EraserAt(k, "quiesce") /\ Leased(k) /\ Quiescent
  /\ permit' = [w \in Writer |-> "none"]
  /\ Advance(k, "raw")
  /\ UNCHANGED <<connectionVars, credential, stores, deletion, jobs, attempt, writer, spare>>

\* A stage that empties one store.
Purge(k, store, next) ==
  /\ EraserAt(k, store) /\ Leased(k)
  /\ stores' = stores \ {store}
  /\ Advance(k, next)
  /\ UNCHANGED <<connectionVars, credential, deletion, jobs, attempt, writer, spare>>

PurgeRaw(k) == Purge(k, "raw", "analytical") /\ UNCHANGED permit

\* The analytical capability is issued to a running request only.
PurgeAnalytical(k) ==
  deletion.status = "running" /\ Purge(k, "analytical", "control") /\ UNCHANGED permit

\* The permits go with the other rows that name the connection.
PurgeControl(k) ==
  deletion.destroyed /\ Purge(k, "control", "mark") /\ permit' = [w \in Writer |-> "none"]

MarkVerifying(k) ==
  /\ EraserAt(k, "mark") /\ Leased(k)
  /\ deletion' = [deletion EXCEPT !.status = "verifying"]
  /\ Advance(k, "verify")
  /\ UNCHANGED <<connectionVars, credential, stores, jobs, attempt, writerVars, spare>>

Verified == stores = {} /\ ~credential

VerifyStores(k) ==
  /\ EraserAt(k, "verify") /\ Leased(k) /\ Verified
  /\ Advance(k, "complete")
  /\ UNCHANGED <<connectionVars, credential, stores, deletion, jobs, attempt, writerVars,
                 spare>>

\* complete_deletion_job: the proof, whose evidence must be the recorded one.
Provable(k) ==
  /\ deletion.status = "verifying" /\ deletion.destroyed
  /\ deletion.evidence = eraser[k].evidence

CompleteDeletion(k) ==
  /\ EraserAt(k, "complete") /\ Leased(k) /\ Provable(k)
  /\ deletion' = [deletion EXCEPT !.status = "completed", !.message = 0]
  /\ jobs' = [jobs EXCEPT ![eraser[k].message] = NoMessage]
  /\ attempt' = [attempt EXCEPT !.done = TRUE]
  /\ eraser' = [eraser EXCEPT ![k] = Resting]
  /\ UNCHANGED <<connectionVars, credential, stores, writerVars, spare>>

StageRefused(k) ==
  \/ Refused(k, "context", TRUE)
  \/ Refused(k, "destroy", EvidenceAccepted(eraser[k].evidence))
  \/ Refused(k, "record", ~credential /\ Preserves(eraser[k].evidence))
  \/ Refused(k, "quiesce", Quiescent)
  \/ Refused(k, "raw", TRUE)
  \/ Refused(k, "analytical", deletion.status = "running")
  \/ Refused(k, "control", deletion.destroyed)
  \/ Refused(k, "mark", TRUE)
  \/ Refused(k, "verify", Verified)
  \/ Refused(k, "complete", Provable(k))

\* retry_deletion_job, called for whatever was thrown.
RetryDeletion(k) ==
  LET terminal == eraser[k].reads >= MaxAttempts IN
  /\ EraserAt(k, "failed") /\ Leased(k)
  /\ jobs' = [jobs EXCEPT ![eraser[k].message] = IF terminal THEN NoMessage ELSE @]
  /\ deletion' = IF terminal THEN [deletion EXCEPT !.status = "failed", !.message = 0]
                             ELSE [deletion EXCEPT !.status = "retry_wait"]
  /\ attempt' = [attempt EXCEPT !.done = TRUE]
  /\ eraser' = [eraser EXCEPT ![k] = Resting]
  /\ UNCHANGED <<connectionVars, credential, stores, writerVars, spare>>

\* Without the lease, or by mishap, the retry throws too: the worker goes on to
\* the next claim and the message is left to its timeout.
AbandonClaim(k) ==
  /\ EraserAt(k, "failed")
  /\ IF Leased(k) THEN Mishap ELSE UNCHANGED spare
  /\ eraser' = [eraser EXCEPT ![k] = Resting]
  /\ UNCHANGED <<connectionVars, credential, stores, deletion, jobs, attempt, writerVars>>

\* A store, the database or the vendor's network fails in the middle of a stage.
StageFails(k) ==
  /\ eraser[k].pc \notin {"idle", "failed"}
  /\ Mishap \/ (spare.outage /\ UNCHANGED spare)
  /\ Advance(k, "failed")
  /\ UNCHANGED <<connectionVars, credential, stores, deletion, jobs, attempt, writerVars>>

CrashEraser(k) ==
  /\ eraser[k].pc # "idle"
  /\ Mishap
  /\ eraser' = [eraser EXCEPT ![k] = Resting]
  /\ UNCHANGED <<connectionVars, credential, stores, deletion, jobs, attempt, writerVars>>

-------------------------------------------------------------------------------
(* A sync job's page: permit, raw upload, landing, release.                *)

deletionSide == <<connectionVars, credential, deletion, jobs, attempt, eraser>>

WriterAt(w, pc) == writer[w] = pc
Proceed(w, pc) == writer' = [writer EXCEPT ![w] = pc]

\* acquire_sync_write_permit
Admitting == connected /\ ~Fencing

AcquirePermit(w) ==
  /\ WriterAt(w, "idle") /\ permit[w] = "none" /\ spare.writes > 0
  /\ Admitting
  /\ permit' = [permit EXCEPT ![w] = "open"]
  /\ spare' = [spare EXCEPT !.writes = @ - 1]
  /\ Proceed(w, "permitted")
  /\ UNCHANGED <<deletionSide, stores>>

\* The policy on storage.objects admits the upload under the permit's grant ...
SendRaw(w) ==
  /\ WriterAt(w, "permitted")
  /\ Proceed(w, IF permit[w] = "open" /\ Admitting THEN "sending" ELSE "release")
  /\ UNCHANGED <<deletionSide, stores, permit, spare>>

\* ... and the object is there a moment later.
StoreRaw(w) ==
  /\ WriterAt(w, "sending")
  /\ stores' = stores \cup {"raw"}
  /\ Proceed(w, "uploaded")
  /\ UNCHANGED <<deletionSide, permit, spare>>

\* withSyncWritePermit: the assertion locks the connection's row, and the
\* transaction stays open around the analytical one.
EnterFence(w) ==
  /\ WriterAt(w, "uploaded")
  /\ Proceed(w, IF permit[w] = "open" /\ Admitting THEN "landing" ELSE "release")
  /\ UNCHANGED <<deletionSide, stores, permit, spare>>

\* The control transaction's connection is lost while the other one goes on.
LoseLock(w) ==
  /\ WriterAt(w, "landing") /\ Loss
  /\ Proceed(w, "unlocked")
  /\ UNCHANGED <<deletionSide, stores, permit>>

\* The capability ends with the permit and every statement checks it.
Land(w) ==
  /\ writer[w] \in {"landing", "unlocked"}
  /\ stores' = IF permit[w] = "open" THEN stores \cup {"analytical"} ELSE stores
  /\ Proceed(w, "release")
  /\ UNCHANGED <<deletionSide, permit, spare>>

ReleasePermit(w) ==
  /\ WriterAt(w, "release")
  /\ permit' = [permit EXCEPT ![w] = "none"]
  /\ Proceed(w, "idle")
  /\ UNCHANGED <<deletionSide, stores, spare>>

\* The job dies, or its release fails: the permit stays until it expires.
AbandonPermit(w) ==
  /\ writer[w] \notin {"idle", "sending"} /\ Loss
  /\ Proceed(w, "idle")
  /\ UNCHANGED <<deletionSide, stores, permit>>

\* Twenty minutes pass, or what is left of the job's own lease.  An upload the
\* policy has admitted is not that slow.
ExpirePermit(w) ==
  /\ permit[w] = "open" /\ ~WriterAt(w, "sending")
  /\ permit' = [permit EXCEPT ![w] = "expired"]
  /\ UNCHANGED <<deletionSide, stores, writer, spare>>

\* An expired row stays until a check of quiescence removes it; it is in nobody's
\* way, as the next claim gets a row of its own.
SweepPermit(w) ==
  /\ permit[w] = "expired" /\ WriterAt(w, "idle")
  /\ permit' = [permit EXCEPT ![w] = "none"]
  /\ UNCHANGED <<deletionSide, stores, writer, spare>>

-------------------------------------------------------------------------------
Erase(k) ==
  \/ ReadContext(k) \/ TellVendor(k) \/ DestroyClaimed(k) \/ RecordEvidence(k)
  \/ AssertQuiescent(k) \/ PurgeRaw(k) \/ PurgeAnalytical(k) \/ PurgeControl(k)
  \/ MarkVerifying(k) \/ VerifyStores(k) \/ CompleteDeletion(k)
  \/ StageRefused(k) \/ RetryDeletion(k) \/ AbandonClaim(k)
  \/ \E m \in Message : ClaimDeletion(k, m)

WritePage(w) == SendRaw(w) \/ StoreRaw(w) \/ EnterFence(w) \/ Land(w) \/ ReleasePermit(w)

DeletionNext ==
  \/ RequestDeletion \/ Requeue \/ Reconnect \/ ForceDestruction
  \/ \E k \in Eraser : Erase(k) \/ StageFails(k) \/ CrashEraser(k)
  \/ \E m \in Message : Reappear(m)
  \/ \E w \in Writer :
       AcquirePermit(w) \/ WritePage(w) \/ LoseLock(w) \/ AbandonPermit(w)
       \/ ExpirePermit(w) \/ SweepPermit(w)

DeletionSpec == DeletionInit /\ [][DeletionNext]_deletionVars

\* The workers poll and their calls return, timeouts pass, cron runs the
\* scheduler with its watchdog; jobs end, though they need not begin.
DeletionFairness ==
  /\ \A k \in Eraser : WF_deletionVars(Erase(k))
  /\ \A m \in Message : WF_deletionVars(Reappear(m))
  /\ \A w \in Writer : WF_deletionVars(WritePage(w)) /\ WF_deletionVars(ExpirePermit(w))
  /\ WF_deletionVars(Requeue)
  /\ WF_deletionVars(ForceDestruction)

DeletionFairSpec == DeletionSpec /\ DeletionFairness

-------------------------------------------------------------------------------
(* Properties.                                                             *)

\* Once the proof is issued nothing is left of the connection and nothing comes
\* back, whatever sync job was under way when the request was made (the permits
\* of 0038, assert_deletion_quiescent, the order of the stages).
ProofIsTrue == deletion.status = "completed" => stores = {} /\ ~credential

\* A connection that is live, or live again, keeps its credential and its data:
\* a reconnect wins against a worker's claim and the watchdog, or is refused.
LiveConnectionIsWhole == connected => credential /\ stores = Store

\* Evidence recorded with the destruction is what every later attempt, and the
\* proof, repeats (deletion_revocation_context, destroy_claimed).
EvidenceIsKept ==
  [][deletion.destroyed /\ deletion'.destroyed =>
       \/ deletion'.evidence = deletion.evidence
       \/ deletion.evidence = "forced" /\ deletion'.evidence = "grace"]_deletionVars

\* However often workers fail, and if an outage never ends, the credential does
\* not outlive the request (the watchdog of 0020: an outage "can never retain
\* usable local credentials indefinitely").
CredentialIsDestroyed == Fencing ~> ~credential \/ connected

\* Unless an outage lasts, every request ends, or comes to rest in verification:
\* the one state a crashed worker's claim is not taken up from.
DeletionIsPursued ==
  Fencing /\ ~spare.outage ~> deletion.status \in {"completed", "cancelled", "verifying"}

-------------------------------------------------------------------------------
(* What the repository says of a deletion and the code does not keep.      *)

\* ADR-0004: failed attempt cycles are re-enqueued "until cross-store
\* verification succeeds", and a process failure can "resume without another
\* user action".
DeletionEnds == Fencing ~> deletion.status \in {"completed", "cancelled"}

\* ADR-0004: a retry cannot replace a provider's outcome with an empty result.
OutcomeIsProved == deletion.status = "completed" /\ informed => deletion.evidence # "empty"
===============================================================================
