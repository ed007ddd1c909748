-------------------------- MODULE ReconciliationSweep --------------------------
(***************************************************************************)
(* The reconciliation sweep of one stream whose vendor reports no          *)
(* deletions: two complete scans of the vendor's identities, and a         *)
(* tombstone for what both of them miss.  A sweep goes through four        *)
(* phases, each a chain of jobs of one page; its row in the control plane  *)
(* says how far it is, the analytical store what it has found.             *)
(*                                                                         *)
(* One action is one transaction, or one request to the vendor with the    *)
(* upload of the page it answers.  Timestamps that the code compares are   *)
(* the vendor's and the queue's, and clock orders them.                    *)
(***************************************************************************)
EXTENDS Naturals, FiniteSets

CONSTANTS
  LastSource,   \* records are 1 .. LastSource, their ids as the vendor issues them
  PageSize,     \* 500 in the code
  Sweeper,      \* lanes of the sync workers
  NoSweeper, NoOwner,
  MaxReads,     \* attempts, 8 in the code
  Margins       \* what to explore: the records listed and copied at first; bounds on
                \* changes at the vendor and upsets of the workers

Source == 1 .. LastSource
Margin == [listed : SUBSET Source, copied : SUBSET Source, changes : Nat, upsets : Nat]

LateEdits == 1
Identity == 2    \* identity_snapshot, the first scan
Verify == 3      \* verify_snapshot, the second
Apply == 4       \* apply_tombstones
Complete == 5
Phase == LateEdits .. Apply
Scan == {Identity, Verify}

\* A job is of a phase and of the page after a record.
Errand == Phase \X (0 .. LastSource)

ASSUME SweepAssumption ==
  /\ LastSource \in Nat /\ PageSize \in Nat \ {0} /\ MaxReads \in Nat \ {0}
  /\ NoSweeper \notin Sweeper
  /\ NoOwner \notin Errand \X Nat
  /\ Margins \subseteq Margin

VARIABLES
  edition,   \* edition[r]: when the vendor's last version of r was made, 0 before the first
  listed,    \* the records the vendor lists
  clock,     \* now: later than the last edition, earlier than the next
  copy,      \* copy[r]: its row of ingestion.source_records, stamp 0 before there is one
  scan,      \* scan[p]: its row of reconciliation_snapshot and its identities
  applied,   \* records with a row in reconciliation_tombstone_application
  reconciled,    \* complete_connector_reconciliation has succeeded
  sweep,     \* the row of reconciliation_stream_sweeps
  errand,    \* errand[j]: its ledger row, reads and requestedAt
  batch,     \* batch[j]: its raw batch: record, version
  sweeper,   \* sweeper[l]: the lane's job, its attempt and where it is with it
  missing,   \* history: missing[p], records not listed when a page of scan p was read
  margin, changed, upset

vendorVars == <<edition, listed, clock, changed>>
store == <<copy, scan, applied, reconciled>>
bounds == <<margin, upset>>
sweepVars == <<vendorVars, store, sweep, errand, batch, sweeper, missing, bounds>>

NoJob == <<LateEdits, 0>>
AtRest == [at |-> "idle", job |-> NoJob, read |-> 0, rows |-> {}, more |-> FALSE, fault |-> "passing"]
NoErrand == [status |-> "absent", reads |-> 0, holder |-> NoSweeper, due |-> TRUE, asked |-> 0]
NoBatch == [made |-> FALSE, rows |-> {}]
NoScan == [status |-> "absent", seen |-> {}, pages |-> {}]

Upset == upset < margin.upsets /\ upset' = upset + 1 /\ UNCHANGED margin

Open == {"queued", "running", "retry_wait"}
Stage == {"begin", "extract", "land", "record", "conclude", "commit", "continue", "finish",
          "blocking", "failing"}

\* Of a failure: it may pass, it will not, or the vendor does not offer the stream.
Failure == {"passing", "lasting", "unavailable"}

SweepTypeOK ==
  /\ edition \in [Source -> Nat] /\ listed \subseteq Source /\ clock \in Nat
  /\ copy \in [Source -> [stamp : Nat, gone : BOOLEAN, old : BOOLEAN]]
  /\ scan \in [Scan -> [status : {"absent", "running", "complete", "failed"},
                        seen : SUBSET Source, pages : SUBSET (0 .. LastSource)]]
  /\ applied \subseteq Source /\ reconciled \in BOOLEAN
  /\ sweep \in [phase : LateEdits .. Complete,
                status : {"planned", "running", "blocked", "complete"},
                owner : (Errand \X Nat) \cup {NoOwner}]
  /\ errand \in [Errand -> [status : {"absent", "succeeded", "failed"} \cup Open, reads : Nat,
                            holder : Sweeper \cup {NoSweeper}, due : BOOLEAN, asked : Nat]]
  /\ batch \in [Errand -> [made : BOOLEAN, rows : SUBSET (Source \X Nat)]]
  /\ sweeper \in [Sweeper -> [at : {"idle"} \cup Stage, job : Errand, read : Nat,
                              rows : SUBSET (Source \X Nat), more : BOOLEAN, fault : Failure]]
  /\ missing \in [Scan -> SUBSET Source]
  /\ margin \in Margin /\ changed \in Nat /\ upset \in Nat

\* The coordinator has registered the sweep and published its first job.  A record
\* that was edited in the lookback may not have been copied, or no longer be there.
SweepInit ==
  /\ margin \in Margins /\ changed = 0 /\ upset = 0
  /\ edition = [r \in Source |-> 1] /\ clock = 2
  /\ listed = margin.listed
  /\ copy = [r \in Source |-> [stamp |-> IF r \in margin.copied THEN 1 ELSE 0,
                              gone |-> FALSE, old |-> FALSE]]
  /\ scan = [p \in Scan |-> NoScan] /\ applied = {} /\ reconciled = FALSE
  /\ sweep = [phase |-> LateEdits, status |-> "planned", owner |-> NoOwner]
  /\ errand = [j \in Errand |-> IF j = <<LateEdits, 0>>
                                THEN [NoErrand EXCEPT !.status = "queued", !.asked = 2]
                                ELSE NoErrand]
  /\ batch = [j \in Errand |-> NoBatch]
  /\ sweeper = [l \in Sweeper |-> AtRest]
  /\ missing = [p \in Scan |-> {}]

-------------------------------------------------------------------------------
(* The vendor, and the incremental copy beside the sweep.                   *)

Changes == changed < margin.changes /\ changed' = changed + 1

\* A record is created or edited, or it comes back as it was.
Put(r) ==
  /\ Changes
  /\ listed' = listed \cup {r}
  /\ \/ clock' = clock + 2 /\ edition' = [edition EXCEPT ![r] = clock + 1]
     \/ r \notin listed /\ UNCHANGED <<clock, edition>>
  /\ UNCHANGED <<store, sweep, errand, batch, sweeper, missing, bounds>>

\* A record is deleted, or the vendor omits it for a while.
Drop(r) ==
  /\ Changes
  /\ r \in listed /\ listed' = listed \ {r}
  /\ UNCHANGED <<edition, clock, store, sweep, errand, batch, sweeper, missing, bounds>>

\* The upsert of land: the later version wins, and an equal one changes nothing.
Upserted(r, stamp, gone) ==
  IF stamp >= copy[r].stamp /\ (stamp # copy[r].stamp \/ gone # copy[r].gone)
  THEN [stamp |-> stamp, gone |-> gone, old |-> FALSE] ELSE copy[r]

\* An incremental job lands what it has read, now or some time ago.
Poll(r) ==
  /\ Upserted(r, edition[r], FALSE) # copy[r]
  /\ copy' = [copy EXCEPT ![r] = Upserted(r, edition[r], FALSE)]
  /\ UNCHANGED <<vendorVars, scan, applied, reconciled, sweep, errand, batch, sweeper, missing,
                 bounds>>

-------------------------------------------------------------------------------
(* Claims and leases.                                                      *)

\* The lease condition of every fenced call: the lane's attempt is the job's last.
Fenced(l) ==
  LET j == sweeper[l].job IN
  errand[j].status = "running" /\ errand[j].holder = l /\ errand[j].reads = sweeper[l].read

Owner(l) == <<sweeper[l].job, sweeper[l].read>>

\* The phase is leased to the lane's attempt.
OwnsPhase(l) ==
  /\ Fenced(l)
  /\ sweep.phase = sweeper[l].job[1] /\ sweep.status = "running" /\ sweep.owner = Owner(l)

Readable(j) ==
  \/ errand[j].status \in {"queued", "retry_wait"} /\ errand[j].due
  \/ errand[j].status = "running" /\ errand[j].holder = NoSweeper

Goes(l, at) == sweeper' = [sweeper EXCEPT ![l].at = at]
Throws(l, fault) ==
  sweeper' = [sweeper EXCEPT ![l] = [@ EXCEPT !.at = "blocking", !.fault = fault, !.rows = {}]]

ClaimErrand(l, j) ==
  /\ sweeper[l].at = "idle" /\ Readable(j)
  /\ errand' = [errand EXCEPT ![j] = [@ EXCEPT !.status = "running", !.reads = errand[j].reads + 1,
                                               !.holder = l, !.due = TRUE]]
  /\ sweeper' = [sweeper EXCEPT ![l] =
       [AtRest EXCEPT !.at = "begin", !.job = j, !.read = errand[j].reads + 1]]
  /\ UNCHANGED <<vendorVars, store, sweep, batch, missing, bounds>>

\* The delay of a retry passes.
RetryComesDue(j) ==
  /\ errand[j].status = "retry_wait" /\ ~errand[j].due
  /\ errand' = [errand EXCEPT ![j].due = TRUE]
  /\ UNCHANGED <<vendorVars, store, sweep, batch, sweeper, missing, bounds>>

LoseLease(j) ==
  /\ errand[j].status = "running" /\ errand[j].holder # NoSweeper
  /\ errand' = [errand EXCEPT ![j].holder = NoSweeper]
  /\ UNCHANGED <<vendorVars, store, sweep, batch, sweeper, missing>>

AtWorkOn(j) == \E l \in Sweeper : sweeper[l].at # "idle" /\ sweeper[l].job = j /\ Fenced(l)

\* The visibility window of a job nobody works on passes, or that of a slow lane.
WindowPasses(j) == ~AtWorkOn(j) /\ LoseLease(j) /\ UNCHANGED bounds
LaneStalls(j) == AtWorkOn(j) /\ LoseLease(j) /\ Upset

-------------------------------------------------------------------------------
(* SyncJobProcessor.process: one page.                                      *)

\* begin_reconciliation_phase: the job takes its phase over, or finds it done, or
\* is refused.
BeginPhase(l) ==
  LET p == sweeper[l].job[1] IN
  /\ sweeper[l].at = "begin" /\ Fenced(l)
  /\ IF sweep.phase = p /\ sweep.status \in {"planned", "running"}
     THEN /\ sweep' = [sweep EXCEPT !.status = "running", !.owner = Owner(l)]
          /\ Goes(l, "extract")
     ELSE /\ UNCHANGED sweep
          /\ IF sweep.phase > p THEN Goes(l, "finish") ELSE Throws(l, "passing")
  /\ UNCHANGED <<vendorVars, store, errand, batch, missing, bounds>>

\* The first of what is found, in the order of ids.
FirstPage(found) == {r \in found : Cardinality({s \in found : s < r}) < PageSize}

\* Late edits are those of the lookback, which ends when the sweep is planned.
Asked(p, after) == {r \in listed : r > after /\ (p = LateEdits => edition[r] = 1)}

Unseen(p, r) == r \notin scan[p].seen
Stable == scan[Identity].status = "complete" /\ scan[Verify].status = "complete"

\* reconciliation_tombstone_candidates: copied before the first scan and in neither.
Candidate(r) ==
  /\ Stable
  /\ copy[r].stamp > 0 /\ ~copy[r].gone /\ copy[r].old
  /\ \A p \in Scan : Unseen(p, r)
  /\ r \notin applied
Candidates(after) == {r \in Source : r > after /\ Candidate(r)}

\* The page is read and registered as the job's immutable batch.  A tombstone's
\* version is the time its job was published.  If the job has a batch already, it
\* must be the same, or the raw writer throws.
Extract(l) ==
  LET j == sweeper[l].job
      found == IF j[1] = Apply THEN Candidates(j[2]) ELSE Asked(j[1], j[2])
      page == FirstPage(found)
      rows == {<<r, IF j[1] = Apply THEN copy[r].stamp ELSE edition[r]>> : r \in page}
      content == IF j[1] = Apply THEN {<<r, errand[j].asked>> : r \in page} ELSE rows
  IN
  /\ sweeper[l].at = "extract" /\ Fenced(l)
  /\ IF ~batch[j].made \/ batch[j].rows = content
     THEN /\ batch' = [batch EXCEPT ![j] = [made |-> TRUE, rows |-> content]]
          /\ sweeper' = [sweeper EXCEPT ![l] =
               [@ EXCEPT !.at = "land", !.rows = rows,
                         !.more = (found # page \/ Cardinality(page) = PageSize)]]
     ELSE Throws(l, "passing") /\ UNCHANGED batch
  /\ missing' = IF j[1] \in Scan THEN [missing EXCEPT ![j[1]] = @ \cup (Source \ listed)]
                ELSE missing
  /\ UNCHANGED <<vendorVars, store, sweep, errand, bounds>>

\* Mutant of Current: the tombstone does not look at the version it replaces.
CurrentUnfenced(row) == TRUE

\* The version fence of a tombstone: the row is still what the candidate was.
Current(row) ==
  copy[row[1]].stamp = row[2] /\ ~copy[row[1]].gone

Batched(j) == {row[1] : row \in batch[j].rows}

Landed(j) ==
  [r \in Source |->
     IF r \in Batched(j)
     THEN Upserted(r, (CHOOSE row \in batch[j].rows : row[1] = r)[2], j[1] = Apply)
     ELSE copy[r]]

LandRows(l) ==
  LET j == sweeper[l].job IN
  /\ sweeper[l].at = "land" /\ Fenced(l)
  /\ IF j[1] = Apply /\ \E row \in sweeper[l].rows : ~Current(row)
     THEN Throws(l, "passing") /\ UNCHANGED copy
     ELSE copy' = Landed(j) /\ Goes(l, "record")
  /\ UNCHANGED <<vendorVars, scan, applied, reconciled, sweep, errand, batch, missing, bounds>>

\* Mutant of Judged: the second scan may have more members than the first.
JudgedByLosses(p, seen) ==
  IF p = Verify /\ ~(scan[Identity].seen \subseteq seen) THEN "failed" ELSE "complete"

\* A scan that has its last page is complete; the second one fails if it has other
\* members than the first.
Judged(p, seen) == IF p = Verify /\ seen # scan[Identity].seen THEN "failed" ELSE "complete"

\* record_reconciliation_snapshot_page.  A page that is recorded already is not
\* recorded again; a last page judges the scan, any other leaves it as it is.  The
\* versions that are there when the first scan starts are old.
RecordScan(l) ==
  LET j == sweeper[l].job
      p == j[1]
      seen == scan[p].seen \cup Batched(j)
      known == j[2] \in scan[p].pages
      result == IF known THEN scan[p].status
                ELSE IF ~sweeper[l].more THEN Judged(p, seen)
                ELSE IF scan[p].status = "absent" THEN "running" ELSE scan[p].status
  IN
  /\ sweeper[l].at = "record" /\ p \in Scan /\ Fenced(l)
  /\ IF ~known /\ p = Verify /\ scan[Identity].status # "complete"
     THEN Throws(l, "passing") /\ UNCHANGED <<scan, copy>>
     ELSE /\ scan' = [scan EXCEPT ![p] =
               [status |-> result, seen |-> seen, pages |-> @.pages \cup {j[2]}]]
          /\ copy' = IF p = Identity /\ scan[p].status = "absent"
                     THEN [r \in Source |-> [copy[r] EXCEPT !.old = TRUE]] ELSE copy
          /\ IF sweeper[l].more THEN Goes(l, "continue")
             ELSE IF result = "complete" THEN Goes(l, "conclude") ELSE Throws(l, "lasting")
  /\ UNCHANGED <<vendorVars, applied, reconciled, sweep, errand, batch, missing, bounds>>

\* record_reconciliation_tombstone_applications: of the tombstones this batch made.
RecordApplications(l) ==
  LET j == sweeper[l].job
      made == {row[1] : row \in sweeper[l].rows}
  IN
  /\ sweeper[l].at = "record" /\ j[1] = Apply /\ Fenced(l)
  /\ IF /\ Stable
        /\ \A r \in made : /\ copy[r].gone /\ copy[r].stamp = errand[j].asked
                           /\ \A p \in Scan : Unseen(p, r)
     THEN /\ applied' = applied \cup made
          /\ Goes(l, IF sweeper[l].more THEN "continue" ELSE "conclude")
     ELSE Throws(l, "passing") /\ UNCHANGED applied
  /\ UNCHANGED <<vendorVars, copy, scan, reconciled, sweep, errand, batch, missing, bounds>>

\* The phase of late edits records nothing.
RecordNothing(l) ==
  /\ sweeper[l].at = "record" /\ sweeper[l].job[1] = LateEdits /\ Fenced(l)
  /\ Goes(l, IF sweeper[l].more THEN "continue" ELSE "conclude")
  /\ UNCHANGED <<vendorVars, store, sweep, errand, batch, missing, bounds>>

\* enqueue_sync_job: a key that is known keeps its job, whatever has become of it.
Published(j) ==
  IF errand[j].status = "absent"
  THEN [errand EXCEPT ![j] = [NoErrand EXCEPT !.status = "queued", !.asked = clock]]
  ELSE errand

\* complete_connector_reconciliation compares the totals.
TotalsAgree ==
  Cardinality({r \in Source : copy[r].stamp > 0 /\ ~copy[r].gone}) = Cardinality(scan[Verify].seen)

Tallies(l) ==
  /\ sweeper[l].job[1] = Apply /\ Fenced(l)
  /\ IF Stable /\ TotalsAgree
     THEN reconciled' = TRUE /\ Goes(l, "commit")
     ELSE Throws(l, "passing") /\ UNCHANGED reconciled
  /\ UNCHANGED errand

\* Mutant of PublishesNext: the next phase is not published.
PublishesNothing(l) ==
  /\ sweeper[l].job[1] # Apply
  /\ Goes(l, "commit")
  /\ UNCHANGED <<errand, reconciled>>

\* enqueueNextReconciliationPhase asks for no lease.
PublishesNext(l) ==
  /\ sweeper[l].job[1] # Apply
  /\ errand' = Published(<<sweeper[l].job[1] + 1, 0>>)
  /\ Goes(l, "commit")
  /\ UNCHANGED reconciled

\* After a last page.
Conclude(l) ==
  /\ sweeper[l].at = "conclude"
  /\ Tallies(l) \/ PublishesNext(l)
  /\ UNCHANGED <<vendorVars, copy, scan, applied, sweep, batch, missing, bounds>>

\* commitPage with complete_reconciliation_phase: only the exact attempt that the
\* phase is leased to advances it.
CommitPhase(l) ==
  LET p == sweeper[l].job[1] IN
  /\ sweeper[l].at = "commit" /\ Fenced(l)
  /\ IF OwnsPhase(l)
     THEN /\ sweep' = [phase |-> p + 1, status |-> IF p = Apply THEN "complete" ELSE "planned",
                       owner |-> NoOwner]
          /\ Goes(l, "finish")
     ELSE Throws(l, "passing") /\ UNCHANGED sweep
  /\ UNCHANGED <<vendorVars, store, errand, batch, missing, bounds>>

\* commitPage and enqueueContinuation after any other page.
Continue(l) ==
  /\ sweeper[l].at = "continue"
  /\ \E row \in sweeper[l].rows :
       /\ \A other \in sweeper[l].rows : other[1] <= row[1]
       /\ errand' = Published(<<sweeper[l].job[1], row[1]>>)
  /\ Goes(l, "finish")
  /\ UNCHANGED <<vendorVars, store, sweep, batch, missing, bounds>>

FinishErrand(l) ==
  /\ sweeper[l].at = "finish" /\ Fenced(l)
  /\ errand' = [errand EXCEPT ![sweeper[l].job] =
       [@ EXCEPT !.status = "succeeded", !.holder = NoSweeper]]
  /\ sweeper' = [sweeper EXCEPT ![l] = AtRest]
  /\ UNCHANGED <<vendorVars, store, sweep, batch, missing, bounds>>

-------------------------------------------------------------------------------
(* Failures.                                                               *)

\* Where the vendor is asked: for the health of the connection, for the page and for
\* the capabilities of the account.
AsksVendor(l) == sweeper[l].at \in {"begin", "extract", "conclude", "continue"}

\* A request to the vendor or a transaction fails.
MeetUpset(l) ==
  /\ sweeper[l].at \in Stage \ {"blocking", "failing"}
  /\ Upset
  /\ \E fault \in Failure :
       /\ fault # "passing" => AsksVendor(l)
       /\ fault = "unavailable" => sweeper[l].at # "begin"
       /\ Throws(l, fault)
  /\ UNCHANGED <<vendorVars, store, sweep, errand, batch, missing>>

\* The vendor limits the rate: the attempt is deferred and not judged.
MeetRateLimit(l) ==
  /\ AsksVendor(l) /\ Fenced(l)
  /\ Upset
  /\ errand' = [errand EXCEPT ![sweeper[l].job] =
       [@ EXCEPT !.status = "retry_wait", !.holder = NoSweeper, !.due = FALSE]]
  /\ sweeper' = [sweeper EXCEPT ![l] = AtRest]
  /\ UNCHANGED <<vendorVars, store, sweep, batch, missing>>

LoseSweeper(l) ==
  /\ sweeper[l].at # "idle"
  /\ Upset
  /\ sweeper' = [sweeper EXCEPT ![l] = AtRest]
  /\ UNCHANGED <<vendorVars, store, sweep, errand, batch, missing>>

\* A call under a lost lease throws.
FindLeaseLost(l) ==
  /\ sweeper[l].at \in {"begin", "extract", "land", "record", "conclude", "commit", "continue",
                     "finish"}
  /\ ~Fenced(l)
  /\ Throws(l, "passing")
  /\ UNCHANGED <<vendorVars, store, sweep, errand, batch, missing, bounds>>

Exhausted(l) == sweeper[l].fault = "lasting" \/ sweeper[l].read >= MaxReads

\* block_reconciliation_phase before the last attempt is given up, where a refusal is
\* not looked at; or before the job of a stream that is not offered is completed, where
\* a refusal ends the lane's work on it.
BlockPhase(l) ==
  LET given == sweeper[l].fault = "unavailable" IN
  /\ sweeper[l].at = "blocking"
  /\ IF (given \/ Exhausted(l)) /\ OwnsPhase(l)
     THEN sweep' = [sweep EXCEPT !.status = "blocked", !.owner = NoOwner]
     ELSE UNCHANGED sweep
  /\ \/ ~given /\ Goes(l, "failing")
     \/ given /\ OwnsPhase(l) /\ Goes(l, "finish")
     \/ given /\ ~OwnsPhase(l) /\ sweeper' = [sweeper EXCEPT ![l] = AtRest]
  /\ UNCHANGED <<vendorVars, store, errand, batch, missing, bounds>>

\* retryOrFail; without the lease it throws, and the lane goes on to its next claim.
RetryErrand(l) ==
  LET j == sweeper[l].job IN
  /\ sweeper[l].at = "failing"
  /\ errand' = IF ~Fenced(l) THEN errand
               ELSE [errand EXCEPT ![j] =
                 [@ EXCEPT !.status = IF Exhausted(l) THEN "failed" ELSE "retry_wait",
                           !.holder = NoSweeper, !.due = Exhausted(l)]]
  /\ sweeper' = [sweeper EXCEPT ![l] = AtRest]
  /\ UNCHANGED <<vendorVars, store, sweep, batch, missing, bounds>>

-------------------------------------------------------------------------------
Sweeps(l) ==
  \/ BeginPhase(l) \/ Extract(l) \/ LandRows(l)
  \/ RecordNothing(l) \/ RecordScan(l) \/ RecordApplications(l)
  \/ Conclude(l) \/ CommitPhase(l) \/ Continue(l) \/ FinishErrand(l)
  \/ FindLeaseLost(l) \/ BlockPhase(l) \/ RetryErrand(l)

SweepNext ==
  \/ \E r \in Source : Put(r) \/ Drop(r) \/ Poll(r)
  \/ \E j \in Errand : RetryComesDue(j) \/ WindowPasses(j) \/ LaneStalls(j)
  \/ \E l \in Sweeper : \/ Sweeps(l) \/ MeetUpset(l) \/ MeetRateLimit(l) \/ LoseSweeper(l)
                        \/ \E j \in Errand : ClaimErrand(l, j)

SweepSpec == SweepInit /\ [][SweepNext]_sweepVars

\* Lanes go on, delays and windows end, and when there is a message to read a lane
\* that rests reads one.
SweepFairness ==
  /\ \A l \in Sweeper : WF_sweepVars(Sweeps(l))
  /\ WF_sweepVars(\E j \in Errand : RetryComesDue(j))
  /\ WF_sweepVars(\E j \in Errand : WindowPasses(j))
  /\ WF_sweepVars(\E l \in Sweeper, j \in Errand : ClaimErrand(l, j))

SweepFairSpec == SweepSpec /\ SweepFairness

-------------------------------------------------------------------------------
(* Properties.                                                             *)

\* A record gets a tombstone only if each scan has read a page while the vendor did
\* not list it, and only in place of a version copied before the first scan: no
\* newer one is lost (the candidates of 0081 and the version fence of land).
TombstonesAreProven ==
  [][\A r \in Source : copy'[r].gone /\ ~copy[r].gone =>
       copy[r].old /\ \A p \in Scan : r \in missing[p]]_sweepVars

\* The control plane is never ahead of the evidence in the other database: a phase
\* that is passed has a complete scan, and a sweep that is complete has left no
\* record behind that was there before it and that both scans miss.
SweepIsReal ==
  /\ \A p \in Scan : sweep.phase > p => scan[p].status = "complete"
  /\ sweep.phase > Verify => scan[Verify].seen = scan[Identity].seen
  /\ sweep.phase = Complete =>
       reconciled /\ \A r \in Source : ~Candidate(r)

\* A sweep ends or is blocked, or a job of it is in the dead letters: it does not
\* come to a halt unseen (0033; worker.ts: the next phase is published first).
SweepIsPursued ==
  <>[](\/ sweep.status \in {"blocked", "complete"}
       \/ \E j \in Errand : errand[j].status = "failed")

-------------------------------------------------------------------------------
(* What the repository says of sweeps and the code does not keep.           *)

\* worker.ts: to publish the successor first leaves no window without a durable
\* continuation.  A sweep that is not over has a job that may still advance it.
SweepIsCarried ==
  sweep.status \in {"planned", "running"} => \E j \in Errand : errand[j].status \in Open

\* ADR-0021: a crash does not advance the landing without durable evidence for a
\* replay.  When the sweep is over, every tombstone has its application.
TombstonesAreOnRecord ==
  sweep.status \in {"blocked", "complete"} =>
    \A r \in Source : copy[r].gone => r \in applied
===============================================================================
