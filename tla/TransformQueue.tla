----------------------------- MODULE TransformQueue -----------------------------
(***************************************************************************)
(* The queue of canonical transforms (services/transform-worker) and the   *)
(* coverage it decides.  Every landed page of a stream has one job, which  *)
(* maps the page into the canonical tables.  A job may be claimed once the *)
(* streams it refers to are queryable; the last job of a stream's recent   *)
(* phase makes that stream queryable, and the last such stream asks for a  *)
(* reconciliation.                                                         *)
(*                                                                         *)
(* The phases are extracted, so their jobs are in the queue: which job is  *)
(* claimed when is open anyway.  One action is one transaction, except     *)
(* that a completion reads in one action and commits in another, because   *)
(* transactions do not see each other's writes before the commit.          *)
(***************************************************************************)
EXTENDS Naturals

CONSTANTS
  Stream,
  Master,          \* Master[s]: the streams that s depends on
  RequiredStream,  \* streams that are not optional
  Transform,       \* jobs, one per landed page
  StreamOf,
  Recent,          \* jobs of a recent phase
  Final,           \* the job of the last page of a full history
  Mapper,          \* lanes of all transform workers
  NoMapper, NoTransform,
  Absent,          \* a record no page holds
  MaxTries,        \* attempts, 12 in the code
  MaxCount,        \* bound: attempts are counted up to here
  Layouts          \* bounds to explore

\* What the pages refer to; those that cannot be mapped for a reason the queue does
\* not accept; the chunks of their replays; how many troubles there are.
Layout == [needs : [Transform -> SUBSET (Transform \cup {Absent})],
           strange : SUBSET Transform,
           replays : [Transform -> Nat], troubles : Nat]

ASSUME TransformAssumption ==
  /\ Master \in [Stream -> SUBSET Stream]
  /\ StreamOf \in [Transform -> Stream]
  /\ Recent \subseteq Transform /\ Final \subseteq Transform /\ Recent \cap Final = {}
  /\ RequiredStream \subseteq Stream
  /\ NoMapper \notin Mapper /\ NoTransform \notin Transform
  /\ MaxTries \in Nat \ {0} /\ MaxCount \in Nat /\ MaxCount >= MaxTries
  /\ Layouts \subseteq Layout

VARIABLES
  transform,       \* transform[j]: its row of canonical_transform_jobs
  coverage,        \* coverage[s]: the status of progressive_stream_coverage
  reconciliation,  \* the row of progressive_reconciliation_requests is there
  mapper,          \* mapper[l]: the lane's job and where it is with it
  canonical,       \* pages whose canonical commit is there
  replay,          \* replay[j]: chunks of dependants that j still has to replay
  layout, troubled

transformVars == <<transform, coverage, reconciliation, mapper, canonical, replay, layout,
                   troubled>>
ledger == <<coverage, reconciliation>>
content == <<canonical, replay, layout>>

Idling == [at |-> "idle", job |-> NoTransform, error |-> "none", grant |-> "none",
           asks |-> FALSE]

Trouble == troubled < layout.troubles /\ troubled' = troubled + 1

\* A failure is unlisted if its code is not one the queue knows.
Error == {"none", "reference", "transient", "permanent", "unlisted"}

TransformRow ==
  [status : {"queued", "running", "retry_wait", "succeeded", "failed"}, tries : Nat,
   error : Error, holder : Mapper \cup {NoMapper}, due : BOOLEAN]

MapperState ==
  [at : {"idle", "mapping", "replaying", "continuing", "completing", "committing", "failing"},
   job : Transform \cup {NoTransform}, error : Error,
   grant : {"none", "queryable", "superseded"}, asks : BOOLEAN]

TransformTypeOK ==
  /\ transform \in [Transform -> TransformRow]
  /\ coverage \in [Stream -> {"pending", "queryable", "superseded"}]
  /\ reconciliation \in BOOLEAN
  /\ mapper \in [Mapper -> MapperState]
  /\ canonical \subseteq Transform
  /\ replay \in [Transform -> Nat]
  /\ layout \in Layout
  /\ troubled \in Nat

TransformInit ==
  /\ layout \in Layouts
  /\ transform = [j \in Transform |-> [status |-> "queued", tries |-> 0, error |-> "none",
                                       holder |-> NoMapper, due |-> TRUE]]
  /\ coverage = [s \in Stream |-> "pending"]
  /\ reconciliation = FALSE
  /\ mapper = [l \in Mapper |-> Idling]
  /\ canonical = {}
  /\ replay = layout.replays
  /\ troubled = 0

-------------------------------------------------------------------------------
(* Claims and leases.                                                      *)

ReadyStream(s) == coverage[s] \in {"queryable", "superseded"}
MastersReady(j) == \A m \in Master[StreamOf[j]] : ReadyStream(m)

\* The lease condition of every call for a claimed job.
Holds(l, j) ==
  mapper[l].job = j /\ transform[j].status = "running" /\ transform[j].holder = l

MapperAt(l, at, j) == mapper[l].at = at /\ mapper[l].job = j
Turn(l, at) == mapper' = [mapper EXCEPT ![l].at = at]
Fails(l, error) == mapper' = [mapper EXCEPT ![l] = [@ EXCEPT !.at = "failing", !.error = error]]
Rests(l) == mapper' = [mapper EXCEPT ![l] = Idling]

\* claim_canonical_transform_job does not look at the number of attempts.
Transformable(j) ==
  /\ \/ transform[j].status \in {"queued", "retry_wait"} /\ transform[j].due
     \/ transform[j].status = "running" /\ transform[j].holder = NoMapper
  /\ MastersReady(j)

\* attempt_count, of which the model counts no more than MaxCount.
Counted(tries) == IF tries < MaxCount THEN tries + 1 ELSE tries

\* SKIP LOCKED passes over a job whose completion has not committed.
ClaimTransform(l, j) ==
  /\ mapper[l].at = "idle"
  /\ Transformable(j)
  /\ \A k \in Mapper : ~MapperAt(k, "committing", j)
  /\ transform' = [transform EXCEPT ![j] =
       [status |-> "running", tries |-> Counted(@.tries), error |-> "none", holder |-> l,
        due |-> TRUE]]
  /\ mapper' = [mapper EXCEPT ![l] =
       [at |-> "mapping", job |-> j, error |-> "none", grant |-> "none", asks |-> FALSE]]
  /\ UNCHANGED <<ledger, content, troubled>>

\* The delay of a retry passes.
ComeDue(j) ==
  /\ transform[j].status = "retry_wait" /\ ~transform[j].due
  /\ transform' = [transform EXCEPT ![j].due = TRUE]
  /\ UNCHANGED <<ledger, mapper, content, troubled>>

EndLease(j) ==
  /\ transform[j].status = "running" /\ transform[j].holder # NoMapper
  /\ transform' = [transform EXCEPT ![j].holder = NoMapper]
  /\ UNCHANGED <<ledger, mapper, content>>

\* Nobody extends the lease any more, or the extensions of a lane at work fail,
\* which it does not notice.
ExpireLease(j) == (\A l \in Mapper : ~Holds(l, j)) /\ EndLease(j) /\ UNCHANGED troubled
MissExtensions(j) == (\E l \in Mapper : Holds(l, j)) /\ EndLease(j) /\ Trouble

-------------------------------------------------------------------------------
(* CanonicalTransformProcessor.process: transformBatch.                     *)

\* The page's canonical rows are committed if every record they refer to is
\* there, or were already.
MapPage(l, j) ==
  /\ MapperAt(l, "mapping", j) /\ Holds(l, j)
  /\ j \notin layout.strange /\ layout.needs[j] \subseteq canonical
  /\ canonical' = canonical \cup {j}
  /\ Turn(l, "replaying")
  /\ UNCHANGED <<transform, ledger, replay, layout, troubled>>

\* One bounded chunk of the replay of what depends on the page.
ReplayChunk(l, j) ==
  /\ MapperAt(l, "replaying", j) /\ Holds(l, j)
  /\ IF replay[j] > 0
     THEN replay' = [replay EXCEPT ![j] = @ - 1] /\ Turn(l, "continuing")
     ELSE UNCHANGED replay /\ Turn(l, "completing")
  /\ UNCHANGED <<transform, ledger, canonical, layout, troubled>>

MissReference(l, j) ==
  /\ MapperAt(l, "mapping", j) /\ Holds(l, j)
  /\ j \notin layout.strange /\ ~(layout.needs[j] \subseteq canonical)
  /\ Fails(l, "reference")
  /\ UNCHANGED <<transform, ledger, content, troubled>>

\* What was staged for the page is not as it should be, or its rows have another
\* lineage: canonical_staging_batch_incomplete, canonical_lineage_immutable, ...
MeetStrangePage(l, j) ==
  /\ MapperAt(l, "mapping", j) /\ Holds(l, j)
  /\ j \in layout.strange
  /\ Fails(l, "unlisted")
  /\ UNCHANGED <<transform, ledger, content, troubled>>

\* A call under a lost lease throws.
NoticeLapse(l, j) ==
  /\ \E at \in {"mapping", "replaying", "continuing", "completing"} : MapperAt(l, at, j)
  /\ ~Holds(l, j)
  /\ Fails(l, "transient")
  /\ UNCHANGED <<transform, ledger, content, troubled>>

\* So does a database that fails or times out (database_statement_timeout is
\* unlisted), and a page that cannot be mapped.  What was not committed is rolled
\* back.
MeetTrouble(l) ==
  /\ mapper[l].at \in {"mapping", "replaying", "continuing", "completing", "committing"}
  /\ Trouble
  /\ \E error \in {"transient", "permanent", "unlisted"} : Fails(l, error)
  /\ UNCHANGED <<transform, ledger, content>>

\* The lane's process dies, or its last call for the job fails as well.
LoseMapper(l) ==
  /\ mapper[l].at # "idle"
  /\ Trouble
  /\ Rests(l)
  /\ UNCHANGED <<transform, ledger, content>>

-------------------------------------------------------------------------------
(* The outcomes.                                                           *)

\* The job waits, and its claim counts as an attempt or does not.
Waits(j, error, refunded) ==
  transform' = [transform EXCEPT ![j] =
    [status |-> "retry_wait", tries |-> IF refunded THEN @.tries - 1 ELSE @.tries,
     error |-> error, holder |-> NoMapper, due |-> FALSE]]

\* Mutant of ContinueReplay: a continuation keeps its claim's attempt.
ContinueReplayCharged(l, j) ==
  /\ MapperAt(l, "continuing", j) /\ Holds(l, j)
  /\ Waits(j, "none", FALSE)
  /\ Rests(l)
  /\ UNCHANGED <<ledger, content, troubled>>

\* continue_canonical_transform_job, with a chunk that is new.
ContinueReplay(l, j) ==
  /\ MapperAt(l, "continuing", j) /\ Holds(l, j)
  /\ Waits(j, "none", TRUE)
  /\ Rests(l)
  /\ UNCHANGED <<ledger, content, troubled>>

\* Mutant of OrdinarySibling: whoever waits keeps the others waiting.
OrdinarySiblingOrWaiter(i) == transform[i].status \in {"queued", "retry_wait"}

\* A page that may yet bring the missing record.
OrdinarySibling(i) ==
  \/ transform[i].status = "queued"
  \/ transform[i].status = "retry_wait" /\ transform[i].error # "reference"

\* The queue knows the codes of failures one by one.
Refused(error) == error = "unlisted"

\* retry_or_fail_canonical_transform_job; without the lease, or with a code that is
\* refused, it throws, and the lane goes on to its next claim: the row stays running
\* until its lease ends, and is claimed again.
RetryOrFail(l, j) ==
  LET error == mapper[l].error
      backlog == /\ error = "reference"
                 /\ \E i \in Transform \ {j} : StreamOf[i] = StreamOf[j] /\ OrdinarySibling(i)
  IN
  /\ MapperAt(l, "failing", j)
  /\ IF ~Holds(l, j) \/ Refused(error) THEN UNCHANGED transform
     ELSE IF ~backlog /\ (transform[j].tries >= MaxTries \/ error = "permanent")
     THEN transform' = [transform EXCEPT ![j] =
            [@ EXCEPT !.status = "failed", !.error = error, !.holder = NoMapper]]
     ELSE Waits(j, error, backlog)
  /\ Rests(l)
  /\ UNCHANGED <<ledger, content, troubled>>

-------------------------------------------------------------------------------
(* complete_canonical_transform_job.                                       *)

\* Mutant of Behind: completions do not wait for each other.
BehindNobody(j, k) == FALSE

\* The completion of j waits for that of k: both lock the row of their phase, or
\* both update their stream's coverage.
Behind(j, k) ==
  /\ mapper[k].at = "committing"
  /\ StreamOf[mapper[k].job] = StreamOf[j]
  /\ \/ j \in Recent /\ mapper[k].job \in Recent
     \/ j \in Recent \cup Final /\ mapper[k].grant # "none"

RecentOf(s) == {i \in Recent : StreamOf[i] = s}

\* What the completion of j makes of its stream's coverage ...
CoverageFor(j) ==
  LET s == StreamOf[j] IN
  IF j \in Final THEN "superseded"
  ELSE IF /\ j \in Recent
          /\ \A i \in RecentOf(s) \ {j} : transform[i].status = "succeeded"
          /\ MastersReady(j)
          /\ coverage[s] = "pending"
       THEN "queryable" ELSE "none"

\* ... and whether it is the last stream.  The superseding one does not ask.
LastReady(s) == \A t \in RequiredStream \ {s} : ReadyStream(t)

DecideCompletion(l, j) ==
  /\ MapperAt(l, "completing", j) /\ Holds(l, j)
  /\ \A k \in Mapper : ~Behind(j, k)
  /\ mapper' = [mapper EXCEPT ![l] =
       [@ EXCEPT !.at = "committing", !.grant = CoverageFor(j),
                 !.asks = CoverageFor(j) = "queryable" /\ LastReady(StreamOf[j])]]
  /\ UNCHANGED <<transform, ledger, content, troubled>>

CommitCompletion(l, j) ==
  LET s == StreamOf[j] IN
  /\ MapperAt(l, "committing", j)
  /\ transform' = [transform EXCEPT ![j] =
       [@ EXCEPT !.status = "succeeded", !.holder = NoMapper]]
  /\ coverage' = [coverage EXCEPT ![s] =
       IF mapper[l].grant = "none" THEN @ ELSE mapper[l].grant]
  /\ reconciliation' = (reconciliation \/ mapper[l].asks)
  /\ Rests(l)
  /\ UNCHANGED <<content, troubled>>

-------------------------------------------------------------------------------
ProcessTransform(l) ==
  \E j \in Transform :
    \/ MapPage(l, j) \/ MissReference(l, j) \/ MeetStrangePage(l, j)
    \/ ReplayChunk(l, j) \/ NoticeLapse(l, j)
    \/ ContinueReplay(l, j) \/ RetryOrFail(l, j) \/ DecideCompletion(l, j) \/ CommitCompletion(l, j)

TransformNext ==
  \/ \E l \in Mapper : ProcessTransform(l) \/ MeetTrouble(l) \/ LoseMapper(l)
  \/ \E j \in Transform :
       \/ ComeDue(j) \/ ExpireLease(j) \/ MissExtensions(j)
       \/ \E l \in Mapper : ClaimTransform(l, j)

TransformSpec == TransformInit /\ [][TransformNext]_transformVars

\* Lanes go on, delays and leases end.  Claims are made in the order in which jobs
\* came due, a job put back comes due later, and one that is left running does not
\* come again before its lease of 900 seconds ends, in which the lanes take the
\* others: none is passed over for ever.
TransformFairness ==
  /\ \A l \in Mapper : WF_transformVars(ProcessTransform(l))
  /\ \A j \in Transform :
       /\ WF_transformVars(ComeDue(j)) /\ WF_transformVars(ExpireLease(j))
       /\ SF_transformVars(\E l \in Mapper : ClaimTransform(l, j))

TransformFairSpec == TransformSpec /\ TransformFairness

-------------------------------------------------------------------------------
(* Properties.                                                             *)

\* A stream is queryable only with every page of its recent phase mapped and its
\* masters ready, and is so as soon as the last page is: of two lanes that
\* complete its last two pages at once, one notices (the row lock of
\* complete_canonical_transform_job).
CoverageIsExact ==
  \A s \in Stream :
    LET mapped == \A j \in RecentOf(s) : transform[j].status = "succeeded" IN
    /\ coverage[s] = "queryable" => mapped /\ \A m \in Master[s] : ReadyStream(m)
    /\ RecentOf(s) # {} /\ mapped => coverage[s] # "pending"

\* A page that has nothing to wait for and nothing wrong with it.
Mappable(j) == layout.needs[j] = {} /\ j \notin layout.strange

\* Neither a page's replay of its dependants, however long, nor a claim that
\* succeeds costs an attempt: what such a page has spent are real troubles (0064:
\* continuation work is "neither a failure nor a fresh retry attempt").
BudgetIsSpentOnFailures ==
  \A j \in Transform :
    Mappable(j) =>
      transform[j].tries <=
        troubled + (IF transform[j].status \in {"running", "succeeded"} THEN 1 ELSE 0)

\* At last every job whose masters are ready is done or given up, save the strange
\* ones, whose failure the queue refuses: also when pages wait for a record that is
\* nowhere, or on a strange page, and when a report is refused once; they do not
\* keep each other waiting (0079), and what stays running holds nobody up.
Settled(j) == transform[j].status \in {"succeeded", "failed"}
EveryTransformEnds ==
  <>[](\A j \in Transform \ layout.strange : MastersReady(j) => Settled(j))

-------------------------------------------------------------------------------
(* The inductive invariant.                                                 *)

Done(j) == transform[j].status = "succeeded"
Committing(l) == mapper[l].at = "committing"

\* A completion that is not committed is of a job nobody else can have: its row is
\* locked.  Two of the same stream's recent phase wait for each other.
CommitsAreApart ==
  /\ \A l \in Mapper : mapper[l].at # "idle" => mapper[l].job \in Transform
  /\ \A l \in Mapper : Committing(l) =>
       /\ transform[mapper[l].job].status = "running"
       /\ transform[mapper[l].job].holder \in {l, NoMapper}
  /\ \A l, k \in Mapper : Committing(l) /\ Committing(k) /\ l # k =>
       /\ mapper[l].job # mapper[k].job
       /\ mapper[l].job \in Recent /\ mapper[k].job \in Recent =>
            StreamOf[mapper[l].job] # StreamOf[mapper[k].job]

\* What a completion has read still holds when it commits.
CommitsAreJust ==
  /\ \A l \in Mapper : mapper[l].at # "idle" => MastersReady(mapper[l].job)
  /\ \A l \in Mapper : Committing(l) =>
       LET j == mapper[l].job
           others == RecentOf(StreamOf[j]) \ {j}
       IN
       /\ mapper[l].grant = "queryable" => j \in Recent /\ \A i \in others : Done(i)
       /\ mapper[l].grant = "superseded" => j \in Final
       /\ mapper[l].grant = "none" /\ j \in Recent =>
            coverage[StreamOf[j]] # "pending" \/ \E i \in others : ~Done(i)

\* A claim that is not paid for by a trouble is at work.
AtWork(l, j) ==
  /\ mapper[l].job = j /\ transform[j].holder = l
  /\ mapper[l].at \in {"mapping", "replaying", "continuing", "completing", "committing"}

SpendingIsExplained ==
  \A j \in Transform :
    /\ transform[j].status = "running" => transform[j].tries > 0
    /\ Mappable(j) /\ transform[j].tries > troubled =>
         /\ transform[j].tries = troubled + 1
         /\ \/ transform[j].status = "succeeded"
            \/ transform[j].status = "running" /\ \E l \in Mapper : AtWork(l, j)

TransformInv ==
  TransformTypeOK /\ CommitsAreApart /\ CommitsAreJust /\ SpendingIsExplained /\ CoverageIsExact

-------------------------------------------------------------------------------
(* What the repository says and the code does not keep.                    *)

\* ADR-0027: when every required stream is queryable or superseded, a
\* reconciliation is requested, atomically with the last of them.
ReconciliationIsScheduled == (\A s \in RequiredStream : ReadyStream(s)) => reconciliation

\* ADR-0063 speaks of "the ordinary twelve-attempt failure budget": a page has no
\* more attempts than that, beside those that were interrupted, whatever it fails of.
AttemptsAreBounded == \A j \in Transform : transform[j].tries <= MaxTries + troubled
===============================================================================
