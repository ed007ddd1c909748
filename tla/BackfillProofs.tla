----------------------------- MODULE BackfillProofs -----------------------------
(***************************************************************************)
(* Proofs about BackfillLifecycle, for any number of phases, pages, lanes, *)
(* replays and faults.                                                     *)
(*                                                                         *)
(* BackfillInv is inductive.  Three facts only grow: published jobs stay   *)
(* published, landed pages stay landed, succeeded phases stay succeeded;   *)
(* what a lane has seen to when it reaches a place therefore still holds   *)
(* when it acts, although nothing stops other lanes in between.            *)
(***************************************************************************)
EXTENDS BackfillLifecycle, TLAPS

\* The steps of Next, each with its parameters: proofs split on these.
LEMMA NextCases ==
  ASSUME Next
  PROVE  \/ \E l \in Lane, j \in Job : Claim(l, j)
         \/ \E l \in Lane, j \in Job : Proceed(l, j)
         \/ \E l \in Lane, j \in Job : YieldToRecent(l, j)
         \/ \E l \in Lane, j \in Job, error \in {"retry", "fatal", "limited"} : Break(l, j, error)
         \/ \E j \in Job : Lapse(j)
         \/ \E l \in Lane : Crash(l)
         \/ FanOut \/ FanOutMark \/ FanOutBreaks
         \/ \E p \in Phase : Recover(p)
BY DEF Next, Disturbed

-------------------------------------------------------------------------------
(* Lanes. *)

\* A lane at a place of process() has a walk.
LEMMA LaneAt ==
  ASSUME TypeOK, NEW l \in Lane, NEW j \in Job, NEW place \in Place, At(l, place, j)
  PROVE  lane[l] \in Walk /\ lane[l] # Idle
BY DEF TypeOK, At, Place, Idle, Walk

\* Moving a lane to another place keeps the other fields and the other lanes.
LEMMA GotoEffect ==
  ASSUME lane \in [Lane -> Walk \cup {Idle}], NEW l \in Lane, lane[l] \in Walk,
         NEW place \in Place, Goto(l, place)
  PROVE  /\ lane' \in [Lane -> Walk \cup {Idle}]
         /\ lane'[l] \in Walk /\ lane'[l].at = place
         /\ lane'[l].job = lane[l].job /\ lane'[l].page = lane[l].page
         /\ lane'[l].walked = lane[l].walked /\ lane'[l].target = lane[l].target
         /\ \A m \in Lane : m # l => lane'[m] = lane[m]
<1>1. lane' = [lane EXCEPT ![l] = [lane[l] EXCEPT !.at = place]]
  BY DEF Goto
<1>2. [lane[l] EXCEPT !.at = place] \in Walk
  BY DEF Walk
<1> QED BY <1>1, <1>2

\* Stop leaves the other lanes alone.
LEMMA StopEffect ==
  ASSUME lane \in [Lane -> Walk \cup {Idle}], NEW l \in Lane, Stop(l)
  PROVE  /\ lane' \in [Lane -> Walk \cup {Idle}]
         /\ lane'[l] = Idle
         /\ \A m \in Lane : m # l => lane'[m] = lane[m]
BY DEF Stop

-------------------------------------------------------------------------------
(* Which steps touch which variables. *)

\* The actions that change the queue.
LEMMA QueueFrame ==
  ASSUME Next
  PROVE  \/ UNCHANGED queueVars
         \/ \E l \in Lane, j \in Job : Claim(l, j)
         \/ \E l \in Lane, j \in Job : PublishSuccessor(l, j)
         \/ \E l \in Lane, j \in Job : Acknowledge(l, j)
         \/ \E l \in Lane, j \in Job : RetryJob(l, j)
         \/ \E l \in Lane, j \in Job : FailJob(l, j)
         \/ \E l \in Lane, j \in Job : Defer(l, j)
         \/ \E j \in Job : Lapse(j)
         \/ \E l \in Lane : Crash(l)
         \/ FanOut
         \/ \E p \in Phase : Recover(p)
<1>1. CASE \E l \in Lane, j \in Job : Proceed(l, j)
  BY <1>1 DEF Proceed, Begin, BeginStale, BeginAgain, Resume, Land, LandFenced, CommitPage,
       NothingToPublish, MarkSuccessor, MarkStale, CloseRun, CloseStale, MarkRunRetried,
       MarkRunFailed, MarkRunLimited, LoseClaim
<1>2. CASE ~\E l \in Lane, j \in Job : Proceed(l, j)
  BY <1>2, NextCases DEF YieldToRecent, Break, FanOutMark, FanOutBreaks
<1> QED BY <1>1, <1>2

\* The actions that change the phase rows.
LEMMA PhaseFrame ==
  ASSUME Next
  PROVE  \/ UNCHANGED phaseVars
         \/ \E l \in Lane, j \in Job : Begin(l, j)
         \/ \E l \in Lane, j \in Job : CommitPage(l, j)
         \/ \E l \in Lane, j \in Job : MarkSuccessor(l, j)
         \/ \E l \in Lane, j \in Job : MarkRunFailed(l, j)
         \/ FanOutMark
         \/ \E p \in Phase : Recover(p)
<1>1. CASE \E l \in Lane, j \in Job : Proceed(l, j)
  BY <1>1 DEF Proceed, BeginStale, BeginAgain, Resume, Land, LandFenced,
       PublishSuccessor, NothingToPublish, MarkStale, CloseRun, CloseStale, Acknowledge,
       RetryJob, FailJob, MarkRunRetried, MarkRunLimited, Defer, LoseClaim
<1>2. CASE ~\E l \in Lane, j \in Job : Proceed(l, j)
  BY <1>2, NextCases DEF Claim, YieldToRecent, Break, Lapse, Crash, FanOut, FanOutBreaks
<1> QED BY <1>1, <1>2

\* The actions that change the status or the cursor of a run.
LEMMA RunFrame ==
  ASSUME Next
  PROVE  \/ UNCHANGED <<run, cursor>>
         \/ \E l \in Lane, j \in Job : Begin(l, j)
         \/ \E l \in Lane, j \in Job : CommitPage(l, j)
         \/ \E l \in Lane, j \in Job : CloseRun(l, j)
         \/ \E l \in Lane, j \in Job : MarkRunRetried(l, j)
         \/ \E l \in Lane, j \in Job : MarkRunFailed(l, j)
         \/ \E l \in Lane, j \in Job : MarkRunLimited(l, j)
<1>1. CASE \E l \in Lane, j \in Job : Proceed(l, j)
  BY <1>1 DEF Proceed, BeginStale, BeginAgain, Resume, Land, LandFenced, runVars,
       PublishSuccessor, NothingToPublish, MarkSuccessor, MarkStale, CloseStale, Acknowledge,
       RetryJob, FailJob, Defer, LoseClaim
<1>2. CASE ~\E l \in Lane, j \in Job : Proceed(l, j)
  BY <1>2, NextCases DEF Claim, YieldToRecent, Break, Lapse, Crash, FanOut, FanOutMark,
       FanOutBreaks, Recover, runVars
<1> QED BY <1>1, <1>2

\* The actions that change the stored pages or backfill_complete.
LEMMA DataFrame ==
  ASSUME Next
  PROVE  \/ UNCHANGED dataVars
         \/ \E l \in Lane, j \in Job : Land(l, j)
         \/ \E l \in Lane, j \in Job : CommitPage(l, j)
<1>1. CASE \E l \in Lane, j \in Job : Proceed(l, j)
  BY <1>1 DEF Proceed, Begin, BeginStale, BeginAgain, Resume, LandFenced,
       PublishSuccessor, NothingToPublish, MarkSuccessor, MarkStale, CloseRun, CloseStale,
       Acknowledge, RetryJob, FailJob, MarkRunRetried, MarkRunFailed, MarkRunLimited, Defer,
       LoseClaim
<1>2. CASE ~\E l \in Lane, j \in Job : Proceed(l, j)
  BY <1>2, NextCases DEF Claim, YieldToRecent, Break, Lapse, Crash, FanOut, FanOutMark,
       FanOutBreaks, Recover
<1> QED BY <1>1, <1>2

\* Places a lane reaches without having anything to show for it.
Quiet == {"defer", "ack", "limited", "retry", "fatal", "retried", "abandoned"}

\* The actions that change where a lane is.
LEMMA LaneFrame ==
  ASSUME Next
  PROVE  \/ UNCHANGED lane
         \/ \E l \in Lane, j \in Job : Claim(l, j)
         \/ \E l \in Lane, j \in Job : Begin(l, j)
         \/ \E l \in Lane, j \in Job : Resume(l, j)
         \/ \E l \in Lane, j \in Job : Land(l, j)
         \/ \E l \in Lane, j \in Job : CommitPage(l, j)
         \/ \E l \in Lane, j \in Job : PublishSuccessor(l, j)
         \/ \E l \in Lane, j \in Job : NothingToPublish(l, j)
         \/ \E l \in Lane, j \in Job : MarkSuccessor(l, j)
         \/ \E l \in Lane : Stop(l)
         \/ \E l \in Lane, place \in Quiet : lane[l].at \in Place /\ Goto(l, place)
<1>1. CASE \E l \in Lane, j \in Job : Proceed(l, j)
  BY <1>1 DEF Proceed, BeginStale, BeginAgain, LandFenced, MarkStale, CloseRun, CloseStale,
       Acknowledge, RetryJob, FailJob, MarkRunRetried, MarkRunFailed, MarkRunLimited, Defer,
       LoseClaim, At, Place, Quiet
<1>2. CASE ~\E l \in Lane, j \in Job : Proceed(l, j)
  BY <1>2, NextCases DEF YieldToRecent, Break, Lapse, Crash, FanOut, FanOutMark,
       FanOutBreaks, Recover, At, Place, Quiet
<1> QED BY <1>1, <1>2

\* The fault count and the coordinator, whose mark follows its publication.
LEMMA OtherFrame ==
  ASSUME TypeOK, Next
  PROVE  /\ faults' \in 0 .. MaxFaults
         /\ coordinator' \in {"start", "mark", "done"}
         /\ coordinator' = "mark" => coordinator = "mark" \/ FanOut
<1>1. CASE \E l \in Lane, j \in Job : Proceed(l, j)
  BY <1>1 DEF TypeOK, Proceed, Begin, BeginStale, BeginAgain, Resume, Land, LandFenced,
       CommitPage, PublishSuccessor, NothingToPublish, MarkSuccessor, MarkStale, CloseRun,
       CloseStale, Acknowledge, RetryJob, FailJob, MarkRunRetried, MarkRunFailed,
       MarkRunLimited, Defer, LoseClaim
<1>2. CASE ~\E l \in Lane, j \in Job : Proceed(l, j)
  BY <1>2, NextCases, BackfillAssumption DEF TypeOK, Claim, YieldToRecent, Break, Lapse, Crash,
       FanOut, FanOutMark, FanOutBreaks, Recover, Interfere
<1> QED BY <1>1, <1>2

-------------------------------------------------------------------------------
(* Types. *)

\* The parts of a job.
LEMMA JobFacts ==
  ASSUME NEW j \in Job
  PROVE  /\ j.phase \in Phase /\ j.replay \in Replay /\ j.from \in Page
         /\ j.phase \in Nat /\ j.from \in Nat
         /\ j # NoJob
BY BackfillAssumption DEF Job, Phase, Page

\* The first job of a phase is a job.
LEMMA FirstJobType ==
  ASSUME NEW p \in Phase, NEW r \in Replay
  PROVE  /\ FirstJob(p, r) \in Job
         /\ FirstJob(p, r).phase = p /\ FirstJob(p, r).replay = r /\ FirstJob(p, r).from = 0
BY BackfillAssumption DEF FirstJob, Job, Page

\* The fan-out publishes the first job of the plan.
LEMMA PlanStart == FirstJob(1, 1) \in Job /\ 1 \in Phase /\ 1 \in Replay
BY FirstJobType, BackfillAssumption DEF Phase, Replay

\* Recovery publishes a job of an admissible replay.
LEMMA RecoverJob ==
  ASSUME TypeOK, NEW p \in Phase, Recover(p)
  PROVE  NextReplay(p) \in Replay /\ FirstJob(p, NextReplay(p)) \in Job
<1>1. replay[p] \in Replay /\ NextReplay(p) <= MaxReplay
  BY DEF TypeOK, Recover
<1>2. NextReplay(p) \in Replay
  BY <1>1, BackfillAssumption DEF NextReplay, Replay
<1> QED BY <1>2, FirstJobType

\* What a lane publishes is a job.
LEMMA SuccessorType ==
  ASSUME TypeOK, NEW j \in Job, NEW page \in Page
  PROVE  /\ Successor(j, page) \in Job \cup {NoJob}
         /\ HasMore(page) => /\ page + 1 \in Page
                             /\ Successor(j, page) = [j EXCEPT !.from = page + 1]
                             /\ [j EXCEPT !.from = page + 1] \in Job
         /\ ~HasMore(page) /\ j.phase < LastPhase =>
              /\ j.phase + 1 \in Phase
              /\ replay[j.phase + 1] \in Replay
              /\ Successor(j, page) = FirstJob(j.phase + 1, replay[j.phase + 1])
<1>1. ASSUME HasMore(page)
      PROVE  page + 1 \in Page /\ [j EXCEPT !.from = page + 1] \in Job
  BY <1>1, BackfillAssumption DEF HasMore, Page, Job
<1>2. ASSUME j.phase < LastPhase
      PROVE  j.phase + 1 \in Phase /\ replay[j.phase + 1] \in Replay
  <2>1. j.phase + 1 \in Phase
    BY <1>2, JobFacts, BackfillAssumption DEF Phase
  <2> QED BY <2>1 DEF TypeOK
<1> QED BY <1>1, <1>2, FirstJobType DEF Successor

\* A step keeps the types of the queue, and what was published stays published.
LEMMA QueueTypes ==
  ASSUME TypeOK, Next
  PROVE  /\ Work!WorkTypeOK'
         /\ reads' \in [Job -> Nat]
         /\ active' \subseteq Job
         /\ \A j \in Job : stage[j] # "absent" => stage'[j] # "absent"
<1> DEFINE Goal == /\ Work!WorkTypeOK'
                   /\ reads' \in [Job -> Nat]
                   /\ active' \subseteq Job
                   /\ \A j \in Job : stage[j] # "absent" => stage'[j] # "absent"
<1> SUFFICES Goal
  OBVIOUS
<1> USE DEF TypeOK, Work!WorkTypeOK
<1>1. ASSUME UNCHANGED queueVars PROVE Goal
  BY <1>1 DEF queueVars
<1>2. ASSUME NEW l \in Lane, NEW j \in Job, Claim(l, j) PROVE Goal
  BY <1>2 DEF Claim, Work!Grant
<1>3. ASSUME NEW j \in Job, Publish(j), UNCHANGED <<reads, active>> PROVE Goal
  BY <1>3 DEF Publish, Work!Submit
<1>4. ASSUME NEW j \in Job, Work!Revoke(j), reads' = reads, active' \subseteq active PROVE Goal
  BY <1>4 DEF Work!Revoke
<1>5. ASSUME NEW l \in Lane, NEW j \in Job, PublishSuccessor(l, j) PROVE Goal
  <2>1. lane[l].page \in Page
    BY <1>5, LaneAt DEF PublishSuccessor, Place, Walk
  <2>2. Successor(j, lane[l].page) \in Job
    BY <1>5, <2>1, SuccessorType DEF PublishSuccessor
  <2> QED BY <1>3, <1>5, <2>2 DEF PublishSuccessor
<1>6. ASSUME NEW l \in Lane, NEW j \in Job, Acknowledge(l, j) PROVE Goal
  BY <1>6 DEF Acknowledge, Work!Finish
<1>7. ASSUME NEW l \in Lane, NEW j \in Job, FailJob(l, j) PROVE Goal
  BY <1>7 DEF FailJob, Work!Abandon
<1>8. ASSUME NEW l \in Lane, NEW j \in Job, RetryJob(l, j) \/ Defer(l, j) PROVE Goal
  <2> HIDE DEF TypeOK, Work!WorkTypeOK, Goal
  <2>1. Work!Revoke(j) /\ reads' = reads /\ active' \subseteq active
    BY <1>8 DEF RetryJob, Defer
  <2> QED BY <1>4, <2>1
<1>9. ASSUME NEW j \in Job, Lapse(j) PROVE Goal
  BY <1>4, <1>9 DEF Lapse
<1>10. ASSUME NEW l \in Lane, Crash(l) PROVE Goal
  <2>1. lane[l].job \in Job
    BY <1>10 DEF Crash, Walk
  <2>2. CASE Work!Revoke(lane[l].job)
    BY <1>4, <1>10, <2>1, <2>2 DEF Crash
  <2>3. CASE UNCHANGED <<stage, holder, envelopes>>
    BY <1>10, <2>3 DEF Crash
  <2> QED BY <1>10, <2>2, <2>3 DEF Crash
<1>11. ASSUME FanOut PROVE Goal
  <2> HIDE DEF TypeOK, Work!WorkTypeOK, Goal
  <2> QED BY <1>3, <1>11, PlanStart DEF FanOut
<1>12. ASSUME NEW p \in Phase, Recover(p) PROVE Goal
  <2> HIDE DEF TypeOK, Work!WorkTypeOK, Goal
  <2> QED BY <1>3, <1>12, RecoverJob DEF Recover
<1> HIDE DEF TypeOK, Work!WorkTypeOK, Goal
<1> QED BY <1>1, <1>2, <1>5, <1>6, <1>7, <1>8, <1>9, <1>10, <1>11, <1>12, QueueFrame

\* Phase rows keep their types, and what ProgressIsFinal says of a step.
LEMMA PhaseStep ==
  ASSUME TypeOK, LanesOnTrack, Next
  PROVE  /\ phase' \in [Phase -> PhaseStatus]
         /\ replay' \in [Phase -> Replay]
         /\ lastJob' \in [Phase -> Job \cup {NoJob}]
         /\ \A p \in Phase :
              /\ phase[p] = "succeeded" => phase'[p] = "succeeded" /\ lastJob'[p] = lastJob[p]
              /\ replay'[p] >= replay[p]
<1> DEFINE Goal == /\ phase' \in [Phase -> PhaseStatus]
                   /\ replay' \in [Phase -> Replay]
                   /\ lastJob' \in [Phase -> Job \cup {NoJob}]
                   /\ \A p \in Phase :
                        /\ phase[p] = "succeeded" =>
                             phase'[p] = "succeeded" /\ lastJob'[p] = lastJob[p]
                        /\ replay'[p] >= replay[p]
<1> SUFFICES Goal
  OBVIOUS
<1>1. /\ phase \in [Phase -> PhaseStatus]
      /\ replay \in [Phase -> Replay]
      /\ lastJob \in [Phase -> Job \cup {NoJob}]
      /\ \A p \in Phase : replay[p] \in Nat
  BY BackfillAssumption DEF TypeOK, Replay
<1>2. ASSUME UNCHANGED phaseVars PROVE Goal
  BY <1>1, <1>2 DEF phaseVars
<1>3. ASSUME NEW j \in Job, phase[j.phase] # "succeeded", replay[j.phase] <= j.replay, MarkQueued(j)
      PROVE  Goal
  BY <1>1, <1>3, JobFacts DEF MarkQueued, PhaseStatus
<1>4. ASSUME NEW p \in Phase, NEW status \in PhaseStatus, phase[p] # "succeeded",
             phase' = [phase EXCEPT ![p] = status], UNCHANGED <<replay, lastJob>>
      PROVE  Goal
  BY <1>1, <1>4
<1>5. ASSUME NEW l \in Lane, NEW j \in Job, Begin(l, j) PROVE Goal
  BY <1>4, <1>5, JobFacts DEF Begin, Current, PhaseStatus
<1>6. ASSUME NEW l \in Lane, NEW j \in Job, CommitPage(l, j) PROVE Goal
  <2>1. CASE phase' = phase
    BY <1>2, <1>6, <2>1 DEF CommitPage, phaseVars
  <2>2. CASE Current(j) /\ phase' = [phase EXCEPT ![j.phase] = "succeeded"]
    BY <1>4, <1>6, <2>2, JobFacts DEF CommitPage, Current, PhaseStatus
  <2> QED BY <1>6, <2>1, <2>2 DEF CommitPage, CommitRows
<1>7. ASSUME NEW l \in Lane, NEW j \in Job, MarkSuccessor(l, j) PROVE Goal
  <2>1. lane[l].target \in Job
    BY <1>7, LaneAt DEF MarkSuccessor, Place, LanesOnTrack, OnTrack, At
  <2> QED BY <1>3, <1>7, <2>1 DEF MarkSuccessor, Markable
<1>8. ASSUME NEW l \in Lane, NEW j \in Job, MarkRunFailed(l, j) PROVE Goal
  <2>1. CASE phase' = phase
    BY <1>2, <1>8, <2>1 DEF MarkRunFailed, phaseVars
  <2>2. CASE Current(j) /\ phase' = [phase EXCEPT ![j.phase] = "failed"]
    BY <1>4, <1>8, <2>2, JobFacts DEF MarkRunFailed, Current, PhaseStatus
  <2> QED BY <1>8, <2>1, <2>2 DEF MarkRunFailed
<1>9. ASSUME FanOutMark PROVE Goal
  BY <1>2, <1>3, <1>9, PlanStart DEF FanOutMark, Markable
<1>10. ASSUME NEW p \in Phase, Recover(p) PROVE Goal
  <2> DEFINE j == FirstJob(p, NextReplay(p))
  <2>1. j \in Job /\ j.phase = p /\ j.replay = NextReplay(p)
    BY <1>10, RecoverJob, FirstJobType
  <2>2. phase[p] # "succeeded" /\ MarkQueued(j)
    BY <1>10 DEF Recover, Recoverable
  <2>3. replay[p] <= NextReplay(p)
    BY <1>1 DEF NextReplay
  <2> HIDE DEF j
  <2> QED BY <1>3, <2>1, <2>2, <2>3
<1> HIDE DEF Goal
<1> QED BY <1>2, <1>5, <1>6, <1>7, <1>8, <1>9, <1>10, PhaseFrame

\* Run rows keep their types; once a run exists its job was published.
LEMMA RunTypes ==
  ASSUME TypeOK, Next
  PROVE  /\ run' \in [Job -> RunStatus]
         /\ cursor' \in [Job -> Page]
<1> DEFINE Goal == run' \in [Job -> RunStatus] /\ cursor' \in [Job -> Page]
<1> SUFFICES Goal
  OBVIOUS
<1>1. run \in [Job -> RunStatus] /\ cursor \in [Job -> Page]
  BY DEF TypeOK
<1>2. ASSUME UNCHANGED <<run, cursor>> PROVE Goal
  BY <1>1, <1>2
<1>3. ASSUME NEW j \in Job, NEW status \in RunStatus, run' = [run EXCEPT ![j] = status],
             UNCHANGED cursor
      PROVE  Goal
  BY <1>1, <1>3
<1>4. ASSUME NEW l \in Lane, NEW j \in Job, Begin(l, j) \/ CloseRun(l, j) PROVE Goal
  BY <1>3, <1>4 DEF Begin, CloseRun, RunStatus
<1>5. ASSUME NEW l \in Lane, NEW j \in Job, NEW status \in RunStatus, RunFailed(l, j, status),
             UNCHANGED cursor
      PROVE  Goal
  BY <1>2, <1>3, <1>5 DEF RunFailed
<1>6. ASSUME NEW l \in Lane, NEW j \in Job,
             MarkRunRetried(l, j) \/ MarkRunFailed(l, j) \/ MarkRunLimited(l, j)
      PROVE  Goal
  BY <1>5, <1>6 DEF MarkRunRetried, MarkRunFailed, MarkRunLimited, RunStatus
<1>7. ASSUME NEW l \in Lane, NEW j \in Job, CommitPage(l, j) PROVE Goal
  <2>1. lane[l].page \in Page
    BY <1>7, LaneAt DEF CommitPage, Place, Walk
  <2>2. HasMore(lane[l].page) => lane[l].page + 1 \in Page
    BY <2>1, SuccessorType
  <2> QED BY <1>1, <1>7, <2>1, <2>2 DEF CommitPage, CommitRows, RunStatus
<1> HIDE DEF Goal
<1> QED BY <1>2, <1>4, <1>6, <1>7, RunFrame

\* A step keeps the type of owner.
LEMMA OwnerType ==
  ASSUME TypeOK, Next
  PROVE  owner' \in [Job -> Lane \cup {NoLane}]
<1>1. owner \in [Job -> Lane \cup {NoLane}]
  BY DEF TypeOK
<1>2. CASE \E l \in Lane, j \in Job : Proceed(l, j)
  BY <1>1, <1>2 DEF Proceed, Begin, BeginStale, BeginAgain, Resume, Land, LandFenced,
       CommitPage, PublishSuccessor, NothingToPublish, MarkSuccessor, MarkStale, CloseRun,
       CloseStale, Acknowledge, RetryJob, FailJob, MarkRunRetried, MarkRunFailed,
       MarkRunLimited, Defer, LoseClaim, runVars
<1>3. CASE ~\E l \in Lane, j \in Job : Proceed(l, j)
  BY <1>1, <1>3, NextCases DEF Claim, YieldToRecent, Break, Lapse, Crash, FanOut, FanOutMark,
       FanOutBreaks, Recover, runVars
<1> QED BY <1>2, <1>3

\* A step keeps the types of the stored data, and landed pages stay landed.
LEMMA DataStep ==
  ASSUME TypeOK, Next
  PROVE  /\ landed' \in [Phase -> SUBSET Page]
         /\ complete' \in BOOLEAN
         /\ \A p \in Phase : landed[p] \subseteq landed'[p]
<1> DEFINE Goal == /\ landed' \in [Phase -> SUBSET Page]
                   /\ complete' \in BOOLEAN
                   /\ \A p \in Phase : landed[p] \subseteq landed'[p]
<1> SUFFICES Goal
  OBVIOUS
<1>1. landed \in [Phase -> SUBSET Page] /\ complete \in BOOLEAN
  BY DEF TypeOK
<1>2. CASE UNCHANGED dataVars
  BY <1>1, <1>2 DEF dataVars
<1>3. ASSUME NEW l \in Lane, NEW j \in Job, Land(l, j) PROVE Goal
  <2>1. lane[l].page \in Page /\ j.phase \in Phase
    BY <1>3, LaneAt, JobFacts DEF Land, Place, Walk
  <2>2. landed' = [landed EXCEPT ![j.phase] = @ \cup {lane[l].page}] /\ complete' = complete
    BY <1>3 DEF Land
  <2> QED BY <1>1, <2>1, <2>2
<1>4. ASSUME NEW l \in Lane, NEW j \in Job, CommitPage(l, j) PROVE Goal
  BY <1>1, <1>4 DEF CommitPage, CommitRows
<1> QED BY <1>2, <1>3, <1>4, DataFrame

\* A moved lane has a well-formed record, the other lanes keep theirs.
LEMMA LaneTypes ==
  ASSUME TypeOK, Next
  PROVE  lane' \in [Lane -> Walk \cup {Idle}]
<1> DEFINE Goal == lane' \in [Lane -> Walk \cup {Idle}]
<1> SUFFICES Goal
  OBVIOUS
<1>1. lane \in [Lane -> Walk \cup {Idle}]
  BY DEF TypeOK
<1>2. ASSUME NEW l \in Lane, NEW w \in Walk, lane' = [lane EXCEPT ![l] = w] PROVE Goal
  BY <1>1, <1>2
<1>3. ASSUME NEW l \in Lane, lane[l].at \in Place, NEW place \in Place, Goto(l, place)
      PROVE  Goal
  <2>1. lane[l] \in Walk
    BY <1>1, <1>3 DEF Idle, Place
  <2> QED BY <1>1, <1>3, <2>1, GotoEffect
<1>4. ASSUME NEW l \in Lane, NEW j \in Job, Claim(l, j) PROVE Goal
  <2>1. [at |-> "begin", job |-> j, page |-> j.from, walked |-> 1, target |-> NoJob,
         redelivered |-> reads[j] > 0] \in Walk
    BY JobFacts, BackfillAssumption DEF Walk, Place
  <2> QED BY <1>2, <1>4, <2>1 DEF Claim
<1>5. ASSUME NEW l \in Lane, NEW j \in Job,
             Begin(l, j) \/ Land(l, j) \/ NothingToPublish(l, j) \/ MarkSuccessor(l, j)
      PROVE  Goal
  BY <1>3, <1>5 DEF Begin, Land, NothingToPublish, MarkSuccessor, At, Place
<1>6. ASSUME NEW l \in Lane, NEW j \in Job, Resume(l, j) PROVE Goal
  <2> DEFINE start == IF lane[l].redelivered /\ run[j] = "running" THEN cursor[j] ELSE j.from
  <2>1. start \in Page /\ lane[l] \in Walk
    BY <1>6, LaneAt, JobFacts DEF TypeOK, Resume, Place
  <2>2. lane' = [lane EXCEPT ![l] = [lane[l] EXCEPT !.at = "land", !.page = start]]
    BY <1>6 DEF Resume
  <2> HIDE DEF start
  <2>3. [lane[l] EXCEPT !.at = "land", !.page = start] \in Walk
    BY <2>1 DEF Walk, Place
  <2> QED BY <1>2, <2>2, <2>3
<1>7. ASSUME NEW l \in Lane, NEW j \in Job, CommitPage(l, j) PROVE Goal
  <2> DEFINE w == lane[l]
  <2>1. w \in Walk /\ w.page \in Page
    BY <1>7, LaneAt DEF CommitPage, Place, Walk
  <2>2. CASE HasMore(w.page) /\ w.walked < PagesPerClaim
    <3> DEFINE onward == [w EXCEPT !.at = "land", !.page = w.page + 1, !.walked = w.walked + 1]
    <3>1. lane' = [lane EXCEPT ![l] = onward]
      BY <1>7, <2>2 DEF CommitPage
    <3>2. w.page + 1 \in Page
      BY <2>1, <2>2, SuccessorType
    <3>3. w.walked + 1 \in 1 .. PagesPerClaim
      BY <2>1, <2>2, BackfillAssumption DEF Walk
    <3>4. onward \in Walk
      BY <2>1, <3>2, <3>3 DEF Walk, Place
    <3> QED BY <1>2, <3>1, <3>4
  <2>3. CASE ~(HasMore(w.page) /\ w.walked < PagesPerClaim)
    BY <1>3, <1>7, <2>1, <2>3 DEF CommitPage, Place, Walk
  <2> QED BY <2>2, <2>3
<1>8. ASSUME NEW l \in Lane, NEW j \in Job, PublishSuccessor(l, j) PROVE Goal
  <2> DEFINE next == Successor(j, lane[l].page)
  <2>1. lane[l] \in Walk /\ next \in Job
    BY <1>8, LaneAt, SuccessorType DEF PublishSuccessor, Place, Walk
  <2>2. lane' = [lane EXCEPT ![l] = [lane[l] EXCEPT !.at = "mark", !.target = next]]
    BY <1>8 DEF PublishSuccessor
  <2> HIDE DEF next
  <2>3. [lane[l] EXCEPT !.at = "mark", !.target = next] \in Walk
    BY <2>1 DEF Walk, Place
  <2> QED BY <1>2, <2>2, <2>3
<1>9. ASSUME NEW l \in Lane, Stop(l) PROVE Goal
  BY <1>1, <1>9, StopEffect
<1>10. ASSUME NEW l \in Lane, lane[l].at \in Place, NEW place \in Quiet, Goto(l, place)
       PROVE  Goal
  BY <1>3, <1>10 DEF Quiet, Place
<1> HIDE DEF Goal
<1>11. CASE UNCHANGED lane
  BY <1>1, <1>11 DEF Goal
<1> QED BY <1>4, <1>5, <1>6, <1>7, <1>8, <1>9, <1>10, <1>11, LaneFrame

\* TypeOK is preserved; a marked successor is a job because lanes are on track.
LEMMA TypeStep ==
  ASSUME TypeOK, LanesOnTrack, Next
  PROVE  TypeOK'
<1>1. Work!WorkTypeOK' /\ reads' \in [Job -> Nat] /\ active' \subseteq Job
  BY QueueTypes
<1> QED BY <1>1, PhaseStep, RunTypes, OwnerType, DataStep, LaneTypes, OtherFrame DEF TypeOK

-------------------------------------------------------------------------------
(* What only grows, and what follows from it. *)

\* The three facts that only grow: published jobs, landed pages, succeeded phases.
LEMMA Growth ==
  ASSUME BackfillInv, Next
  PROVE  /\ TypeOK'
         /\ \A j \in Job : stage[j] # "absent" => stage'[j] # "absent"
         /\ \A p \in Phase : landed[p] \subseteq landed'[p]
         /\ \A p \in Phase : landed[p] = Page => landed'[p] = Page
         /\ \A p \in Phase : phase[p] = "succeeded" => phase'[p] = "succeeded"
<1>1. TypeOK /\ LanesOnTrack
  BY DEF BackfillInv
<1>2. \A p \in Phase : landed[p] \subseteq landed'[p] /\ landed'[p] \subseteq Page
  BY <1>1, DataStep
<1> QED BY <1>1, <1>2, TypeStep, QueueTypes, PhaseStep

\* Once the earlier phases are done they stay done.
LEMMA EarlierStays ==
  ASSUME BackfillInv, Next, NEW p \in Phase, EarlierDone(p)
  PROVE  EarlierDone(p)'
BY Growth DEF EarlierDone

\* Once the work of a job goes on elsewhere it stays so.
LEMMA WorkStays ==
  ASSUME BackfillInv, Next, NEW j \in Job, WorkGoesOn(j)
  PROVE  WorkGoesOn(j)'
<1>1. CASE \E page \in Page : page > j.from /\ stage[[j EXCEPT !.from = page]] # "absent"
  <2>1. \A page \in Page : [j EXCEPT !.from = page] \in Job
    BY DEF Job
  <2> QED BY <1>1, <2>1, Growth DEF WorkGoesOn
<1>2. CASE /\ landed[j.phase] = Page
           /\ j.phase = LastPhase \/ \E r \in Replay : stage[FirstJob(j.phase + 1, r)] # "absent"
  <2>1. landed'[j.phase] = Page
    BY <1>2, Growth, JobFacts
  <2>2. CASE j.phase = LastPhase
    BY <2>1, <2>2 DEF WorkGoesOn
  <2>3. CASE j.phase # LastPhase
    <3>1. j.phase + 1 \in Phase
      BY <2>3, JobFacts, BackfillAssumption DEF Phase
    <3>2. PICK r \in Replay : stage[FirstJob(j.phase + 1, r)] # "absent"
      BY <1>2, <2>3
    <3>3. stage'[FirstJob(j.phase + 1, r)] # "absent"
      BY <3>1, <3>2, FirstJobType, Growth
    <3> QED BY <2>1, <3>3 DEF WorkGoesOn
  <2> QED BY <2>2, <2>3
<1> QED BY <1>1, <1>2 DEF WorkGoesOn

\* The pages before a page, and when they are all there is.
LEMMA BeforeFacts ==
  ASSUME NEW page \in Page
  PROVE  /\ Before(0) = {}
         /\ Before(page + 1) = Before(page) \cup {page}
         /\ ~HasMore(page) => Before(page) \cup {page} = Page
BY BackfillAssumption DEF Before, Page, HasMore

\* A lane that left its last page has the whole phase in the store.
LEMMA LastPageLanded ==
  ASSUME BackfillInv, NEW l \in Lane, NEW j \in Job,
         At(l, "commit", j) \/ At(l, "publish", j), ~HasMore(lane[l].page)
  PROVE  landed[j.phase] = Page
<1>1. lane[l] # Idle /\ lane[l].page \in Page /\ lane[l].job = j
  BY LaneAt DEF BackfillInv, Place, Walk, At
<1>2. Before(lane[l].page) \cup {lane[l].page} \subseteq landed[j.phase]
  BY <1>1 DEF BackfillInv, NoPageSkipped, At
<1>3. landed[j.phase] \subseteq Page
  BY JobFacts DEF BackfillInv, TypeOK
<1> QED BY <1>1, <1>2, <1>3, BeforeFacts

\* How a phase comes to run or to succeed.
LEMMA PhaseMove ==
  ASSUME BackfillInv, Next, NEW p \in Phase, phase'[p] \in {"running", "succeeded"}
  PROVE  \/ phase[p] = phase'[p]
         \/ phase'[p] = "running" /\ \E l \in Lane, j \in Job : Begin(l, j) /\ j.phase = p
         \/ /\ phase'[p] = "succeeded"
            /\ \E l \in Lane, j \in Job :
                 CommitPage(l, j) /\ j.phase = p /\ ~HasMore(lane[l].page)
<1> DEFINE Goal == \/ phase[p] = phase'[p]
                   \/ /\ phase'[p] = "running"
                      /\ \E l \in Lane, j \in Job : Begin(l, j) /\ j.phase = p
                   \/ /\ phase'[p] = "succeeded"
                      /\ \E l \in Lane, j \in Job :
                           CommitPage(l, j) /\ j.phase = p /\ ~HasMore(lane[l].page)
<1> SUFFICES Goal
  OBVIOUS
<1>1. phase \in [Phase -> PhaseStatus]
  BY DEF BackfillInv, TypeOK
<1>2. CASE UNCHANGED phaseVars
  BY <1>2 DEF phaseVars
<1>3. ASSUME NEW j, MarkQueued(j) PROVE Goal
  BY <1>1, <1>3 DEF MarkQueued
<1>4. ASSUME NEW l \in Lane, NEW j \in Job, Begin(l, j) PROVE Goal
  BY <1>1, <1>4 DEF Begin
<1>5. ASSUME NEW l \in Lane, NEW j \in Job, CommitPage(l, j) PROVE Goal
  BY <1>1, <1>5 DEF CommitPage, CommitRows
<1>6. ASSUME NEW l \in Lane, NEW j \in Job, MarkRunFailed(l, j) PROVE Goal
  BY <1>1, <1>6 DEF MarkRunFailed
<1>7. ASSUME NEW l \in Lane, NEW j \in Job, MarkSuccessor(l, j) PROVE Goal
  BY <1>3, <1>7 DEF MarkSuccessor
<1>8. CASE FanOutMark
  BY <1>2, <1>3, <1>8 DEF FanOutMark
<1>9. ASSUME NEW q \in Phase, Recover(q) PROVE Goal
  BY <1>3, <1>9 DEF Recover
<1> HIDE DEF Goal
<1> QED BY <1>2, <1>4, <1>5, <1>6, <1>7, <1>8, <1>9, PhaseFrame

\* CoverageIsReal is preserved: the final page is committed by a lane that has landed
\* it and skipped none.
LEMMA CoverageStep ==
  ASSUME BackfillInv, Next
  PROVE  CoverageIsReal'
<1>1. ASSUME NEW p \in Phase, phase'[p] = "succeeded" PROVE landed'[p] = Page
  <2>1. CASE phase[p] = "succeeded"
    BY <2>1, Growth DEF BackfillInv, CoverageIsReal
  <2>2. ASSUME NEW l \in Lane, NEW j \in Job, CommitPage(l, j), j.phase = p,
               ~HasMore(lane[l].page)
        PROVE  landed'[p] = Page
    BY <2>2, LastPageLanded, Growth DEF CommitPage
  <2> QED BY <1>1, <2>1, <2>2, PhaseMove
<1>2. ASSUME complete', NEW p \in Phase PROVE landed'[p] = Page
  <2>1. CASE complete
    BY <2>1, Growth DEF BackfillInv, CoverageIsReal
  <2>2. ASSUME NEW l \in Lane, NEW j \in Job, CommitPage(l, j), j.phase = LastPhase,
               ~HasMore(lane[l].page)
        PROVE  landed'[p] = Page
    <3>1. EarlierDone(LastPhase) /\ landed[LastPhase] = Page
      BY <2>2, LastPageLanded, LaneAt
         DEF BackfillInv, CommitPage, LanesOnTrack, OnTrack, At, Place
    <3>2. p = LastPhase \/ p < LastPhase
      BY BackfillAssumption DEF Phase
    <3>3. landed[p] = Page
      BY <3>1, <3>2 DEF EarlierDone, BackfillInv, CoverageIsReal
    <3> QED BY <3>3, Growth
  <2>3. ASSUME NEW l \in Lane, NEW j \in Job, Land(l, j) PROVE complete' = complete
    BY <2>3 DEF Land
  <2> QED BY <1>2, <2>1, <2>2, <2>3, DataFrame DEF CommitPage, CommitRows, dataVars
<1> QED BY <1>1, <1>2 DEF CoverageIsReal

\* beginRun looks at one predecessor; with the phases in order that is all.
LEMMA BeginOrder ==
  ASSUME BackfillInv, NEW l \in Lane, NEW j \in Job, Begin(l, j)
  PROVE  EarlierDone(j.phase)
<1> SUFFICES ASSUME NEW q \in Phase, q < j.phase PROVE phase[q] = "succeeded"
  BY DEF EarlierDone
<1>1. j.phase - 1 \in Phase /\ (q = j.phase - 1 \/ q < j.phase - 1)
  BY JobFacts, BackfillAssumption DEF Phase
<1>2. phase[j.phase - 1] = "succeeded"
  BY <1>1 DEF Begin, PredecessorDone
<1>3. EarlierDone(j.phase - 1)
  BY <1>1, <1>2 DEF BackfillInv, PhasesInOrder
<1> QED BY <1>1, <1>2, <1>3 DEF EarlierDone

\* PhasesInOrder is preserved: a phase starts running in beginRun only, and a lane
\* that commits was let through it.
LEMMA OrderStep ==
  ASSUME BackfillInv, Next
  PROVE  PhasesInOrder'
<1> SUFFICES ASSUME NEW p \in Phase, phase'[p] \in {"running", "succeeded"}
             PROVE  EarlierDone(p)'
  BY DEF PhasesInOrder
<1>1. CASE phase[p] = phase'[p]
  BY <1>1, EarlierStays DEF BackfillInv, PhasesInOrder
<1>2. ASSUME NEW l \in Lane, NEW j \in Job, Begin(l, j), j.phase = p PROVE EarlierDone(p)'
  BY <1>2, BeginOrder, EarlierStays
<1>3. ASSUME NEW l \in Lane, NEW j \in Job, CommitPage(l, j), j.phase = p
      PROVE  EarlierDone(p)'
  <2>1. EarlierDone(p)
    BY <1>3, LaneAt DEF BackfillInv, CommitPage, LanesOnTrack, OnTrack, At, Place
  <2> QED BY <2>1, EarlierStays
<1> QED BY <1>1, <1>2, <1>3, PhaseMove

-------------------------------------------------------------------------------
(* Where a job, a run and a lane come from. *)

\* A job that was just published starts a phase, or goes on after a page its
\* publisher left.
LEMMA PublishMove ==
  ASSUME BackfillInv, Next, NEW j \in Job, stage'[j] # "absent"
  PROVE  \/ stage[j] # "absent"
         \/ j.from = 0
         \/ \E l \in Lane, i \in Job :
              /\ At(l, "publish", i) /\ HasMore(lane[l].page)
              /\ j = [i EXCEPT !.from = lane[l].page + 1]
<1> DEFINE Goal == \/ stage[j] # "absent"
                   \/ j.from = 0
                   \/ \E l \in Lane, i \in Job :
                        /\ At(l, "publish", i) /\ HasMore(lane[l].page)
                        /\ j = [i EXCEPT !.from = lane[l].page + 1]
<1> SUFFICES Goal
  OBVIOUS
<1>0. TypeOK /\ stage \in [Job -> {"absent", "pending", "done", "dead"}]
  BY DEF BackfillInv, TypeOK, Work!WorkTypeOK
<1>1. ASSUME NEW i \in Job, Publish(i) PROVE stage[j] # "absent" \/ j = i
  BY <1>0, <1>1 DEF Publish, Work!Submit
<1>2. ASSUME NEW i \in Job,
             Work!Revoke(i) \/ Work!Finish(i) \/ Work!Abandon(i) \/ \E l \in Lane : Work!Grant(i, l)
      PROVE  stage[j] # "absent"
  BY <1>0, <1>2 DEF Work!Revoke, Work!Finish, Work!Abandon, Work!Grant
<1>3. ASSUME UNCHANGED stage PROVE stage[j] # "absent"
  BY <1>3
<1>4. ASSUME NEW l \in Lane, NEW i \in Job, PublishSuccessor(l, i) PROVE Goal
  <2>1. lane[l].page \in Page /\ Publish(Successor(i, lane[l].page))
    BY <1>0, <1>4, LaneAt DEF PublishSuccessor, Place, Walk
  <2>2. Successor(i, lane[l].page) \in Job /\ At(l, "publish", i)
    BY <1>0, <1>4, <2>1, SuccessorType DEF PublishSuccessor
  <2>3. stage[j] # "absent" \/ j = Successor(i, lane[l].page)
    BY <1>1, <2>1, <2>2
  <2>4. CASE HasMore(lane[l].page)
    BY <2>2, <2>3, <2>4 DEF Successor
  <2>5. CASE ~HasMore(lane[l].page)
    <3>1. i.phase < LastPhase
      BY <2>2, <2>5, BackfillAssumption DEF Successor
    <3>2. /\ i.phase + 1 \in Phase /\ replay[i.phase + 1] \in Replay
          /\ Successor(i, lane[l].page) = FirstJob(i.phase + 1, replay[i.phase + 1])
      BY <1>0, <2>1, <2>5, <3>1, SuccessorType
    <3> QED BY <2>3, <3>2, FirstJobType
  <2> QED BY <2>4, <2>5
<1>5. ASSUME FanOut PROVE Goal
  BY <1>1, <1>5, PlanStart, FirstJobType DEF FanOut
<1>6. ASSUME NEW p \in Phase, Recover(p) PROVE Goal
  <2>1. Publish(FirstJob(p, NextReplay(p)))
    BY <1>6 DEF Recover
  <2> QED BY <1>0, <1>1, <1>6, <2>1, RecoverJob, FirstJobType
<1>7. ASSUME NEW l \in Lane, Crash(l) PROVE Goal
  <2>1. lane[l].job \in Job
    BY <1>0, <1>7 DEF TypeOK, Crash, Walk
  <2> QED BY <1>2, <1>3, <1>7, <2>1 DEF Crash
<1>8. ASSUME \/ \E l \in Lane, i \in Job :
                  Claim(l, i) \/ Acknowledge(l, i) \/ RetryJob(l, i) \/ FailJob(l, i) \/ Defer(l, i)
             \/ \E i \in Job : Lapse(i)
      PROVE  Goal
  BY <1>2, <1>8 DEF Claim, Acknowledge, RetryJob, FailJob, Defer, Lapse
<1>9. CASE UNCHANGED queueVars
  BY <1>3, <1>9 DEF queueVars
<1> HIDE DEF Goal
<1> QED BY <1>4, <1>5, <1>6, <1>7, <1>8, <1>9, QueueFrame

\* How the row of a run changes.
LEMMA RunMove ==
  ASSUME BackfillInv, Next, NEW j \in Job
  PROVE  /\ run'[j] = "none" => run[j] = "none" /\ cursor'[j] = cursor[j]
         /\ run'[j] # "none" =>
              \/ /\ cursor'[j] = cursor[j] /\ stage[j] # "absent"
                 /\ run'[j] = "succeeded" => run[j] = "succeeded" \/ \E l \in Lane : At(l, "close", j)
              \/ run'[j] = "running" /\ \E l \in Lane : CommitPage(l, j)
<1> DEFINE Goal ==
         /\ run'[j] = "none" => run[j] = "none" /\ cursor'[j] = cursor[j]
         /\ run'[j] # "none" =>
              \/ /\ cursor'[j] = cursor[j] /\ stage[j] # "absent"
                 /\ run'[j] = "succeeded" => run[j] = "succeeded" \/ \E l \in Lane : At(l, "close", j)
              \/ run'[j] = "running" /\ \E l \in Lane : CommitPage(l, j)
<1> SUFFICES Goal
  OBVIOUS
<1>0. /\ TypeOK /\ run \in [Job -> RunStatus] /\ cursor \in [Job -> Page]
      /\ run[j] # "none" => stage[j] # "absent"
  BY DEF BackfillInv, TypeOK, RunsOnTrack
<1>1. ASSUME UNCHANGED <<run, cursor>> PROVE Goal
  BY <1>0, <1>1
<1>2. ASSUME NEW l \in Lane, NEW i \in Job, NEW place \in Place, At(l, place, i)
      PROVE  stage[i] # "absent"
  BY <1>0, <1>2, LaneAt DEF At, BackfillInv, LanesOnTrack, OnTrack
<1>3. ASSUME NEW l \in Lane, NEW i \in Job, NEW place \in Place, At(l, place, i),
             NEW status \in RunStatus \ {"none"}, run' = [run EXCEPT ![i] = status],
             UNCHANGED cursor, status = "succeeded" => place = "close"
      PROVE  Goal
  BY <1>0, <1>2, <1>3
<1>4. ASSUME NEW l \in Lane, NEW i \in Job, Begin(l, i) PROVE Goal
  BY <1>3, <1>4 DEF Begin, Place, RunStatus
<1>5. ASSUME NEW l \in Lane, NEW i \in Job, CloseRun(l, i) PROVE Goal
  BY <1>3, <1>5 DEF CloseRun, Place, RunStatus
<1>6. ASSUME NEW l \in Lane, NEW i \in Job,
             MarkRunRetried(l, i) \/ MarkRunFailed(l, i) \/ MarkRunLimited(l, i)
      PROVE  Goal
  <2>1. PICK place \in Place, status \in {"retry_wait", "failed"} :
          At(l, place, i) /\ RunFailed(l, i, status) /\ UNCHANGED cursor
    BY <1>6 DEF MarkRunRetried, MarkRunFailed, MarkRunLimited, Place
  <2> QED BY <1>1, <1>3, <2>1 DEF RunFailed, RunStatus
<1>7. ASSUME NEW l \in Lane, NEW i \in Job, CommitPage(l, i) PROVE Goal
  BY <1>0, <1>7 DEF CommitPage, CommitRows
<1> HIDE DEF Goal
<1> QED BY <1>1, <1>4, <1>5, <1>6, <1>7, RunFrame

\* How a lane comes to where it is: from the same page of the same job, unless
\* it claims, resumes or commits.
Same(l) == lane[l] # Idle /\ lane'[l].job = lane[l].job /\ lane'[l].page = lane[l].page

Moved(m) ==
  \/ lane'[m] = lane[m]
  \/ Same(m) /\ lane'[m].at \in Quiet
  \/ \E j \in Job : /\ Claim(m, j) /\ lane'[m].at = "begin"
                    /\ lane'[m].job = j /\ lane'[m].page = j.from
  \/ Same(m) /\ lane'[m].at = "resume" /\ \E j \in Job : Begin(m, j)
  \/ /\ lane'[m].at = "land" /\ lane'[m].job = lane[m].job
     /\ \E j \in Job : /\ At(m, "resume", j)
                       /\ \/ lane'[m].page = j.from
                          \/ lane'[m].page = cursor[j] /\ run[j] = "running"
  \/ /\ Same(m) /\ lane'[m].at = "commit" /\ At(m, "land", lane[m].job)
     /\ lane[m].page \in landed'[lane[m].job.phase]
  \/ /\ lane'[m].at = "land" /\ At(m, "commit", lane[m].job) /\ HasMore(lane[m].page)
     /\ lane'[m].job = lane[m].job /\ lane'[m].page = lane[m].page + 1
  \/ Same(m) /\ lane'[m].at = "publish" /\ At(m, "commit", lane[m].job)
  \/ /\ Same(m) /\ lane'[m].at = "mark" /\ \E j \in Job : PublishSuccessor(m, j)
     /\ lane'[m].target = Successor(lane[m].job, lane[m].page)
  \/ Same(m) /\ lane'[m].at = "close" /\ \E j \in Job : NothingToPublish(m, j)
  \/ Same(m) /\ lane'[m].at = "close" /\ At(m, "mark", lane[m].job)

\* Every change of a lane is one of the moves.
LEMMA LaneMove ==
  ASSUME BackfillInv, Next, NEW m \in Lane, lane'[m] # Idle
  PROVE  Moved(m)
<1> USE DEF Moved
<1>0. TypeOK /\ lane \in [Lane -> Walk \cup {Idle}]
  BY DEF BackfillInv, TypeOK
<1>1. CASE UNCHANGED lane
  BY <1>1
<1>2. ASSUME NEW l \in Lane, NEW w, lane' = [lane EXCEPT ![l] = w], l # m PROVE Moved(m)
  BY <1>0, <1>2
<1>3. ASSUME NEW l \in Lane, NEW place, Goto(l, place), l # m PROVE Moved(m)
  BY <1>2, <1>3 DEF Goto
<1>4. ASSUME NEW l \in Lane, NEW j \in Job, Claim(l, j) PROVE Moved(m)
  BY <1>0, <1>2, <1>4 DEF Claim
<1>5. ASSUME NEW j \in Job, NEW place \in Place, NEW there \in Place,
             At(m, place, j), Goto(m, there)
      PROVE  Same(m) /\ lane'[m].at = there /\ lane[m].job = j
  BY <1>0, <1>5, LaneAt, GotoEffect DEF At, Same
<1>6. ASSUME NEW l \in Lane, NEW j \in Job, Begin(l, j) PROVE Moved(m)
  <2>1. CASE l = m
    BY <1>5, <1>6, <2>1 DEF Begin, Place
  <2> QED BY <1>3, <1>6, <2>1 DEF Begin
<1>7. ASSUME NEW l \in Lane, NEW j \in Job, Resume(l, j) PROVE Moved(m)
  <2> DEFINE start == IF lane[l].redelivered /\ run[j] = "running" THEN cursor[j] ELSE j.from
  <2>1. At(l, "resume", j) /\ lane' = [lane EXCEPT ![l] = [lane[l] EXCEPT !.at = "land", !.page = start]]
    BY <1>7 DEF Resume
  <2>2. start = j.from \/ (start = cursor[j] /\ run[j] = "running")
    OBVIOUS
  <2> HIDE DEF start
  <2>3. CASE l = m
    <3>1. lane[m] \in Walk
      BY <1>0, <2>1, <2>3, LaneAt DEF Place
    <3>2. lane'[m].at = "land" /\ lane'[m].job = lane[m].job /\ lane'[m].page = start
      BY <1>0, <2>1, <2>3, <3>1 DEF Walk
    <3> QED BY <2>1, <2>2, <2>3, <3>2
  <2> QED BY <1>2, <2>1, <2>3
<1>8. ASSUME NEW l \in Lane, NEW j \in Job, Land(l, j) PROVE Moved(m)
  <2>1. CASE l = m
    <3>1. Same(m) /\ lane'[m].at = "commit" /\ lane[m].job = j /\ At(m, "land", j)
      BY <1>5, <1>8, <2>1 DEF Land, Place
    <3>2. lane[m].page \in landed'[j.phase]
      BY <1>0, <1>8, <2>1, JobFacts DEF Land, TypeOK
    <3> QED BY <3>1, <3>2
  <2> QED BY <1>3, <1>8, <2>1 DEF Land
<1>9. ASSUME NEW l \in Lane, NEW j \in Job, CommitPage(l, j) PROVE Moved(m)
  <2> DEFINE w == lane[l]
             onward == [w EXCEPT !.at = "land", !.page = w.page + 1, !.walked = w.walked + 1]
  <2>1. At(l, "commit", j) /\ w.job = j
    BY <1>9 DEF CommitPage, At
  <2>2. CASE HasMore(w.page) /\ w.walked < PagesPerClaim
    <3>1. lane' = [lane EXCEPT ![l] = onward]
      BY <1>9, <2>2 DEF CommitPage
    <3>2. CASE l = m
      <4>1. lane[m] \in Walk
        BY <1>0, <2>1, <3>2, LaneAt DEF Place
      <4>2. lane'[m].at = "land" /\ lane'[m].job = lane[m].job /\ lane'[m].page = lane[m].page + 1
        BY <1>0, <3>1, <3>2, <4>1 DEF Walk
      <4> QED BY <2>1, <2>2, <3>2, <4>2
    <3> HIDE DEF onward
    <3> QED BY <1>2, <3>1, <3>2
  <2>3. CASE ~(HasMore(w.page) /\ w.walked < PagesPerClaim)
    <3>1. Goto(l, "publish")
      BY <1>9, <2>3 DEF CommitPage
    <3>2. CASE l = m
      BY <1>5, <2>1, <3>1, <3>2 DEF Place
    <3> QED BY <1>3, <3>1, <3>2
  <2> QED BY <2>2, <2>3
<1>10. ASSUME NEW l \in Lane, NEW j \in Job, PublishSuccessor(l, j) PROVE Moved(m)
  <2> DEFINE next == Successor(j, lane[l].page)
  <2>1. At(l, "publish", j) /\ lane[l].job = j
    BY <1>10 DEF PublishSuccessor, At
  <2>2. lane' = [lane EXCEPT ![l] = [lane[l] EXCEPT !.at = "mark", !.target = next]]
    BY <1>10 DEF PublishSuccessor
  <2>3. CASE l = m
    <3>1. lane[m] \in Walk /\ lane[m] # Idle
      BY <1>0, <2>1, <2>3, LaneAt DEF Place
    <3> HIDE DEF next
    <3>2. lane'[m] = [lane[m] EXCEPT !.at = "mark", !.target = next]
      BY <1>0, <2>2, <2>3
    <3>3. lane'[m].at = "mark" /\ Same(m) /\ lane'[m].target = next
      BY <3>1, <3>2 DEF Walk, Same
    <3> QED BY <1>10, <2>1, <2>3, <3>3 DEF next
  <2> HIDE DEF next
  <2> QED BY <1>2, <2>2, <2>3
<1>11. ASSUME NEW l \in Lane, NEW j \in Job, NothingToPublish(l, j) PROVE Moved(m)
  <2>1. CASE l = m
    BY <1>5, <1>11, <2>1 DEF NothingToPublish, Place
  <2> QED BY <1>3, <1>11, <2>1 DEF NothingToPublish
<1>12. ASSUME NEW l \in Lane, NEW j \in Job, MarkSuccessor(l, j) PROVE Moved(m)
  <2>1. CASE l = m
    BY <1>5, <1>12, <2>1 DEF MarkSuccessor, Place
  <2> QED BY <1>3, <1>12, <2>1 DEF MarkSuccessor
<1>13. ASSUME NEW l \in Lane, Stop(l) PROVE Moved(m)
  BY <1>0, <1>2, <1>13, StopEffect DEF Stop
<1>14. ASSUME NEW l \in Lane, NEW place \in Quiet, lane[l].at \in Place, Goto(l, place) PROVE Moved(m)
  <2>1. CASE l = m
    <3>1. lane[m] \in Walk /\ lane[m] # Idle /\ place \in Place
      BY <1>0, <1>14, <2>1 DEF Idle, Place, Quiet
    <3>2. Same(m) /\ lane'[m].at = place
      BY <1>0, <1>14, <2>1, <3>1, GotoEffect DEF Same
    <3> QED BY <3>2
  <2> QED BY <1>3, <1>14, <2>1
<1> HIDE DEF Moved
<1> QED BY <1>1, <1>4, <1>6, <1>7, <1>8, <1>9, <1>10, <1>11, <1>12, <1>13, <1>14, LaneFrame

-------------------------------------------------------------------------------
(* The remaining parts of the invariant. *)

\* The pages before that of a lane are in the store, in every step.
LEMMA LanePages ==
  ASSUME BackfillInv, Next, NEW m \in Lane, lane'[m] # Idle
  PROVE  /\ Before(lane'[m].page) \subseteq landed'[lane'[m].job.phase]
         /\ lane'[m].at \in {"commit", "publish"} => lane'[m].page \in landed'[lane'[m].job.phase]
<1> DEFINE Goal ==
      /\ Before(lane'[m].page) \subseteq landed'[lane'[m].job.phase]
      /\ lane'[m].at \in {"commit", "publish"} => lane'[m].page \in landed'[lane'[m].job.phase]
<1> SUFFICES Goal
  OBVIOUS
<1>0. /\ TypeOK /\ NoPageSkipped /\ LanesOnTrack /\ RunsOnTrack
      /\ lane[m] \in Walk \cup {Idle} /\ lane'[m] \in Walk
  BY Growth DEF BackfillInv, TypeOK
<1>1. ASSUME lane[m] # Idle
      PROVE  /\ lane[m].job \in Job /\ lane[m].job.phase \in Phase /\ lane[m].page \in Page
             /\ Before(lane[m].page) \subseteq landed[lane[m].job.phase]
             /\ landed[lane[m].job.phase] \subseteq landed'[lane[m].job.phase]
  <2>1. lane[m].job \in Job /\ lane[m].page \in Page
    BY <1>0, <1>1 DEF Walk
  <2> QED BY <1>0, <1>1, <2>1, JobFacts, Growth DEF NoPageSkipped
<1>2. CASE lane'[m] = lane[m]
  BY <1>0, <1>1, <1>2 DEF NoPageSkipped
<1>3. CASE Same(m) /\ lane'[m].at \notin {"commit", "publish"}
  BY <1>1, <1>3 DEF Same
<1>4. ASSUME NEW j \in Job, Claim(m, j), lane'[m].at = "begin", lane'[m].job = j, lane'[m].page = j.from
      PROVE  Goal
  <2>1. Before(j.from) \subseteq landed[j.phase]
    BY <1>0, <1>4 DEF Claim, Work!Grant, NoPageSkipped
  <2> QED BY <1>4, <2>1, Growth, JobFacts
<1>5. ASSUME NEW j \in Job, At(m, "resume", j), lane'[m].at = "land", lane'[m].job = lane[m].job,
             lane'[m].page = j.from \/ (lane'[m].page = cursor[j] /\ run[j] = "running")
      PROVE  Goal
  <2>1. lane[m] # Idle /\ lane[m].job = j
    BY <1>0, <1>5, LaneAt DEF At, Place
  <2>2. Before(lane'[m].page) \subseteq landed[j.phase]
    BY <1>0, <1>5, <2>1 DEF NoPageSkipped, LanesOnTrack, OnTrack
  <2> QED BY <1>1, <1>5, <2>1, <2>2
<1>6. CASE /\ Same(m) /\ lane'[m].at = "commit"
           /\ lane[m].page \in landed'[lane[m].job.phase]
  BY <1>1, <1>6 DEF Same
<1>7. ASSUME At(m, "commit", lane[m].job) PROVE lane[m] # Idle /\ lane[m].page \in landed[lane[m].job.phase]
  BY <1>0, <1>7 DEF At, NoPageSkipped, Idle
<1>8. CASE /\ lane'[m].at = "land" /\ At(m, "commit", lane[m].job)
           /\ lane'[m].job = lane[m].job /\ lane'[m].page = lane[m].page + 1
  BY <1>1, <1>7, <1>8, BeforeFacts
<1>9. CASE Same(m) /\ lane'[m].at = "publish" /\ At(m, "commit", lane[m].job)
  BY <1>1, <1>7, <1>9 DEF Same
<1>10. Moved(m)
  BY LaneMove
<1> HIDE DEF Goal
<1> QED BY <1>2, <1>3, <1>4, <1>5, <1>6, <1>8, <1>9, <1>10 DEF Moved, Quiet

\* NoPageSkipped is preserved: jobs, runs and lanes only point past landed pages.
LEMMA NoPageStep ==
  ASSUME BackfillInv, Next
  PROVE  NoPageSkipped'
<1>0. TypeOK /\ NoPageSkipped
  BY DEF BackfillInv
<1>1. ASSUME NEW j \in Job, stage'[j] # "absent" PROVE Before(j.from) \subseteq landed'[j.phase]
  <2>1. CASE stage[j] # "absent"
    BY <1>0, <2>1, Growth, JobFacts DEF NoPageSkipped
  <2>2. CASE j.from = 0
    BY <2>2, BeforeFacts, JobFacts
  <2>3. ASSUME NEW l \in Lane, NEW i \in Job, At(l, "publish", i), HasMore(lane[l].page),
               j = [i EXCEPT !.from = lane[l].page + 1]
        PROVE  Before(j.from) \subseteq landed'[j.phase]
    <3>1. lane[l] # Idle /\ lane[l].page \in Page /\ lane[l].job = i
      BY <1>0, <2>3, LaneAt DEF Place, Walk, At
    <3>2. Before(lane[l].page) \cup {lane[l].page} \subseteq landed[i.phase]
      BY <1>0, <2>3, <3>1 DEF NoPageSkipped, At
    <3>3. j.phase = i.phase /\ j.from = lane[l].page + 1
      BY <2>3 DEF Job
    <3> QED BY <3>1, <3>2, <3>3, BeforeFacts, Growth, JobFacts
  <2> QED BY <1>1, <2>1, <2>2, <2>3, PublishMove
<1>2. ASSUME NEW j \in Job, run'[j] # "none" PROVE Before(cursor'[j]) \subseteq landed'[j.phase]
  <2>1. CASE cursor'[j] = cursor[j] /\ stage[j] # "absent"
    <3>1. Before(cursor[j]) \subseteq landed[j.phase]
      BY <1>0, <2>1 DEF NoPageSkipped, BackfillInv, RunsOnTrack
    <3> QED BY <2>1, <3>1, Growth, JobFacts
  <2>2. ASSUME NEW l \in Lane, CommitPage(l, j) PROVE Before(cursor'[j]) \subseteq landed'[j.phase]
    <3>1. lane[l] # Idle /\ lane[l].page \in Page /\ lane[l].job = j /\ lane[l].at = "commit"
      BY <1>0, <2>2, LaneAt DEF CommitPage, Place, Walk, At
    <3>2. Before(lane[l].page) \cup {lane[l].page} \subseteq landed[j.phase]
      BY <1>0, <3>1 DEF NoPageSkipped
    <3>3. cursor'[j] = lane[l].page \/ cursor'[j] = lane[l].page + 1
      BY <1>0, <2>2 DEF CommitPage, CommitRows, TypeOK
    <3> QED BY <3>1, <3>2, <3>3, BeforeFacts, Growth, JobFacts
  <2> QED BY <1>2, <2>1, <2>2, RunMove
<1>3. ASSUME NEW m \in Lane, lane'[m].at \in {"commit", "publish"} PROVE lane'[m] # Idle
  BY <1>3 DEF Idle
<1> QED BY <1>1, <1>2, <1>3, LanePages DEF NoPageSkipped

\* SuccessorBeforeSuccess is preserved: a run is closed by a lane whose job goes on.
LEMMA SuccessorStep ==
  ASSUME BackfillInv, Next
  PROVE  SuccessorBeforeSuccess'
<1> SUFFICES ASSUME NEW j \in Job, run'[j] = "succeeded"
             PROVE  WorkGoesOn(j)'
  BY DEF SuccessorBeforeSuccess
<1>1. CASE run[j] = "succeeded"
  BY <1>1, WorkStays DEF BackfillInv, SuccessorBeforeSuccess
<1>2. ASSUME NEW l \in Lane, At(l, "close", j) PROVE WorkGoesOn(j)'
  <2>1. WorkGoesOn(j)
    BY <1>2, LaneAt DEF BackfillInv, LanesOnTrack, OnTrack, At, Place
  <2> QED BY <2>1, WorkStays
<1> QED BY <1>1, <1>2, RunMove

\* An open phase was open before, with the same request, or the step marked it.
LEMMA RequestStep ==
  ASSUME BackfillInv, Next
  PROVE  OpenPhaseHasRequest'
<1> DEFINE Goal == OpenPhaseHasRequest'
<1> SUFFICES Goal
  OBVIOUS
<1>0. /\ TypeOK /\ OpenPhaseHasRequest
      /\ phase \in [Phase -> PhaseStatus] /\ replay \in [Phase -> Replay]
      /\ lastJob \in [Phase -> Job \cup {NoJob}]
      /\ \A j \in Job : stage[j] # "absent" => stage'[j] # "absent"
  BY Growth DEF BackfillInv, TypeOK
<1>1. ASSUME \A p \in Phase : phase'[p] \in {"queued", "running"} => phase[p] \in {"queued", "running"},
             UNCHANGED <<replay, lastJob>>
      PROVE  Goal
  BY <1>0, <1>1 DEF OpenPhaseHasRequest
<1>2. ASSUME NEW j \in Job, MarkQueued(j), stage'[j] # "absent" PROVE Goal
  BY <1>0, <1>2, JobFacts DEF OpenPhaseHasRequest, MarkQueued
<1>3. CASE UNCHANGED phaseVars
  BY <1>1, <1>3 DEF phaseVars
<1>4. ASSUME NEW l \in Lane, NEW j \in Job, Begin(l, j) PROVE Goal
  BY <1>0, <1>1, <1>4 DEF Begin, Current
<1>5. ASSUME NEW l \in Lane, NEW j \in Job, CommitPage(l, j) PROVE Goal
  BY <1>0, <1>1, <1>5 DEF CommitPage, CommitRows
<1>6. ASSUME NEW l \in Lane, NEW j \in Job, MarkRunFailed(l, j) PROVE Goal
  BY <1>0, <1>1, <1>6 DEF MarkRunFailed
<1>7. ASSUME NEW l \in Lane, NEW j \in Job, MarkSuccessor(l, j) PROVE Goal
  <2>1. lane[l].target \in Job /\ stage[lane[l].target] # "absent"
    BY <1>0, <1>7, LaneAt DEF BackfillInv, MarkSuccessor, Place, LanesOnTrack, OnTrack, At
  <2> QED BY <1>0, <1>2, <1>7, <2>1 DEF MarkSuccessor
<1>8. CASE FanOutMark
  <2>1. stage[FirstJob(1, 1)] # "absent"
    BY <1>8 DEF BackfillInv, RunsOnTrack, FanOutMark
  <2> QED BY <1>0, <1>2, <1>3, <1>8, <2>1, PlanStart DEF FanOutMark
<1>9. ASSUME NEW p \in Phase, Recover(p) PROVE Goal
  <2> DEFINE j == FirstJob(p, NextReplay(p))
  <2>1. j \in Job /\ Publish(j) /\ MarkQueued(j)
    BY <1>0, <1>9, RecoverJob DEF Recover
  <2> HIDE DEF j
  <2>2. stage'[j] # "absent"
    BY <1>0, <2>1 DEF Publish, Work!Submit, TypeOK, Work!WorkTypeOK
  <2> QED BY <1>2, <2>1, <2>2
<1> HIDE DEF Goal
<1> QED BY <1>3, <1>4, <1>5, <1>6, <1>7, <1>8, <1>9, PhaseFrame

\* What a lane leaves behind when it has published, and when there is nothing
\* to publish.
LEMMA PublishedGoesOn ==
  ASSUME BackfillInv, Next, NEW l \in Lane, NEW j \in Job, PublishSuccessor(l, j)
  PROVE  /\ Successor(j, lane[l].page) \in Job
         /\ stage'[Successor(j, lane[l].page)] # "absent"
         /\ WorkGoesOn(j)'
<1> DEFINE next == Successor(j, lane[l].page)
<1>1. /\ TypeOK /\ lane[l] # Idle /\ lane[l].page \in Page /\ lane[l].job = j
      /\ At(l, "publish", j) /\ next # NoJob /\ Publish(next)
  BY LaneAt DEF BackfillInv, PublishSuccessor, Place, Walk, At
<1>2. next \in Job
  BY <1>1, SuccessorType
<1>3. stage'[next] # "absent"
  BY <1>1, <1>2 DEF Publish, Work!Submit, TypeOK, Work!WorkTypeOK
<1>4. CASE HasMore(lane[l].page)
  <2>1. lane[l].page + 1 \in Page /\ next = [j EXCEPT !.from = lane[l].page + 1]
    BY <1>1, <1>4, SuccessorType
  <2>2. lane[l].page + 1 > j.from
    BY <1>1, JobFacts, BackfillAssumption DEF BackfillInv, LanesOnTrack, OnTrack, Page
  <2> QED BY <1>2, <1>3, <2>1, <2>2 DEF WorkGoesOn
<1>5. CASE ~HasMore(lane[l].page)
  <2>1. landed[j.phase] = Page
    BY <1>1, <1>5, LastPageLanded
  <2>2. j.phase < LastPhase
    BY <1>1, <1>5 DEF Successor
  <2>3. replay[j.phase + 1] \in Replay /\ next = FirstJob(j.phase + 1, replay[j.phase + 1])
    BY <1>1, <1>5, <2>2, SuccessorType
  <2>4. PICK r \in Replay : stage'[FirstJob(j.phase + 1, r)] # "absent"
    BY <1>3, <2>3
  <2>5. landed'[j.phase] = Page
    BY <2>1, Growth, JobFacts
  <2> QED BY <1>2, <1>3, <2>4, <2>5 DEF WorkGoesOn
<1> QED BY <1>2, <1>3, <1>4, <1>5

\* A lane that has nothing to publish ends the last phase, which is landed.
LEMMA NothingLeft ==
  ASSUME BackfillInv, NEW l \in Lane, NEW j \in Job, NothingToPublish(l, j)
  PROVE  WorkGoesOn(j)
<1>1. /\ TypeOK /\ lane[l].page \in Page /\ At(l, "publish", j)
      /\ Successor(j, lane[l].page) = NoJob
  BY LaneAt DEF BackfillInv, NothingToPublish, Place, Walk
<1>2. ~HasMore(lane[l].page)
  BY <1>1, SuccessorType, JobFacts
<1>3. j.phase = LastPhase
  <2>1. ASSUME j.phase < LastPhase PROVE FALSE
    <3>1. Successor(j, lane[l].page) \in Job
      BY <1>1, <1>2, <2>1, SuccessorType, FirstJobType
    <3> QED BY <1>1, <3>1, JobFacts
  <2> QED BY <2>1, JobFacts, BackfillAssumption DEF Phase
<1> QED BY <1>1, <1>2, <1>3, LastPageLanded DEF WorkGoesOn

\* A lane is on track after a step when it is on its new place.
LEMMA TrackStep ==
  ASSUME BackfillInv, Next, NEW m \in Lane, NEW j \in Job, lane'[m].job = j,
         stage[j] # "absent", j.from <= lane'[m].page,
         lane'[m].at \in {"resume", "land", "commit"} => EarlierDone(j.phase),
         lane'[m].at = "mark" => lane'[m].target \in Job /\ stage'[lane'[m].target] # "absent",
         lane'[m].at \in {"mark", "close"} => WorkGoesOn(j)'
  PROVE  OnTrack(m)'
<1>1. stage'[j] # "absent"
  BY Growth
<1>2. lane'[m].at \in {"resume", "land", "commit"} => EarlierDone(j.phase)'
  BY EarlierStays, JobFacts
<1> QED BY <1>1, <1>2 DEF OnTrack, EarlierDone, WorkGoesOn

\* LanesOnTrack is preserved, move by move.
LEMMA LanesStep ==
  ASSUME BackfillInv, Next
  PROVE  LanesOnTrack'
<1> SUFFICES ASSUME NEW m \in Lane, lane'[m] # Idle
             PROVE  OnTrack(m)'
  BY DEF LanesOnTrack
<1>0. /\ TypeOK /\ RunsOnTrack /\ lane'[m] \in Walk /\ lane[m] \in Walk \cup {Idle}
      /\ lane[m] # Idle => OnTrack(m)
  BY Growth DEF BackfillInv, TypeOK, LanesOnTrack
<1>1. PICK j \in Job : lane'[m].job = j
  BY <1>0 DEF Walk
<1>2. ASSUME lane[m] # Idle, lane[m].job = j
      PROVE  /\ stage[j] # "absent" /\ j.from <= lane[m].page
             /\ j.from \in Nat /\ lane[m].page \in Nat
             /\ lane[m].at \in {"resume", "land", "commit"} => EarlierDone(j.phase)
             /\ lane[m].at \in {"mark", "close"} => WorkGoesOn(j)'
  BY <1>0, <1>2, WorkStays, JobFacts DEF OnTrack, Walk, Page
<1>3. CASE lane'[m] = lane[m]
  <2>1. lane'[m].at = "mark" => lane'[m].target \in Job /\ stage'[lane'[m].target] # "absent"
    BY <1>0, <1>3, Growth DEF OnTrack
  <2> QED BY <1>1, <1>2, <1>3, <2>1, TrackStep
<1>4. CASE Same(m) /\ lane'[m].at \in Quiet
  BY <1>1, <1>2, <1>4, TrackStep DEF Same, Quiet
<1>5. ASSUME Claim(m, j), lane'[m].at = "begin", lane'[m].page = j.from PROVE OnTrack(m)'
  <2>1. stage[j] # "absent" /\ j.from <= lane'[m].page
    BY <1>5, JobFacts DEF Claim, Work!Grant
  <2> QED BY <1>1, <1>5, <2>1, TrackStep
<1>6. ASSUME Same(m), lane'[m].at = "resume", NEW i \in Job, Begin(m, i) PROVE OnTrack(m)'
  <2>1. EarlierDone(j.phase)
    BY <1>1, <1>6, BeginOrder DEF Same, Begin, At
  <2> QED BY <1>1, <1>2, <1>6, <2>1, TrackStep DEF Same
<1>7. ASSUME lane'[m].at = "land", lane'[m].job = lane[m].job, At(m, "resume", j),
             lane'[m].page = j.from \/ (lane'[m].page = cursor[j] /\ run[j] = "running")
      PROVE  OnTrack(m)'
  <2>1. lane[m] # Idle
    BY <1>7 DEF At, Idle
  <2>2. j.from <= lane'[m].page
    BY <1>0, <1>7, JobFacts DEF RunsOnTrack
  <2> QED BY <1>1, <1>2, <1>7, <2>1, <2>2, TrackStep DEF At
<1>8. CASE Same(m) /\ lane'[m].at = "commit" /\ At(m, "land", lane[m].job)
  BY <1>1, <1>2, <1>8, TrackStep DEF Same, At
<1>9. CASE /\ lane'[m].at = "land" /\ At(m, "commit", lane[m].job)
           /\ lane'[m].job = lane[m].job /\ lane'[m].page = lane[m].page + 1
  <2>1. lane[m] # Idle
    BY <1>9 DEF At, Idle
  <2> QED BY <1>1, <1>2, <1>9, <2>1, TrackStep DEF At
<1>10. CASE Same(m) /\ lane'[m].at = "publish" /\ At(m, "commit", lane[m].job)
  BY <1>1, <1>2, <1>10, TrackStep DEF Same
<1>11. ASSUME Same(m), lane'[m].at = "mark", NEW i \in Job, PublishSuccessor(m, i),
              lane'[m].target = Successor(lane[m].job, lane[m].page)
       PROVE  OnTrack(m)'
  <2>1. i = j /\ lane[m].job = j
    BY <1>1, <1>11 DEF Same, PublishSuccessor, At
  <2>2. /\ lane'[m].target \in Job /\ stage'[lane'[m].target] # "absent" /\ WorkGoesOn(j)'
    BY <1>11, <2>1, PublishedGoesOn
  <2> QED BY <1>1, <1>2, <1>11, <2>1, <2>2, TrackStep DEF Same
<1>12. ASSUME Same(m), lane'[m].at = "close", NEW i \in Job, NothingToPublish(m, i)
       PROVE  OnTrack(m)'
  <2>1. i = j
    BY <1>1, <1>12 DEF Same, NothingToPublish, At
  <2>2. WorkGoesOn(j)'
    BY <1>12, <2>1, NothingLeft, WorkStays
  <2> QED BY <1>1, <1>2, <1>12, <2>2, TrackStep DEF Same
<1>13. CASE Same(m) /\ lane'[m].at = "close" /\ At(m, "mark", lane[m].job)
  BY <1>1, <1>2, <1>13, TrackStep DEF Same, At
<1>14. Moved(m)
  BY LaneMove
<1>15. \A i \in Job : At(m, "resume", i) => lane[m].job = i
  BY DEF At
<1> QED BY <1>1, <1>3, <1>4, <1>5, <1>6, <1>7, <1>8, <1>9, <1>10, <1>11, <1>12, <1>13, <1>14, <1>15
        DEF Moved

\* RunsOnTrack is preserved.
LEMMA RunsStep ==
  ASSUME BackfillInv, Next
  PROVE  RunsOnTrack'
<1>0. TypeOK /\ RunsOnTrack /\ NoPageSkipped
  BY DEF BackfillInv
<1>1. ASSUME NEW j \in Job, run'[j] = "none" PROVE cursor'[j] = j.from
  BY <1>0, <1>1, RunMove DEF RunsOnTrack
<1>2. ASSUME NEW j \in Job, run'[j] # "none" PROVE stage'[j] # "absent" /\ j.from <= cursor'[j]
  <2>1. CASE cursor'[j] = cursor[j] /\ stage[j] # "absent"
    <3>1. j.from <= cursor[j]
      BY <1>0, JobFacts DEF RunsOnTrack
    <3> QED BY <2>1, <3>1, Growth
  <2>2. ASSUME NEW l \in Lane, CommitPage(l, j) PROVE stage'[j] # "absent" /\ j.from <= cursor'[j]
    <3>1. lane[l] # Idle /\ lane[l].page \in Page /\ lane[l].job = j
      BY <1>0, <2>2, LaneAt DEF CommitPage, Place, Walk, At
    <3>2. stage[j] # "absent" /\ j.from <= lane[l].page
      BY <3>1 DEF BackfillInv, LanesOnTrack, OnTrack
    <3>3. cursor'[j] = lane[l].page \/ cursor'[j] = lane[l].page + 1
      BY <1>0, <2>2 DEF CommitPage, CommitRows, TypeOK
    <3> QED BY <3>1, <3>2, <3>3, Growth, JobFacts DEF Page
  <2> QED BY <1>2, <2>1, <2>2, RunMove
<1>3. ASSUME coordinator' = "mark" PROVE stage'[FirstJob(1, 1)] # "absent"
  <2>1. CASE coordinator = "mark"
    BY <1>0, <2>1, PlanStart, Growth DEF RunsOnTrack
  <2>2. CASE FanOut
    BY <1>0, <2>2, PlanStart DEF FanOut, Publish, Work!Submit, TypeOK, Work!WorkTypeOK
  <2> QED BY <1>0, <1>3, <2>1, <2>2, OtherFrame
<1> QED BY <1>1, <1>2, <1>3 DEF RunsOnTrack

-------------------------------------------------------------------------------
(* The invariant. *)

\* The invariant holds initially.
LEMMA InitInv ==
  ASSUME Init
  PROVE  BackfillInv
<1>1. TypeOK
  <2>1. Work!WorkTypeOK /\ reads \in [Job -> Nat] /\ active \subseteq Job
    BY DEF Init, Work!WorkInit, Work!WorkTypeOK
  <2>2. /\ phase \in [Phase -> PhaseStatus] /\ replay \in [Phase -> Replay]
        /\ lastJob \in [Phase -> Job \cup {NoJob}]
    BY PlanStart DEF Init, PhaseStatus
  <2>3. /\ run \in [Job -> RunStatus] /\ cursor \in [Job -> Page]
        /\ owner \in [Job -> Lane \cup {NoLane}]
    BY JobFacts DEF Init, RunStatus
  <2>4. /\ landed \in [Phase -> SUBSET Page] /\ complete \in BOOLEAN
        /\ lane \in [Lane -> Walk \cup {Idle}]
    BY DEF Init
  <2>5. coordinator \in {"start", "mark", "done"} /\ faults \in 0 .. MaxFaults
    BY BackfillAssumption DEF Init
  <2> QED BY <2>1, <2>2, <2>3, <2>4, <2>5 DEF TypeOK
<1>2. \A l \in Lane : lane[l] = Idle /\ lane[l].at = "idle"
  BY DEF Init, Idle
<1>3. CoverageIsReal /\ PhasesInOrder /\ OpenPhaseHasRequest
  BY DEF Init, CoverageIsReal, PhasesInOrder, OpenPhaseHasRequest
<1>4. NoPageSkipped /\ LanesOnTrack
  BY <1>2 DEF Init, Work!WorkInit, NoPageSkipped, LanesOnTrack
<1>5. SuccessorBeforeSuccess /\ RunsOnTrack
  BY DEF Init, SuccessorBeforeSuccess, RunsOnTrack
<1> QED BY <1>1, <1>3, <1>4, <1>5 DEF BackfillInv

\* The invariant is preserved by every step.
LEMMA NextInv ==
  ASSUME BackfillInv, [Next]_vars
  PROVE  BackfillInv'
<1>1. CASE Next
  BY <1>1, Growth, CoverageStep, OrderStep, NoPageStep, SuccessorStep, RequestStep, LanesStep,
     RunsStep DEF BackfillInv
<1>2. CASE UNCHANGED vars
  <2> USE DEF vars, queueVars, phaseVars, runVars, dataVars
  <2>1. TypeOK'
    BY <1>2 DEF BackfillInv, TypeOK, Work!WorkTypeOK
  <2>2. CoverageIsReal' /\ PhasesInOrder' /\ NoPageSkipped' /\ OpenPhaseHasRequest'
    BY <1>2 DEF BackfillInv, CoverageIsReal, PhasesInOrder, EarlierDone, NoPageSkipped,
         OpenPhaseHasRequest
  <2>3. SuccessorBeforeSuccess' /\ RunsOnTrack'
    BY <1>2 DEF BackfillInv, SuccessorBeforeSuccess, WorkGoesOn, RunsOnTrack
  <2>4. LanesOnTrack'
    BY <1>2 DEF BackfillInv, LanesOnTrack, OnTrack, EarlierDone, WorkGoesOn
  <2> QED BY <2>1, <2>2, <2>3, <2>4 DEF BackfillInv
<1> QED BY <1>1, <1>2

\* Every reachable state satisfies the inductive invariant.
THEOREM BackfillInvariant == Spec => []BackfillInv
<1> QED BY InitInv, NextInv, PTL DEF Spec

\* Every variable keeps its type.
THEOREM BackfillTypes == Spec => []TypeOK
<1>1. BackfillInv => TypeOK
  BY DEF BackfillInv
<1> QED BY <1>1, BackfillInvariant, PTL

\* A succeeded phase has all its pages, a backfilled stream those of all phases:
\* commitPage needs no lease for that.
THEOREM CoverageIsProved == Spec => []CoverageIsReal
<1>1. BackfillInv => CoverageIsReal
  BY DEF BackfillInv
<1> QED BY <1>1, BackfillInvariant, PTL

\* Phases run and succeed in the order of the plan: the check of beginRun
\* suffices, although marks and recovery write phases without one.
THEOREM OrderIsKept == Spec => []PhasesInOrder
<1>1. BackfillInv => PhasesInOrder
  BY DEF BackfillInv
<1> QED BY <1>1, BackfillInvariant, PTL

\* No cursor, payload or resumed lane skips a page that is not landed.
THEOREM NoPageIsSkipped == Spec => []NoPageSkipped
<1>1. BackfillInv => NoPageSkipped
  BY DEF BackfillInv
<1> QED BY <1>1, BackfillInvariant, PTL

\* A run succeeds only after its successor was published.
THEOREM SuccessorComesFirst == Spec => []SuccessorBeforeSuccess
<1>1. BackfillInv => SuccessorBeforeSuccess
  BY DEF BackfillInv
<1> QED BY <1>1, BackfillInvariant, PTL

\* An open phase names a published request of its own replay.
THEOREM RequestIsKnown == Spec => []OpenPhaseHasRequest
<1>1. BackfillInv => OpenPhaseHasRequest
  BY DEF BackfillInv
<1> QED BY <1>1, BackfillInvariant, PTL

\* Neither a late mark, nor recovery, nor a failing walker reopens a succeeded
\* phase or takes a replay version back.
THEOREM ProgressStays == Spec => ProgressIsFinal
<1> DEFINE Kept == \A p \in Phase :
             /\ phase[p] = "succeeded" => phase'[p] = "succeeded" /\ lastJob'[p] = lastJob[p]
             /\ replay'[p] >= replay[p]
<1>1. ASSUME BackfillInv, [Next]_vars PROVE [Kept]_vars
  <2>1. ASSUME Next PROVE Kept
    BY <1>1, <2>1, PhaseStep DEF BackfillInv
  <2> HIDE DEF Kept
  <2> QED BY <1>1, <2>1
<1> HIDE DEF Kept
<1>2. Spec => [][Kept]_vars
  BY <1>1, BackfillInvariant, PTL DEF Spec
<1> QED BY <1>2 DEF ProgressIsFinal, Kept
===============================================================================
