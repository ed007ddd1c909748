----------------------------- MODULE DeletionProofs -----------------------------
(***************************************************************************)
(* Theorems about DeletionLifecycle, for any number of deletion workers,   *)
(* sync jobs, attempts, messages and mishaps.                              *)
(*                                                                         *)
(* A worker that has lost its lease goes on until a call is refused, and   *)
(* its successor starts over.  What makes the proof true is therefore not  *)
(* the lease but the order of the stages: quiescence, once reached, lasts, *)
(* since the connection is fenced for good when a worker has claimed the   *)
(* request, and from then on the stores only empty.                        *)
(***************************************************************************)
EXTENDS DeletionLifecycle, TLAPS

\* The connection is live exactly while no request stands, and not again once a
\* worker has begun; until then its data is all there.
Standing ==
  /\ connected <=> deletion.status \in {"none", "cancelled"}
  /\ deletion.status \in {"running", "verifying", "completed"} => deletion.started
  /\ deletion.started => ~connected
  /\ ~deletion.started => stores = Store

\* No write is under way that a store would still take.
Quiet == \A w \in Writer : permit[w] # "open" /\ writer[w] # "sending"

\* The stages after assert_deletion_quiescent, and the stores emptied before each.
Purging == {"raw", "analytical", "control", "mark", "verify", "complete"}
EmptiedBefore(pc) ==
  CASE pc = "analytical" -> {"raw"}
    [] pc = "control" -> {"raw", "analytical"}
    [] pc \in {"mark", "verify", "complete"} -> Store
    [] OTHER -> {}

\* What worker k, or one that it has been superseded by, has achieved.
Achieved(k) ==
  /\ eraser[k].pc # "idle" => deletion.started
  /\ eraser[k].pc = "quiesce" => ~credential
  /\ eraser[k].pc \in Purging => /\ Quiet /\ ~credential
                                 /\ EmptiedBefore(eraser[k].pc) \cap stores = {}

\* The inductive invariant.
DeletionInv ==
  /\ DeletionTypeOK
  /\ Standing
  /\ \A w \in Writer : writer[w] = "sending" => permit[w] = "open"
  /\ \A k \in Eraser : Achieved(k)
  /\ deletion.status = "completed" => Quiet /\ stores = {} /\ ~credential
  /\ LiveConnectionIsWhole

-------------------------------------------------------------------------------
(* Rows, and what the helpers of the model do to them.                     *)

DeletionRow == [status : {"none", "queued", "running", "retry_wait", "verifying", "failed",
                          "completed", "cancelled"},
                message : Message \cup {0}, started : BOOLEAN, destroyed : BOOLEAN,
                evidence : Evidence]
JobRow == [at : {"absent", "visible", "hidden"}, reads : Nat]
AttemptRow == [number : Nat, by : Eraser \cup {Nobody}, done : BOOLEAN]
EraserRow == [pc : EraserPc, message : Message \cup {0}, reads : Nat, evidence : Evidence]

Typed ==
  /\ connected \in BOOLEAN /\ credential \in BOOLEAN /\ informed \in BOOLEAN
  /\ stores \subseteq Store
  /\ deletion \in DeletionRow
  /\ jobs \in [Message -> JobRow]
  /\ attempt \in AttemptRow
  /\ eraser \in [Eraser -> EraserRow]
  /\ writer \in [Writer -> WriterPc]
  /\ permit \in [Writer -> {"none", "open", "expired"}]
  /\ spare \in Spare

\* The type invariant, row by row.
LEMMA TypesNamed == (DeletionTypeOK <=> Typed) /\ (DeletionTypeOK' <=> Typed')
BY DEF Typed, DeletionTypeOK, DeletionRow, JobRow, AttemptRow, EraserRow

\* A mishap or a loss uses up one of those that are left.
LEMMA SpareStep == ASSUME spare \in Spare, Mishap \/ Loss \/ UNCHANGED spare PROVE spare' \in Spare
<1>1. CASE Mishap
  BY <1>1 DEF Mishap, Spare
<1>2. CASE Loss
  BY <1>2 DEF Loss, Spare
<1> QED
  BY <1>1, <1>2

\* A worker goes to another stage.
LEMMA AdvanceStep ==
  ASSUME eraser \in [Eraser -> EraserRow], NEW k \in Eraser, NEW pc \in EraserPc, Advance(k, pc)
  PROVE  /\ eraser' \in [Eraser -> EraserRow]
         /\ eraser'[k].pc = pc
         /\ \A j \in Eraser \ {k} : eraser'[j] = eraser[j]
BY DEF Advance, EraserRow

\* A worker with a lease has a request that a worker has begun, so it is not live.
LEMMA LeasedBegan ==
  ASSUME DeletionInv, NEW k \in Eraser, Leased(k)
  PROVE  deletion.started /\ ~connected
BY DEF Leased, DeletionInv, Standing

\* What worker k has achieved once a step is over, with what held before it.
Achieves(k) ==
  /\ deletion'.started
  /\ eraser'[k].pc = "quiesce" => ~credential
  /\ eraser'[k].pc \in Purging => /\ Quiet /\ ~credential
                                  /\ EmptiedBefore(eraser'[k].pc) \cap stores' = {}

\* A step on the deletion's side of the fence: no write gets further, nothing is
\* filled again, and a request that a worker has begun stays begun.
LEMMA DeletionGoesOn ==
  ASSUME DeletionInv, Typed',
         UNCHANGED <<connected, writer>>,
         \A w \in Writer : permit'[w] = permit[w] \/ (permit[w] # "open" /\ permit'[w] # "open"),
         stores' \subseteq stores, deletion.started \/ stores' = stores,
         credential' => credential, connected => credential',
         deletion.started => deletion'.started, deletion'.started => ~connected,
         deletion'.status \in {"none", "cancelled"} <=> deletion.status \in {"none", "cancelled"},
         deletion'.status \in {"running", "verifying", "completed"} => deletion'.started,
         deletion'.status = "completed" =>
           deletion.status = "completed" \/ (Quiet /\ stores = {} /\ ~credential),
         \A k \in Eraser : eraser'[k] = eraser[k] \/ eraser'[k].pc = "idle" \/ Achieves(k)
  PROVE  DeletionInv'
<1> USE DEF DeletionInv
<1>1. Quiet => Quiet'
  BY DEF Quiet
<1>2. Standing'
  BY DEF Standing
<1>3. \A w \in Writer : writer'[w] = "sending" => permit'[w] = "open"
  OBVIOUS
<1>4. ASSUME NEW k \in Eraser
      PROVE  Achieved(k)'
  <2>1. CASE eraser'[k] = eraser[k]
    <3>1. Achieved(k)
      OBVIOUS
    <3> QED
      BY <1>1, <2>1, <3>1 DEF Achieved
  <2>2. CASE eraser'[k].pc = "idle"
    BY <2>2 DEF Achieved, Purging
  <2>3. CASE Achieves(k)
    BY <1>1, <2>3 DEF Achieved, Achieves
  <2> QED
    BY <2>1, <2>2, <2>3
<1>5. deletion'.status = "completed" => Quiet' /\ stores' = {} /\ ~credential'
  BY <1>1
<1>6. LiveConnectionIsWhole'
  BY DEF LiveConnectionIsWhole, Standing
<1> QED
  BY <1>2, <1>3, <1>4, <1>5, <1>6, TypesNamed

\* A step of a worker on its way, which leaves everybody else's row alone.
LEMMA WorkerGoesOn ==
  ASSUME DeletionInv, Typed', NEW k \in Eraser,
         UNCHANGED <<connected, writer, deletion>>,
         \A w \in Writer : permit'[w] = permit[w] \/ (permit[w] # "open" /\ permit'[w] # "open"),
         stores' \subseteq stores, deletion.started,
         credential' => credential, connected => credential',
         \A j \in Eraser \ {k} : eraser'[j] = eraser[j],
         eraser'[k].pc = "idle" \/ Achieves(k)
  PROVE  DeletionInv'
BY DeletionGoesOn DEF DeletionInv, Standing

-------------------------------------------------------------------------------
(* The steps of the workers.                                               *)

\* A worker that fails, is refused or dies has achieved nothing any more.
LEMMA FailsKeeps ==
  ASSUME DeletionInv, NEW k \in Eraser, eraser[k].pc # "idle",
         Advance(k, "failed") \/ eraser' = [eraser EXCEPT ![k] = Resting],
         Mishap \/ UNCHANGED spare,
         UNCHANGED <<connectionVars, credential, stores, deletion, jobs, attempt, writerVars>>
  PROVE  DeletionInv'
<1>1. Typed
  BY TypesNamed DEF DeletionInv
<1>2. UNCHANGED <<connected, informed, credential, stores, deletion, jobs, attempt, writer,
                  permit>>
  BY DEF connectionVars, writerVars
<1>3. deletion.started
  BY DEF DeletionInv, Achieved
<1>4. spare' \in Spare
  BY <1>1, SpareStep DEF Typed
<1>5. /\ eraser' \in [Eraser -> EraserRow]
      /\ eraser'[k].pc \in {"failed", "idle"}
      /\ \A j \in Eraser \ {k} : eraser'[j] = eraser[j]
  <2>1. CASE Advance(k, "failed")
    BY <1>1, <2>1, AdvanceStep DEF Typed, EraserPc
  <2>2. CASE eraser' = [eraser EXCEPT ![k] = Resting]
    <3>1. Resting \in EraserRow /\ Resting.pc = "idle"
      BY DEF Resting, EraserRow, EraserPc, Evidence
    <3> QED
      BY <1>1, <2>2, <3>1 DEF Typed
  <2> QED
    BY <2>1, <2>2
<1>6. Typed'
  BY <1>1, <1>2, <1>4, <1>5 DEF Typed
<1>7. eraser'[k].pc = "idle" \/ Achieves(k)
  BY <1>2, <1>3, <1>5 DEF Achieves, Purging
<1>8. connected => credential
  BY DEF DeletionInv, LiveConnectionIsWhole
<1> QED
  BY <1>2, <1>3, <1>5, <1>6, <1>7, <1>8, WorkerGoesOn

\* The stages from the revocation to the verification that change no row of the
\* request: each goes on only after the one before.
LEMMA StageKeeps ==
  ASSUME DeletionInv, NEW k \in Eraser,
         \/ ReadContext(k) \/ TellVendor(k)
         \/ AssertQuiescent(k) \/ PurgeRaw(k) \/ PurgeAnalytical(k) \/ PurgeControl(k)
         \/ VerifyStores(k)
  PROVE  DeletionInv'
<1>1. Typed
  BY TypesNamed DEF DeletionInv
<1>2. eraser[k].pc # "idle" /\ deletion.started /\ ~connected
  BY DEF DeletionInv, Achieved, Standing, ReadContext, TellVendor, AssertQuiescent, PurgeRaw,
         PurgeAnalytical, PurgeControl, Purge, VerifyStores, EraserAt
<1>3. Achieved(k)
  BY DEF DeletionInv
<1> USE DEF EraserAt, connectionVars, writerVars
<1>4. CASE ReadContext(k)
  <2>1. UNCHANGED <<connected, informed, credential, stores, deletion, jobs, attempt, writer,
                    permit, spare>>
    BY <1>4 DEF ReadContext
  <2> DEFINE told == CASE deletion.evidence = "none" -> "empty"
                       [] deletion.evidence = "forced" -> "grace"
                       [] OTHER -> deletion.evidence
             row == IF credential THEN [eraser[k] EXCEPT !.pc = "tell"]
                    ELSE [eraser[k] EXCEPT !.pc = "destroy", !.evidence = told]
  <2>2. eraser' = [eraser EXCEPT ![k] = row]
    BY <1>4 DEF ReadContext
  <2>3. told \in Evidence
    BY <1>1 DEF Typed, DeletionRow, Evidence
  <2> HIDE DEF told
  <2>4. row \in EraserRow /\ row.pc \in {"tell", "destroy"}
    BY <1>1, <2>3 DEF Typed, EraserRow, EraserPc
  <2> HIDE DEF row
  <2>5. Typed' /\ eraser'[k].pc \in {"tell", "destroy"}
    BY <1>1, <2>1, <2>2, <2>4 DEF Typed
  <2>6. Achieves(k)
    BY <1>2, <2>1, <2>5 DEF Achieves, Purging
  <2>7. \A j \in Eraser \ {k} : eraser'[j] = eraser[j]
    BY <1>1, <2>2 DEF Typed
  <2> QED
    BY <1>2, <2>1, <2>5, <2>6, <2>7, WorkerGoesOn
<1>5. CASE TellVendor(k)
  <2>0. credential' \in BOOLEAN /\ (credential' => credential)
    <3>1. CASE credential' = (credential /\ ~Leased(k))
      <4>1. CASE Leased(k)
        <5>1. credential' = FALSE
          BY <3>1, <4>1
        <5> QED
          BY <5>1
      <4>2. CASE ~Leased(k)
        <5>1. credential' = credential
          <6>1. CASE credential = TRUE
            BY <3>1, <4>2, <6>1
          <6>2. CASE credential = FALSE
            BY <3>1, <6>2
          <6> QED
            BY <1>1, <6>1, <6>2 DEF Typed
        <5> QED
          BY <1>1, <5>1 DEF Typed
      <4> QED
        BY <4>1, <4>2
    <3>2. CASE credential' = credential
      BY <1>1, <3>2 DEF Typed
    <3> QED
      BY <1>5, <3>1, <3>2 DEF TellVendor
  <2>1. /\ UNCHANGED <<connected, stores, deletion, jobs, attempt, writer, permit>>
        /\ informed' \in BOOLEAN /\ credential' \in BOOLEAN /\ (credential' => credential)
    BY <1>1, <1>5, <2>0 DEF TellVendor, Typed
  <2>2. spare' \in Spare
    BY <1>1, <1>5, SpareStep DEF TellVendor, Typed
  <2> DEFINE row == [eraser[k] EXCEPT !.pc = "destroy", !.evidence = "outcome"]
  <2>3. eraser' = [eraser EXCEPT ![k] = row]
    BY <1>5 DEF TellVendor
  <2>4. row \in EraserRow /\ row.pc = "destroy"
    BY <1>1 DEF Typed, EraserRow, EraserPc, Evidence
  <2> HIDE DEF row
  <2>5. Typed' /\ eraser'[k].pc = "destroy"
    BY <1>1, <2>1, <2>2, <2>3, <2>4 DEF Typed
  <2>6. Achieves(k)
    BY <1>2, <2>1, <2>5 DEF Achieves, Purging
  <2> QED
    BY <1>1, <1>2, <2>1, <2>3, <2>5, <2>6, WorkerGoesOn DEF Typed
<1>6. CASE AssertQuiescent(k)
  <2>1. /\ UNCHANGED <<connected, informed, credential, stores, deletion, jobs, attempt, writer,
                       spare>>
        /\ permit' = [w \in Writer |-> "none"] /\ Advance(k, "raw") /\ "raw" \in EraserPc
        /\ eraser[k].pc = "quiesce" /\ Quiescent
    BY <1>6 DEF AssertQuiescent, EraserPc
  <2>2. /\ eraser' \in [Eraser -> EraserRow] /\ eraser'[k].pc = "raw"
        /\ \A j \in Eraser \ {k} : eraser'[j] = eraser[j]
    BY <1>1, <2>1, AdvanceStep DEF Typed
  <2>3. Quiet
    BY <2>1 DEF Quiet, Quiescent, DeletionInv
  <2>4. Typed'
    BY <1>1, <2>1, <2>2 DEF Typed
  <2>5. Achieves(k)
    BY <1>2, <1>3, <2>1, <2>2, <2>3 DEF Achieves, Achieved, EmptiedBefore
  <2> QED
    BY <1>2, <2>1, <2>2, <2>3, <2>4, <2>5, WorkerGoesOn DEF Quiet
<1>7. ASSUME NEW store \in {"raw", "analytical", "control"}, NEW next \in EraserPc,
             Purge(k, store, next),
             permit' \in {permit, [w \in Writer |-> "none"]},
             EmptiedBefore(next) \subseteq EmptiedBefore(store) \cup {store},
             next # "quiesce"
      PROVE  DeletionInv'
  <2>1. /\ UNCHANGED <<connected, informed, credential, deletion, jobs, attempt, writer, spare>>
        /\ stores' = stores \ {store} /\ Advance(k, next) /\ eraser[k].pc = store
    BY <1>7 DEF Purge
  <2>2. /\ eraser' \in [Eraser -> EraserRow] /\ eraser'[k].pc = next
        /\ \A j \in Eraser \ {k} : eraser'[j] = eraser[j]
    BY <1>1, <1>7, <2>1, AdvanceStep DEF Typed
  <2>3. Quiet /\ ~credential /\ EmptiedBefore(store) \cap stores = {}
    BY <1>3, <1>7, <2>1 DEF Achieved, Purging
  <2>4. permit' \in [Writer -> {"none", "open", "expired"}]
    BY <1>1, <1>7 DEF Typed
  <2>5. Typed'
    BY <1>1, <2>1, <2>2, <2>4 DEF Typed
  <2>6. Achieves(k)
    BY <1>2, <1>7, <2>1, <2>2, <2>3 DEF Achieves
  <2>7. \A w \in Writer : permit'[w] = permit[w] \/ (permit[w] # "open" /\ permit'[w] # "open")
    BY <1>7, <2>3 DEF Quiet
  <2> QED
    BY <1>2, <2>1, <2>2, <2>5, <2>6, <2>7, WorkerGoesOn
<1>8. CASE PurgeRaw(k) \/ PurgeAnalytical(k) \/ PurgeControl(k)
  BY <1>7, <1>8 DEF PurgeRaw, PurgeAnalytical, PurgeControl, EmptiedBefore, EraserPc, Store
<1>9. CASE VerifyStores(k)
  <2>1. /\ UNCHANGED <<connected, informed, credential, stores, deletion, jobs, attempt, writer,
                       permit, spare>>
        /\ Advance(k, "complete") /\ "complete" \in EraserPc /\ eraser[k].pc = "verify"
    BY <1>9 DEF VerifyStores, EraserPc
  <2>2. /\ eraser' \in [Eraser -> EraserRow] /\ eraser'[k].pc = "complete"
        /\ \A j \in Eraser \ {k} : eraser'[j] = eraser[j]
    BY <1>1, <2>1, AdvanceStep DEF Typed
  <2>3. Typed'
    BY <1>1, <2>1, <2>2 DEF Typed
  <2>4. Achieves(k)
    BY <1>2, <1>3, <2>1, <2>2 DEF Achieves, Achieved, Purging, EmptiedBefore
  <2> QED
    BY <1>2, <2>1, <2>2, <2>3, <2>4, WorkerGoesOn
<1> QED
  BY <1>4, <1>5, <1>6, <1>8, <1>9

\* The credential is destroyed and the evidence recorded.
LEMMA EvidenceKeeps ==
  ASSUME DeletionInv, NEW k \in Eraser, DestroyClaimed(k) \/ RecordEvidence(k)
  PROVE  DeletionInv'
<1>1. Typed
  BY TypesNamed DEF DeletionInv
<1>2. deletion.started /\ ~connected
  BY LeasedBegan DEF DestroyClaimed, RecordEvidence
<1>3. PICK pc \in {"record", "quiesce"} :
        /\ Advance(k, pc) /\ pc \in EraserPc
        /\ pc = "quiesce" => ~credential
  BY DEF DestroyClaimed, RecordEvidence, EraserPc
<1>4. /\ UNCHANGED <<connected, informed, stores, jobs, attempt, writer, permit, spare>>
      /\ credential' = credential \/ credential' = FALSE
      /\ credential' \in BOOLEAN /\ (credential' => credential)
  <2>1. /\ UNCHANGED <<connected, informed, stores, jobs, attempt, writer, permit, spare>>
        /\ credential' = credential \/ credential' = FALSE
    BY DEF DestroyClaimed, RecordEvidence, connectionVars, writerVars
  <2>2. CASE credential' = credential
    BY <1>1, <2>1, <2>2 DEF Typed
  <2>3. CASE credential' = FALSE
    BY <2>1, <2>3
  <2> QED
    BY <2>1, <2>2, <2>3
<1>5. /\ deletion' \in DeletionRow
      /\ deletion'.status = deletion.status /\ deletion'.started = deletion.started
  <2>1. eraser[k].evidence \in Evidence
    BY <1>1 DEF Typed, EraserRow
  <2>2. \/ deletion' = deletion
        \/ deletion' = [deletion EXCEPT !.evidence = eraser[k].evidence]
        \/ deletion' = [deletion EXCEPT !.destroyed = TRUE, !.evidence = eraser[k].evidence]
    BY DEF DestroyClaimed, RecordEvidence
  <2> QED
    BY <1>1, <2>1, <2>2 DEF Typed, DeletionRow
<1>6. /\ eraser' \in [Eraser -> EraserRow] /\ eraser'[k].pc = pc
      /\ \A j \in Eraser \ {k} : eraser'[j] = eraser[j]
  BY <1>1, <1>3, AdvanceStep DEF Typed
<1>7. Typed'
  BY <1>1, <1>4, <1>5, <1>6 DEF Typed
<1>8. Achieves(k)
  BY <1>2, <1>3, <1>5, <1>6 DEF Achieves, Purging
<1>9. /\ deletion'.status \in {"none", "cancelled"} <=> deletion.status \in {"none", "cancelled"}
      /\ deletion'.status \in {"running", "verifying", "completed"} => deletion'.started
  BY <1>5 DEF DeletionInv, Standing
<1> QED
  BY <1>2, <1>4, <1>5, <1>6, <1>7, <1>8, <1>9, DeletionGoesOn

\* The request is claimed: from here on it has begun.
LEMMA ClaimKeeps ==
  ASSUME DeletionInv, NEW k \in Eraser, NEW m \in Message, ClaimDeletion(k, m)
  PROVE  DeletionInv'
<1>1. Typed
  BY TypesNamed DEF DeletionInv
<1> DEFINE reads == jobs[m].reads + 1
<1>2. reads \in Nat
  BY <1>1 DEF Typed, JobRow
<1>3. /\ UNCHANGED <<connected, informed, credential, stores, writer, permit, spare>>
      /\ eraser[k].pc = "idle"
  BY DEF ClaimDeletion, connectionVars, writerVars, EraserAt
<1> HIDE DEF reads
<1>4. CASE Claimable(m)
  <2>1. /\ deletion' = [deletion EXCEPT !.status = "running", !.started = TRUE]
        /\ jobs' = [jobs EXCEPT ![m] = [at |-> "hidden", reads |-> reads]]
        /\ attempt' = IF reads > attempt.number
                      THEN [number |-> reads, by |-> k, done |-> FALSE] ELSE attempt
        /\ eraser' = [eraser EXCEPT ![k] = [Resting EXCEPT !.pc = "context",
                                            !.message = m, !.reads = reads]]
    BY <1>4 DEF ClaimDeletion, reads
  <2>2. /\ deletion' \in DeletionRow /\ deletion'.status = "running" /\ deletion'.started
        /\ deletion.status \in {"queued", "retry_wait", "running"}
    BY <1>1, <1>4, <2>1 DEF Typed, DeletionRow, Claimable
  <2>3. ~connected
    BY <2>2 DEF DeletionInv, Standing
  <2>4. [at |-> "hidden", reads |-> reads] \in JobRow
    BY <1>2 DEF JobRow
  <2>5. attempt' \in AttemptRow
    BY <1>1, <1>2, <2>1 DEF Typed, AttemptRow
  <2> DEFINE row == [Resting EXCEPT !.pc = "context", !.message = m, !.reads = reads]
  <2>6. row \in EraserRow /\ row.pc = "context"
    BY <1>2 DEF Resting, EraserRow, EraserPc, Evidence
  <2>7. eraser' = [eraser EXCEPT ![k] = row]
    BY <2>1
  <2> HIDE DEF row
  <2>8. /\ eraser' \in [Eraser -> EraserRow] /\ eraser'[k].pc = "context"
        /\ \A j \in Eraser \ {k} : eraser'[j] = eraser[j]
    BY <1>1, <2>6, <2>7 DEF Typed
  <2>9. Typed'
    BY <1>1, <1>3, <2>1, <2>2, <2>4, <2>5, <2>8 DEF Typed
  <2>10. Achieves(k)
    BY <2>2, <2>8 DEF Achieves, Purging
  <2> QED
    BY <1>3, <2>2, <2>3, <2>8, <2>9, <2>10, DeletionGoesOn
<1>5. CASE ~Claimable(m)
  <2>1. UNCHANGED <<deletion, attempt, eraser>> /\ jobs' = [jobs EXCEPT ![m] = NoMessage]
    BY <1>5 DEF ClaimDeletion
  <2>2. NoMessage \in JobRow
    BY DEF NoMessage, JobRow
  <2>3. Typed'
    BY <1>1, <1>3, <2>1, <2>2 DEF Typed
  <2> QED
    BY <1>3, <2>1, <2>3, DeletionGoesOn DEF DeletionInv, Standing, LiveConnectionIsWhole
<1> QED
  BY <1>4, <1>5

\* The verification begins, and the proof is issued by a worker that has verified.
LEMMA VerdictKeeps ==
  ASSUME DeletionInv, NEW k \in Eraser, MarkVerifying(k) \/ CompleteDeletion(k)
  PROVE  DeletionInv'
<1>1. Typed
  BY TypesNamed DEF DeletionInv
<1>2. deletion.started /\ ~connected
  BY LeasedBegan DEF MarkVerifying, CompleteDeletion
<1>3. Achieved(k)
  BY DEF DeletionInv
<1>4. deletion.status \in {"running", "verifying"}
  BY DEF MarkVerifying, CompleteDeletion, Leased
<1>5. CASE MarkVerifying(k)
  <2>1. /\ UNCHANGED <<connected, informed, credential, stores, jobs, attempt, writer, permit,
                       spare>>
        /\ deletion' = [deletion EXCEPT !.status = "verifying"]
        /\ Advance(k, "verify") /\ "verify" \in EraserPc /\ eraser[k].pc = "mark"
    BY <1>5 DEF MarkVerifying, connectionVars, writerVars, EraserPc, EraserAt
  <2>2. /\ eraser' \in [Eraser -> EraserRow] /\ eraser'[k].pc = "verify"
        /\ \A j \in Eraser \ {k} : eraser'[j] = eraser[j]
    BY <1>1, <2>1, AdvanceStep DEF Typed
  <2>3. /\ deletion' \in DeletionRow /\ deletion'.status = "verifying"
        /\ deletion'.started
    BY <1>1, <1>2, <2>1 DEF Typed, DeletionRow
  <2>4. Typed'
    BY <1>1, <2>1, <2>2, <2>3 DEF Typed
  <2>5. Achieves(k)
    BY <1>3, <2>1, <2>2, <2>3 DEF Achieves, Achieved, Purging, EmptiedBefore
  <2> QED
    BY <1>2, <1>4, <2>1, <2>2, <2>3, <2>4, <2>5, DeletionGoesOn
<1>6. CASE CompleteDeletion(k)
  <2>1. /\ UNCHANGED <<connected, informed, credential, stores, writer, permit, spare>>
        /\ deletion' = [deletion EXCEPT !.status = "completed", !.message = 0]
        /\ jobs' = [jobs EXCEPT ![eraser[k].message] = NoMessage]
        /\ attempt' = [attempt EXCEPT !.done = TRUE]
        /\ eraser' = [eraser EXCEPT ![k] = Resting]
        /\ eraser[k].pc = "complete"
    BY <1>6 DEF CompleteDeletion, connectionVars, writerVars, EraserAt
  <2>2. Resting \in EraserRow /\ Resting.pc = "idle" /\ NoMessage \in JobRow
    BY DEF Resting, EraserRow, EraserPc, Evidence, NoMessage, JobRow
  <2>3. /\ eraser' \in [Eraser -> EraserRow] /\ eraser'[k].pc = "idle"
        /\ \A j \in Eraser \ {k} : eraser'[j] = eraser[j]
    BY <1>1, <2>1, <2>2 DEF Typed
  <2>4. deletion' \in DeletionRow /\ deletion'.status = "completed" /\ deletion'.started
    BY <1>1, <1>2, <2>1 DEF Typed, DeletionRow
  <2>5. attempt' \in AttemptRow
    BY <1>1, <2>1 DEF Typed, AttemptRow
  <2>6. jobs' \in [Message -> JobRow]
    BY <1>1, <2>1, <2>2 DEF Typed
  <2>7. Typed'
    BY <1>1, <2>1, <2>3, <2>4, <2>5, <2>6 DEF Typed
  <2>8. Quiet /\ stores = {} /\ ~credential
    BY <1>1, <1>3, <2>1 DEF Achieved, Purging, EmptiedBefore, Typed
  <2> QED
    BY <1>2, <1>4, <2>1, <2>3, <2>4, <2>7, <2>8, DeletionGoesOn
<1> QED
  BY <1>5, <1>6

\* An attempt is given up, for the time being or for good.
LEMMA RetryKeeps ==
  ASSUME DeletionInv, NEW k \in Eraser, RetryDeletion(k)
  PROVE  DeletionInv'
<1>1. Typed
  BY TypesNamed DEF DeletionInv
<1>2. deletion.started /\ ~connected /\ deletion.status \in {"running", "verifying"}
  BY LeasedBegan DEF RetryDeletion, Leased
<1>3. PICK status \in {"failed", "retry_wait"}, message \in {deletion.message, 0} :
        deletion' = [deletion EXCEPT !.status = status, !.message = message]
  <2>1. [deletion EXCEPT !.status = "retry_wait"] =
        [deletion EXCEPT !.status = "retry_wait", !.message = deletion.message]
    BY <1>1 DEF Typed, DeletionRow
  <2> QED
    BY <2>1 DEF RetryDeletion
<1>4. /\ UNCHANGED <<connected, informed, credential, stores, writer, permit, spare>>
      /\ attempt' = [attempt EXCEPT !.done = TRUE]
      /\ eraser' = [eraser EXCEPT ![k] = Resting]
  BY DEF RetryDeletion, connectionVars, writerVars
<1>5. Resting \in EraserRow /\ Resting.pc = "idle" /\ NoMessage \in JobRow
  BY DEF Resting, EraserRow, EraserPc, Evidence, NoMessage, JobRow
<1>6. /\ eraser' \in [Eraser -> EraserRow] /\ eraser'[k].pc = "idle"
      /\ \A j \in Eraser \ {k} : eraser'[j] = eraser[j]
  BY <1>1, <1>4, <1>5 DEF Typed
<1>7. deletion' \in DeletionRow /\ deletion'.status = status /\ deletion'.started
  BY <1>1, <1>2, <1>3 DEF Typed, DeletionRow
<1>8. attempt' \in AttemptRow
  BY <1>1, <1>4 DEF Typed, AttemptRow
<1>9. jobs' \in [Message -> JobRow]
  BY <1>1, <1>5 DEF Typed, RetryDeletion
<1>10. Typed'
  BY <1>1, <1>4, <1>6, <1>7, <1>8, <1>9 DEF Typed
<1> QED
  BY <1>2, <1>4, <1>6, <1>7, <1>10, DeletionGoesOn

-------------------------------------------------------------------------------
(* The request, its queue and its watchdog.                                *)

\* Sending a message queues the request.
LEMMA SendStep ==
  ASSUME Typed, NEW row \in DeletionRow, Send(row)
  PROVE  /\ jobs' \in [Message -> JobRow]
         /\ deletion' \in DeletionRow /\ deletion'.status = "queued"
         /\ deletion'.started = row.started
<1>1. PICK m \in Unused :
        /\ jobs' = [jobs EXCEPT ![m] = [at |-> "visible", reads |-> 0]]
        /\ deletion' = [row EXCEPT !.status = "queued", !.message = m]
  BY DEF Send
<1>2. m \in Message /\ [at |-> "visible", reads |-> 0] \in JobRow
  BY DEF Unused, JobRow
<1>3. jobs' \in [Message -> JobRow]
  BY <1>1, <1>2 DEF Typed
<1> QED
  BY <1>1, <1>2, <1>3 DEF DeletionRow

\* The connection is fenced; no worker is on its way then.
LEMMA RequestKeeps == ASSUME DeletionInv, RequestDeletion PROVE DeletionInv'
<1>1. Typed
  BY TypesNamed DEF DeletionInv
<1>2. /\ connected /\ connected' = FALSE /\ Send(NoDeletion) /\ attempt' = NoAttempt
      /\ UNCHANGED <<credential, informed, stores, eraser, writer, permit, spare>>
  BY DEF RequestDeletion, writerVars
<1>3. NoDeletion \in DeletionRow /\ ~NoDeletion.started /\ NoAttempt \in AttemptRow
  BY DEF NoDeletion, DeletionRow, Evidence, NoAttempt, AttemptRow
<1>4. /\ jobs' \in [Message -> JobRow]
      /\ deletion' \in DeletionRow /\ deletion'.status = "queued" /\ ~deletion'.started
  BY <1>1, <1>2, <1>3, SendStep
<1>5. Typed'
  BY <1>1, <1>2, <1>3, <1>4 DEF Typed
<1>6. stores = Store
  BY <1>2 DEF DeletionInv, LiveConnectionIsWhole
<1>7. Standing'
  BY <1>2, <1>4, <1>6 DEF Standing
<1>8. ASSUME NEW k \in Eraser
      PROVE  eraser[k].pc = "idle"
  BY <1>2 DEF DeletionInv, Standing, Achieved
<1>9. \A k \in Eraser : Achieved(k)'
  BY <1>2, <1>8 DEF Achieved, Purging
<1>10. LiveConnectionIsWhole'
  BY <1>2 DEF LiveConnectionIsWhole
<1> QED
  BY <1>2, <1>4, <1>5, <1>7, <1>9, <1>10, TypesNamed DEF DeletionInv

\* A reconnect finds the connection as it was, since no worker has begun.
LEMMA ReconnectKeeps == ASSUME DeletionInv, Reconnect PROVE DeletionInv'
<1>1. Typed
  BY TypesNamed DEF DeletionInv
<1>2. /\ ~deletion.started /\ credential /\ connected' = TRUE
      /\ deletion' = [deletion EXCEPT !.status = "cancelled"]
      /\ UNCHANGED <<credential, informed, stores, jobs, attempt, eraser, writer, permit, spare>>
  BY DEF Reconnect, writerVars
<1>3. deletion' \in DeletionRow /\ deletion'.status = "cancelled" /\ ~deletion'.started
  BY <1>1, <1>2 DEF Typed, DeletionRow
<1>4. Typed'
  BY <1>1, <1>2, <1>3 DEF Typed
<1>5. stores = Store
  BY <1>2 DEF DeletionInv, Standing
<1>6. Standing' /\ LiveConnectionIsWhole'
  BY <1>2, <1>3, <1>5 DEF Standing, LiveConnectionIsWhole
<1>7. ASSUME NEW k \in Eraser
      PROVE  eraser[k].pc = "idle"
  BY <1>2 DEF DeletionInv, Achieved
<1>8. \A k \in Eraser : Achieved(k)'
  BY <1>2, <1>7 DEF Achieved, Purging
<1> QED
  BY <1>2, <1>3, <1>4, <1>6, <1>8, TypesNamed DEF DeletionInv

\* The scheduler, the visibility timeout and the watchdog, which destroys the
\* credential of a request that stands.
LEMMA QueueKeeps ==
  ASSUME DeletionAssumption, DeletionInv,
         Requeue \/ ForceDestruction \/ \E m \in Message : Reappear(m)
  PROVE  DeletionInv'
<1>1. Typed
  BY TypesNamed DEF DeletionInv
<1>2. CASE Requeue
  <2>1. /\ deletion.status \in {"queued", "failed"} /\ Send(deletion)
        /\ attempt' = [attempt EXCEPT !.number =
                         IF attempt.number > MaxNumber THEN MaxNumber ELSE attempt.number]
        /\ UNCHANGED <<connected, informed, credential, stores, eraser, writer, permit, spare>>
    BY <1>2 DEF Requeue, Due, connectionVars, writerVars
  <2>2. /\ jobs' \in [Message -> JobRow]
        /\ deletion' \in DeletionRow /\ deletion'.status = "queued"
        /\ deletion'.started = deletion.started
    BY <1>1, <2>1, SendStep DEF Typed
  <2>3. attempt' \in AttemptRow
    BY <1>1, <2>1 DEF Typed, AttemptRow, DeletionAssumption
  <2>4. Typed'
    BY <1>1, <2>1, <2>2, <2>3 DEF Typed
  <2> QED
    BY <2>1, <2>2, <2>4, DeletionGoesOn DEF DeletionInv, Standing
<1>3. CASE ForceDestruction
  <2>1. /\ deletion.status \in {"queued", "running", "retry_wait", "failed"}
        /\ credential' = FALSE
        /\ deletion' = [deletion EXCEPT !.destroyed = TRUE, !.evidence = "forced"]
        /\ UNCHANGED <<connected, informed, stores, jobs, attempt, eraser, writer, permit, spare>>
    BY <1>3 DEF ForceDestruction, Overdue, connectionVars, writerVars
  <2>2. /\ deletion' \in DeletionRow
        /\ deletion'.status = deletion.status /\ deletion'.started = deletion.started
    BY <1>1, <2>1 DEF Typed, DeletionRow, Evidence
  <2>3. Typed'
    BY <1>1, <2>1, <2>2 DEF Typed
  <2>4. ~connected /\ (deletion.status = "running" => deletion.started)
    BY <2>1 DEF DeletionInv, Standing
  <2> QED
    BY <2>1, <2>2, <2>3, <2>4, DeletionGoesOn
<1>4. ASSUME NEW m \in Message, Reappear(m)
      PROVE  DeletionInv'
  <2>1. /\ jobs' = [jobs EXCEPT ![m].at = "visible"]
        /\ UNCHANGED <<connected, informed, credential, stores, deletion, attempt, eraser, writer,
                       permit>>
        /\ Mishap \/ UNCHANGED spare
    BY <1>4 DEF Reappear, connectionVars, writerVars
  <2>2. jobs' \in [Message -> JobRow]
    BY <1>1, <2>1 DEF Typed, JobRow
  <2>3. spare' \in Spare
    BY <1>1, <2>1, SpareStep DEF Typed
  <2>4. Typed'
    BY <1>1, <2>1, <2>2, <2>3 DEF Typed
  <2> QED
    BY <2>1, <2>4, DeletionGoesOn DEF DeletionInv, Standing, LiveConnectionIsWhole
<1> QED
  BY <1>2, <1>3, <1>4

-------------------------------------------------------------------------------
(* The steps of the sync jobs.                                             *)

\* A write gets further only while it holds an open permit, and a permit is
\* granted for a live connection only.
LEMMA WriteGoesOn ==
  ASSUME DeletionInv, Typed', UNCHANGED deletionSide,
         stores \subseteq stores',
         \A w \in Writer : writer'[w] = "sending" => permit'[w] = "open",
         connected \/ \A w \in Writer : permit'[w] = "open" => permit[w] = "open",
         \A w \in Writer : writer'[w] = "sending" => writer[w] = "sending" \/ permit[w] = "open",
         Quiet => stores' = stores
  PROVE  DeletionInv'
<1>1. UNCHANGED <<connected, informed, credential, deletion, jobs, attempt, eraser>>
  BY DEF deletionSide, connectionVars
<1>2. stores \in SUBSET Store /\ stores' \in SUBSET Store
  BY TypesNamed DEF DeletionInv, Typed
<1>3. stores = Store => stores' = Store
  BY <1>2
<1>4. Standing'
  BY <1>1, <1>3 DEF DeletionInv, Standing
<1>5. deletion.started /\ Quiet => Quiet' /\ stores' = stores
  BY DEF Quiet, DeletionInv, Standing
<1>6. ASSUME NEW k \in Eraser
      PROVE  Achieved(k)'
  <2>1. Achieved(k)
    BY DEF DeletionInv
  <2>2. eraser[k].pc \in Purging => deletion.started
    BY <2>1 DEF Achieved, Purging
  <2> QED
    BY <1>1, <1>5, <2>1, <2>2 DEF Achieved
<1>7. deletion'.status = "completed" => Quiet' /\ stores' = {} /\ ~credential'
  BY <1>1, <1>5 DEF DeletionInv, Standing
<1>8. LiveConnectionIsWhole'
  BY <1>1, <1>3 DEF DeletionInv, LiveConnectionIsWhole
<1> QED
  BY <1>4, <1>6, <1>7, <1>8, TypesNamed DEF DeletionInv

\* Each step of a sync job: no open permit, no object and no row.
LEMMA WriterKeeps ==
  ASSUME DeletionInv, NEW w \in Writer,
         \/ AcquirePermit(w) \/ WritePage(w) \/ LoseLock(w) \/ AbandonPermit(w)
         \/ ExpirePermit(w) \/ SweepPermit(w)
  PROVE  DeletionInv'
<1>1. Typed
  BY TypesNamed DEF DeletionInv
<1>2. UNCHANGED deletionSide
  BY DEF AcquirePermit, WritePage, SendRaw, StoreRaw, EnterFence, Land, ReleasePermit, LoseLock,
         AbandonPermit, ExpirePermit, SweepPermit
<1>3. UNCHANGED <<connected, informed, credential, deletion, jobs, attempt, eraser>>
  BY <1>2 DEF deletionSide, connectionVars
<1>4. PICK pc \in WriterPc : writer' = [writer EXCEPT ![w] = pc]
  <2>1. writer[w] \in WriterPc /\ writer = [writer EXCEPT ![w] = writer[w]]
    BY <1>1 DEF Typed
  <2> QED
    BY <2>1 DEF AcquirePermit, WritePage, SendRaw, StoreRaw, EnterFence, Land, ReleasePermit,
         LoseLock, AbandonPermit, ExpirePermit, SweepPermit, Proceed, WriterPc
<1>5. PICK row \in {"none", "open", "expired"} : permit' = [permit EXCEPT ![w] = row]
  <2>1. permit[w] \in {"none", "open", "expired"} /\ permit = [permit EXCEPT ![w] = permit[w]]
    BY <1>1 DEF Typed
  <2> QED
    BY <2>1 DEF AcquirePermit, WritePage, SendRaw, StoreRaw, EnterFence, Land, ReleasePermit,
         LoseLock, AbandonPermit, ExpirePermit, SweepPermit
<1>6. spare' \in Spare
  <2>1. CASE AcquirePermit(w)
    BY <1>1, <2>1 DEF AcquirePermit, Typed, Spare
  <2>2. Loss \/ UNCHANGED spare \/ AcquirePermit(w)
    BY DEF WritePage, SendRaw, StoreRaw, EnterFence, Land, ReleasePermit, LoseLock,
         AbandonPermit, ExpirePermit, SweepPermit
  <2> QED
    BY <1>1, <2>1, <2>2, SpareStep DEF Typed
<1>7. stores' \in {stores, stores \cup {"raw"}, stores \cup {"analytical"}}
  BY DEF AcquirePermit, WritePage, SendRaw, StoreRaw, EnterFence, Land, ReleasePermit, LoseLock,
         AbandonPermit, ExpirePermit, SweepPermit
<1>8. Typed'
  BY <1>1, <1>3, <1>4, <1>5, <1>6, <1>7 DEF Typed, Store
<1>9. writer'[w] = pc /\ permit'[w] = row
  BY <1>1, <1>4, <1>5 DEF Typed
<1>10. \A v \in Writer \ {w} : writer'[v] = writer[v] /\ permit'[v] = permit[v]
  BY <1>1, <1>4, <1>5 DEF Typed
<1>11. /\ writer'[w] = "sending" => permit'[w] = "open" /\ permit[w] = "open"
       /\ connected \/ (permit'[w] = "open" => permit[w] = "open")
       /\ permit[w] # "open" /\ writer[w] # "sending" => stores' = stores
  <2>1. CASE AcquirePermit(w)
    BY <1>1, <1>9, <2>1 DEF AcquirePermit, Admitting, Proceed, Typed, WriterAt
  <2>2. CASE SendRaw(w)
    BY <1>1, <2>2 DEF SendRaw, Proceed, Typed
  <2>3. CASE StoreRaw(w)
    BY <1>1, <2>3 DEF StoreRaw, Proceed, Typed, WriterAt
  <2>4. CASE EnterFence(w)
    BY <1>1, <2>4 DEF EnterFence, Proceed, Typed
  <2>5. CASE LoseLock(w) \/ AbandonPermit(w) \/ Land(w) \/ ReleasePermit(w)
    BY <1>1, <2>5 DEF LoseLock, AbandonPermit, Land, ReleasePermit, Proceed, Typed
  <2>6. CASE ExpirePermit(w) \/ SweepPermit(w)
    BY <1>1, <2>6 DEF ExpirePermit, SweepPermit, Typed, WriterAt
  <2> QED
    BY <2>1, <2>2, <2>3, <2>4, <2>5, <2>6 DEF WritePage
<1>12. \A v \in Writer : writer[v] = "sending" => permit[v] = "open"
  BY DEF DeletionInv
<1>13. Quiet => stores' = stores
  BY <1>11 DEF Quiet
<1> QED
  BY <1>2, <1>7, <1>8, <1>10, <1>11, <1>12, <1>13, WriteGoesOn

-------------------------------------------------------------------------------
(* The theorems.                                                           *)

\* The initial states satisfy the invariant.
LEMMA DeletionStarts == ASSUME DeletionAssumption PROVE DeletionInit => DeletionInv
<1> SUFFICES ASSUME DeletionInit
             PROVE  DeletionInv
  OBVIOUS
<1> USE DEF DeletionInit
<1>1. Resting \in EraserRow /\ Resting.pc = "idle"
  BY DEF Resting, EraserRow, EraserPc, Evidence
<1>2. NoDeletion \in DeletionRow /\ NoDeletion.status = "none" /\ ~NoDeletion.started
  BY DEF NoDeletion, DeletionRow, Evidence
<1>3. NoAttempt \in AttemptRow /\ NoMessage \in JobRow /\ spare \in Spare
  BY DEF NoAttempt, AttemptRow, NoMessage, JobRow, DeletionAssumption
<1>4. Typed
  BY <1>1, <1>2, <1>3 DEF Typed, WriterPc
<1>5. Standing
  BY <1>2 DEF Standing
<1>6. \A k \in Eraser : Achieved(k)
  BY <1>1 DEF Achieved, Purging
<1> QED
  BY <1>2, <1>4, <1>5, <1>6, TypesNamed DEF DeletionInv, LiveConnectionIsWhole

\* A refused call fails the worker that made it.
LEMMA RefusedKeeps == ASSUME DeletionInv, NEW k \in Eraser, StageRefused(k) PROVE DeletionInv'
<1>1. eraser[k].pc # "idle" /\ Advance(k, "failed")
  BY DEF StageRefused, Refused, EraserAt
<1>2. UNCHANGED <<connectionVars, credential, stores, deletion, jobs, attempt, writerVars, spare>>
  BY DEF StageRefused, Refused
<1> QED
  BY <1>1, <1>2, FailsKeeps

\* Every step keeps the invariant.
LEMMA DeletionStep ==
  ASSUME DeletionAssumption, DeletionInv, [DeletionNext]_deletionVars
  PROVE  DeletionInv'
<1>1. CASE UNCHANGED deletionVars
  BY <1>1 DEF deletionVars, DeletionInv, DeletionTypeOK, Standing, Quiet, Achieved,
       LiveConnectionIsWhole
<1>2. ASSUME NEW k \in Eraser, Erase(k)
      PROVE  DeletionInv'
  <2>1. CASE AbandonClaim(k)
    BY <2>1, FailsKeeps DEF AbandonClaim, EraserAt
  <2> QED
    BY <1>2, <2>1, StageKeeps, EvidenceKeeps, ClaimKeeps, VerdictKeeps, RetryKeeps, RefusedKeeps
       DEF Erase
<1>3. ASSUME NEW k \in Eraser, StageFails(k) \/ CrashEraser(k)
      PROVE  DeletionInv'
  BY <1>3, FailsKeeps DEF StageFails, CrashEraser
<1>4. ASSUME NEW w \in Writer,
             AcquirePermit(w) \/ WritePage(w) \/ LoseLock(w) \/ AbandonPermit(w)
             \/ ExpirePermit(w) \/ SweepPermit(w)
      PROVE  DeletionInv'
  BY <1>4, WriterKeeps
<1>5. ASSUME RequestDeletion \/ Requeue \/ Reconnect \/ ForceDestruction
             \/ \E m \in Message : Reappear(m)
      PROVE  DeletionInv'
  BY <1>5, RequestKeeps, ReconnectKeeps, QueueKeeps
<1> QED
  BY <1>1, <1>2, <1>3, <1>4, <1>5 DEF DeletionNext

\* DeletionInv is an invariant, for any number of workers, jobs and mishaps.
THEOREM DeletionInvariant == DeletionSpec => []DeletionInv
<1>1. DeletionInit => DeletionInv
  BY DeletionStarts, DeletionAssumption
<1>2. DeletionInv /\ [DeletionNext]_deletionVars => DeletionInv'
  BY DeletionStep, DeletionAssumption
<1> QED
  BY <1>1, <1>2, PTL DEF DeletionSpec

\* Every variable of the deletion keeps its type.
THEOREM DeletionTypes == DeletionSpec => []DeletionTypeOK
<1>1. DeletionInv => DeletionTypeOK
  BY DEF DeletionInv
<1> QED
  BY <1>1, DeletionInvariant, PTL

\* The proof of a deletion is true when it is issued and ever after
\* (complete_deletion_job, assert_deletion_quiescent, the permits of 0038).
THEOREM ProofsAreTrue == DeletionSpec => []ProofIsTrue
<1>1. DeletionInv => ProofIsTrue
  BY DEF DeletionInv, ProofIsTrue
<1> QED
  BY <1>1, DeletionInvariant, PTL

\* A live connection has its credential and its data, however a reconnect, a
\* worker's claim and the watchdog interleave (0086, claim_deletion_jobs, 0020).
THEOREM LiveConnectionsAreWhole == DeletionSpec => []LiveConnectionIsWhole
<1>1. DeletionInv => LiveConnectionIsWhole
  BY DEF DeletionInv
<1> QED
  BY <1>1, DeletionInvariant, PTL

\* No step but the grace of a forced destruction changes evidence on record.
LEMMA EvidenceStep ==
  ASSUME DeletionInv, DeletionNext, deletion.destroyed, deletion'.destroyed
  PROVE  \/ deletion'.evidence = deletion.evidence
         \/ deletion.evidence = "forced" /\ deletion'.evidence = "grace"
<1>1. deletion \in DeletionRow
  BY TypesNamed DEF DeletionInv, Typed
<1>2. ASSUME NEW k \in Eraser, Erase(k) \/ StageFails(k) \/ CrashEraser(k)
      PROVE  \/ deletion'.evidence = deletion.evidence
             \/ deletion.evidence = "forced" /\ deletion'.evidence = "grace"
  <2>1. CASE RecordEvidence(k)
    BY <1>1, <2>1 DEF RecordEvidence, Preserves, DeletionRow
  <2>2. CASE DestroyClaimed(k)
    BY <2>2 DEF DestroyClaimed
  <2>3. CASE MarkVerifying(k) \/ CompleteDeletion(k) \/ RetryDeletion(k)
    BY <1>1, <2>3 DEF MarkVerifying, CompleteDeletion, RetryDeletion, DeletionRow
  <2>4. CASE \E m \in Message : ClaimDeletion(k, m)
    BY <1>1, <2>4 DEF ClaimDeletion, DeletionRow
  <2>5. CASE StageRefused(k)
    BY <2>5 DEF StageRefused, Refused
  <2>6. CASE ReadContext(k) \/ TellVendor(k) \/ AssertQuiescent(k) \/ PurgeRaw(k)
             \/ PurgeAnalytical(k) \/ PurgeControl(k) \/ VerifyStores(k) \/ AbandonClaim(k)
             \/ StageFails(k) \/ CrashEraser(k)
    BY <2>6 DEF ReadContext, TellVendor, AssertQuiescent, PurgeRaw, PurgeAnalytical,
         PurgeControl, Purge, VerifyStores, AbandonClaim, StageFails, CrashEraser
  <2> QED
    BY <1>2, <2>1, <2>2, <2>3, <2>4, <2>5, <2>6 DEF Erase
<1>3. ASSUME NEW w \in Writer,
             AcquirePermit(w) \/ WritePage(w) \/ LoseLock(w) \/ AbandonPermit(w)
             \/ ExpirePermit(w) \/ SweepPermit(w)
      PROVE  deletion' = deletion
  BY <1>3 DEF AcquirePermit, WritePage, SendRaw, StoreRaw, EnterFence, Land, ReleasePermit,
       LoseLock, AbandonPermit, ExpirePermit, SweepPermit, deletionSide
<1>4. ASSUME NEW m \in Message, Reappear(m)
      PROVE  deletion' = deletion
  BY <1>4 DEF Reappear
<1>5. CASE RequestDeletion
  <2>1. PICK m \in Unused : deletion' = [NoDeletion EXCEPT !.status = "queued", !.message = m]
    BY <1>5 DEF RequestDeletion, Send
  <2> QED
    BY <2>1 DEF NoDeletion
<1>6. CASE Requeue
  <2>1. PICK m \in Unused : deletion' = [deletion EXCEPT !.status = "queued", !.message = m]
    BY <1>6 DEF Requeue, Send
  <2> QED
    BY <1>1, <2>1 DEF DeletionRow
<1>7. CASE Reconnect \/ ForceDestruction
  BY <1>1, <1>7 DEF Reconnect, ForceDestruction, Overdue, DeletionRow
<1> QED
  BY <1>2, <1>3, <1>4, <1>5, <1>6, <1>7 DEF DeletionNext

\* Evidence recorded with the destruction of the credential stays as it is
\* (destroy_claimed_deletion_credentials, record_deletion_progress).
THEOREM EvidenceStays == DeletionSpec => EvidenceIsKept
<1>1. DeletionInv /\ [DeletionNext]_deletionVars =>
        [deletion.destroyed /\ deletion'.destroyed =>
           \/ deletion'.evidence = deletion.evidence
           \/ deletion.evidence = "forced" /\ deletion'.evidence = "grace"]_deletionVars
  BY EvidenceStep
<1> QED
  BY <1>1, DeletionInvariant, PTL DEF DeletionSpec, EvidenceIsKept
===============================================================================
