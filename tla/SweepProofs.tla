------------------------------ MODULE SweepProofs ------------------------------
(***************************************************************************)
(* What holds of a reconciliation sweep whatever its records, the size of  *)
(* a page and the lanes are: a record gets a tombstone only if each scan   *)
(* has read a page while the vendor did not list it, in place of a version *)
(* that was copied before the first scan.                                  *)
(***************************************************************************)
EXTENDS ReconciliationSweep, FiniteSetTheorems, TLAPS

\* What is kept for a copied record, a scan, a job and a lane.
Copy == [stamp : Nat, gone : BOOLEAN, old : BOOLEAN]
ScanRow == [status : {"absent", "running", "complete", "failed"},
            seen : SUBSET Source, pages : SUBSET (0 .. LastSource)]
ErrandRow == [status : {"absent", "succeeded", "failed"} \cup Open, reads : Nat,
              holder : Sweeper \cup {NoSweeper}, due : BOOLEAN, asked : Nat]
BatchType == [made : BOOLEAN, rows : SUBSET (Source \X Nat)]
SweeperState == [at : {"idle"} \cup Stage, job : Errand, read : Nat,
                 rows : SUBSET (Source \X Nat), more : BOOLEAN, fault : Failure]

\* Every step is one of these.
LEMMA SweepSteps ==
  ASSUME SweepNext
  PROVE  \/ \E r \in Source : Put(r) \/ Drop(r) \/ Poll(r)
         \/ \E j \in Errand : RetryComesDue(j) \/ WindowPasses(j) \/ LaneStalls(j)
         \/ \E l \in Sweeper :
              \/ BeginPhase(l) \/ Extract(l) \/ LandRows(l) \/ RecordNothing(l) \/ RecordScan(l)
              \/ RecordApplications(l) \/ Conclude(l) \/ CommitPhase(l) \/ Continue(l)
              \/ FinishErrand(l) \/ FindLeaseLost(l) \/ BlockPhase(l) \/ RetryErrand(l)
              \/ MeetUpset(l) \/ MeetRateLimit(l) \/ LoseSweeper(l)
         \/ \E l \in Sweeper, j \in Errand : ClaimErrand(l, j)
BY DEF SweepNext, Sweeps

LEMMA ErrandParts ==
  /\ NoJob \in Errand
  /\ \A j \in Errand : j[1] \in Phase /\ j[2] \in 0 .. LastSource
  /\ \A p \in Phase, k \in 0 .. LastSource :
       <<p, k>> \in Errand /\ <<p, k>>[1] = p /\ <<p, k>>[2] = k
  /\ \A j \in Errand : j[1] # Apply => j[1] + 1 \in Phase
  /\ Source \subseteq 0 .. LastSource /\ 0 \in 0 .. LastSource
BY SweepAssumption DEF SweepAssumption, Errand, Phase, NoJob, LateEdits, Apply, Source

\* What a step makes of a lane.
LEMMA SweeperTypes ==
  ASSUME sweeper \in [Sweeper -> SweeperState], NEW l \in Sweeper
  PROVE  /\ AtRest \in SweeperState
         /\ \A at \in Stage : [sweeper[l] EXCEPT !.at = at] \in SweeperState
         /\ \A fault \in Failure :
              [sweeper[l] EXCEPT !.at = "blocking", !.fault = fault, !.rows = {}] \in SweeperState
         /\ \A rows \in SUBSET (Source \X Nat), more \in BOOLEAN :
              [sweeper[l] EXCEPT !.at = "land", !.rows = rows, !.more = more] \in SweeperState
         /\ \A j \in Errand, read \in Nat :
              [AtRest EXCEPT !.at = "begin", !.job = j, !.read = read] \in SweeperState
<1>1. AtRest \in SweeperState
  BY ErrandParts DEF SweeperState, AtRest, Failure
<1>2. \A at \in Stage : [sweeper[l] EXCEPT !.at = at] \in SweeperState
  BY DEF SweeperState
<1>3. \A fault \in Failure :
        [sweeper[l] EXCEPT !.at = "blocking", !.fault = fault, !.rows = {}] \in SweeperState
  BY DEF SweeperState, Stage
<1>4. ASSUME NEW rows \in SUBSET (Source \X Nat), NEW more \in BOOLEAN
      PROVE  [sweeper[l] EXCEPT !.at = "land", !.rows = rows, !.more = more] \in SweeperState
  BY DEF SweeperState, Stage
<1>5. ASSUME NEW j \in Errand, NEW read \in Nat
      PROVE  [AtRest EXCEPT !.at = "begin", !.job = j, !.read = read] \in SweeperState
  BY DEF SweeperState, AtRest, Stage, Failure
<1> QED BY <1>1, <1>2, <1>3, <1>4, <1>5

LEMMA LaneMoves ==
  ASSUME sweeper \in [Sweeper -> SweeperState], NEW l \in Sweeper,
         \/ \E at \in Stage : Goes(l, at)
         \/ \E fault \in Failure : Throws(l, fault)
         \/ sweeper' = [sweeper EXCEPT ![l] = AtRest]
  PROVE  sweeper' \in [Sweeper -> SweeperState]
<1>1. CASE \E at \in Stage : Goes(l, at)
  <2>1. PICK at \in Stage : Goes(l, at)
    BY <1>1
  <2>2. [sweeper[l] EXCEPT !.at = at] \in SweeperState
    BY SweeperTypes
  <2> DEFINE state == [sweeper[l] EXCEPT !.at = at]
  <2>3. state \in SweeperState /\ sweeper' = [sweeper EXCEPT ![l] = state]
    BY <2>1, <2>2 DEF Goes
  <2> HIDE DEF state
  <2> QED BY <2>3
<1>2. CASE \E fault \in Failure : Throws(l, fault)
  <2>1. PICK fault \in Failure : Throws(l, fault)
    BY <1>2
  <2> DEFINE state == [sweeper[l] EXCEPT !.at = "blocking", !.fault = fault, !.rows = {}]
  <2>2. state \in SweeperState /\ sweeper' = [sweeper EXCEPT ![l] = state]
    BY <2>1, SweeperTypes DEF Throws
  <2> HIDE DEF state
  <2> QED BY <2>2
<1>3. CASE sweeper' = [sweeper EXCEPT ![l] = AtRest]
  BY <1>3, SweeperTypes
<1> QED BY <1>1, <1>2, <1>3

\* What a step makes of a row of the ledger.
LEMMA ErrandTypes ==
  ASSUME errand \in [Errand -> ErrandRow], NEW j \in Errand
  PROVE  /\ \A b \in BOOLEAN : [errand[j] EXCEPT !.due = b] \in ErrandRow
         /\ [errand[j] EXCEPT !.holder = NoSweeper] \in ErrandRow
         /\ [errand[j] EXCEPT !.status = "succeeded", !.holder = NoSweeper] \in ErrandRow
         /\ \A status \in {"failed", "retry_wait"}, due \in BOOLEAN :
              [errand[j] EXCEPT !.status = status, !.holder = NoSweeper, !.due = due] \in ErrandRow
         /\ \A l \in Sweeper :
              [errand[j] EXCEPT !.status = "running", !.reads = @ + 1, !.holder = l, !.due = TRUE]
                \in ErrandRow
         /\ \A asked \in Nat :
              [NoErrand EXCEPT !.status = "queued", !.asked = asked] \in ErrandRow
<1> USE DEF ErrandRow, Open
<1>1. \A b \in BOOLEAN : [errand[j] EXCEPT !.due = b] \in ErrandRow
  OBVIOUS
<1>2. [errand[j] EXCEPT !.holder = NoSweeper] \in ErrandRow
  OBVIOUS
<1>3. [errand[j] EXCEPT !.status = "succeeded", !.holder = NoSweeper] \in ErrandRow
  OBVIOUS
<1>4. \A status \in {"failed", "retry_wait"}, due \in BOOLEAN :
        [errand[j] EXCEPT !.status = status, !.holder = NoSweeper, !.due = due] \in ErrandRow
  OBVIOUS
<1>5. \A l \in Sweeper :
        [errand[j] EXCEPT !.status = "running", !.reads = @ + 1, !.holder = l, !.due = TRUE]
          \in ErrandRow
  <2>1. errand[j].reads + 1 \in Nat
    OBVIOUS
  <2> QED BY <2>1
<1>6. \A asked \in Nat :
        [NoErrand EXCEPT !.status = "queued", !.asked = asked] \in ErrandRow
  BY DEF NoErrand
<1> QED BY <1>1, <1>2, <1>3, <1>4, <1>5, <1>6

LEMMA PublishedTypes ==
  ASSUME errand \in [Errand -> ErrandRow], clock \in Nat, NEW j \in Errand
  PROVE  Published(j) \in [Errand -> ErrandRow]
BY ErrandTypes DEF Published

LEMMA UpsertedTypes ==
  ASSUME copy \in [Source -> Copy], NEW r \in Source, NEW stamp \in Nat, NEW gone \in BOOLEAN
  PROVE  Upserted(r, stamp, gone) \in Copy
BY DEF Upserted, Copy

\* The version of a record in a batch is one of its rows.
LEMMA BatchedVersion ==
  ASSUME NEW j \in Errand, NEW r \in Batched(j)
  PROVE  LET row == CHOOSE row \in batch[j].rows : row[1] = r
         IN  row \in batch[j].rows /\ row[1] = r
BY DEF Batched

LEMMA LandedTypes ==
  ASSUME copy \in [Source -> Copy], batch \in [Errand -> BatchType], NEW j \in Errand
  PROVE  Landed(j) \in [Source -> Copy]
<1>2. batch[j].rows \subseteq Source \X Nat
  BY DEF BatchType
<1>3. ASSUME NEW r \in Source, r \in Batched(j)
      PROVE  Upserted(r, (CHOOSE row \in batch[j].rows : row[1] = r)[2], j[1] = Apply) \in Copy
  <2>1. (CHOOSE row \in batch[j].rows : row[1] = r)[2] \in Nat
    BY <1>2, <1>3, BatchedVersion
  <2>2. (j[1] = Apply) \in BOOLEAN
    OBVIOUS
  <2> QED BY <2>1, <2>2, UpsertedTypes
<1> QED BY <1>3 DEF Landed

LEMMA SweepTypesInit == SweepInit => SweepTypeOK
<1> SUFFICES ASSUME SweepInit PROVE SweepTypeOK
  OBVIOUS
<1>1. margin \in Margin /\ listed \subseteq Source
  BY SweepAssumption DEF SweepAssumption, SweepInit, Margin
<1>2. copy \in [Source -> [stamp : Nat, gone : BOOLEAN, old : BOOLEAN]]
  BY DEF SweepInit
<1>3. scan \in [Scan -> ScanRow]
  BY DEF SweepInit, NoScan, ScanRow
<1>4. errand \in [Errand -> ErrandRow]
  <2>1. NoErrand \in ErrandRow /\ [NoErrand EXCEPT !.status = "queued", !.asked = 2] \in ErrandRow
    BY DEF NoErrand, ErrandRow, Open
  <2> QED BY <2>1 DEF SweepInit
<1>5. batch \in [Errand -> [made : BOOLEAN, rows : SUBSET (Source \X Nat)]]
  BY DEF SweepInit, NoBatch
<1>6. sweeper \in [Sweeper -> SweeperState]
  <2>1. AtRest \in SweeperState
    BY ErrandParts DEF SweeperState, AtRest, Failure
  <2> QED BY <2>1 DEF SweepInit
<1>7. sweep \in [phase : LateEdits .. Complete,
                 status : {"planned", "running", "blocked", "complete"},
                 owner : (Errand \X Nat) \cup {NoOwner}]
  BY DEF SweepInit, LateEdits, Complete
<1>8. /\ edition \in [Source -> Nat] /\ clock \in Nat /\ applied \subseteq Source
      /\ reconciled \in BOOLEAN /\ changed \in Nat /\ upset \in Nat
      /\ missing \in [Scan -> SUBSET Source]
  BY DEF SweepInit
<1> QED BY <1>1, <1>2, <1>3, <1>4, <1>5, <1>6, <1>7, <1>8
        DEF SweepTypeOK, ScanRow, ErrandRow, SweeperState

\* Which of the types a step may disturb.
SweepRowType == [phase : LateEdits .. Complete,
                 status : {"planned", "running", "blocked", "complete"},
                 owner : (Errand \X Nat) \cup {NoOwner}]
OtherTypes ==
  /\ edition \in [Source -> Nat] /\ listed \subseteq Source /\ clock \in Nat
  /\ applied \subseteq Source /\ reconciled \in BOOLEAN
  /\ missing \in [Scan -> SUBSET Source]
  /\ margin \in Margin /\ changed \in Nat /\ upset \in Nat

SweepParts ==
  /\ copy \in [Source -> Copy] /\ scan \in [Scan -> ScanRow] /\ sweep \in SweepRowType
  /\ errand \in [Errand -> ErrandRow] /\ batch \in [Errand -> BatchType]
  /\ sweeper \in [Sweeper -> SweeperState] /\ OtherTypes

LEMMA SweepTypeParts == SweepTypeOK <=> SweepParts
BY DEF SweepParts, SweepTypeOK, Copy, ScanRow, SweepRowType, ErrandRow, BatchType, SweeperState,
       OtherTypes

LEMMA ExtractTypes ==
  ASSUME SweepParts, NEW l \in Sweeper, Extract(l)
  PROVE  sweeper' \in [Sweeper -> SweeperState] /\ batch' \in [Errand -> BatchType]
<1> USE DEF SweepParts
<1> DEFINE j == sweeper[l].job
           found == IF j[1] = Apply THEN Candidates(j[2]) ELSE Asked(j[1], j[2])
           page == FirstPage(found)
           rows == {<<r, IF j[1] = Apply THEN copy[r].stamp ELSE edition[r]>> : r \in page}
           content == IF j[1] = Apply THEN {<<r, errand[j].asked>> : r \in page} ELSE rows
           more == (found # page \/ Cardinality(page) = PageSize)
<1>1. j \in Errand
  BY DEF SweeperState
<1>2. page \subseteq Source
  BY DEF FirstPage, Candidates, Asked, OtherTypes
<1>3. \A r \in Source : copy[r].stamp \in Nat /\ edition[r] \in Nat /\ errand[j].asked \in Nat
  BY <1>1 DEF Copy, OtherTypes, ErrandRow
<1>4. rows \in SUBSET (Source \X Nat) /\ content \in SUBSET (Source \X Nat) /\ more \in BOOLEAN
  BY <1>2, <1>3
<1>5. \/ /\ batch' = [batch EXCEPT ![j] = [made |-> TRUE, rows |-> content]]
         /\ sweeper' = [sweeper EXCEPT ![l] = [@ EXCEPT !.at = "land", !.rows = rows, !.more = more]]
      \/ Throws(l, "passing") /\ UNCHANGED batch
  BY DEF Extract
<1> HIDE DEF j, rows, content, more, page, found
<1>6. CASE /\ batch' = [batch EXCEPT ![j] = [made |-> TRUE, rows |-> content]]
           /\ sweeper' = [sweeper EXCEPT ![l] =
                [@ EXCEPT !.at = "land", !.rows = rows, !.more = more]]
  <2> DEFINE state == [sweeper[l] EXCEPT !.at = "land", !.rows = rows, !.more = more]
  <2>1. state \in SweeperState /\ sweeper' = [sweeper EXCEPT ![l] = state]
    BY <1>4, <1>6, SweeperTypes
  <2>2. [made |-> TRUE, rows |-> content] \in BatchType
    BY <1>4 DEF BatchType
  <2> HIDE DEF state
  <2> QED BY <1>1, <1>6, <2>1, <2>2
<1>7. CASE Throws(l, "passing") /\ UNCHANGED batch
  BY <1>7, LaneMoves DEF Failure
<1> QED BY <1>5, <1>6, <1>7

LEMMA RecordScanTypes ==
  ASSUME SweepParts, NEW l \in Sweeper, RecordScan(l)
  PROVE  scan' \in [Scan -> ScanRow] /\ copy' \in [Source -> Copy]
<1> USE DEF SweepParts
<1> DEFINE j == sweeper[l].job
           p == j[1]
           seen == scan[p].seen \cup Batched(j)
           known == j[2] \in scan[p].pages
           result == IF known THEN scan[p].status
                     ELSE IF ~sweeper[l].more THEN Judged(p, seen)
                     ELSE IF scan[p].status = "absent" THEN "running" ELSE scan[p].status
           row == [status |-> result, seen |-> seen, pages |-> scan[p].pages \cup {j[2]}]
<1>1. j \in Errand /\ p \in Scan
  BY DEF SweeperState, RecordScan
<1>2. j[2] \in 0 .. LastSource
  BY <1>1, ErrandParts
<1>3. Batched(j) \subseteq Source
  BY <1>1 DEF Batched, BatchType
<1>4. result \in {"absent", "running", "complete", "failed"}
  BY <1>1 DEF ScanRow, Judged
<1>5. row \in ScanRow
  BY <1>1, <1>2, <1>3, <1>4 DEF ScanRow
<1>6. UNCHANGED scan \/ scan' = [scan EXCEPT ![p] = row]
  BY DEF RecordScan
<1>7. scan' \in [Scan -> ScanRow]
  <2> HIDE DEF row, p
  <2> QED BY <1>1, <1>5, <1>6
<1>8. UNCHANGED copy \/ copy' = [r \in Source |-> [copy[r] EXCEPT !.old = TRUE]]
  BY DEF RecordScan
<1>9. \A r \in Source : [copy[r] EXCEPT !.old = TRUE] \in Copy
  BY DEF Copy
<1> QED BY <1>7, <1>8, <1>9

LEMMA SweepPartsStep == SweepParts /\ [SweepNext]_sweepVars => SweepParts'
<1> SUFFICES ASSUME SweepParts, [SweepNext]_sweepVars PROVE SweepParts'
  OBVIOUS
<1> USE DEF SweepParts
<1> USE DEF vendorVars, store, bounds
<1>1. CASE UNCHANGED sweepVars
  BY <1>1 DEF sweepVars, OtherTypes
<1>2. ASSUME NEW r \in Source, Put(r) \/ Drop(r) PROVE SweepParts'
  <2>1. edition' \in [Source -> Nat] /\ clock' \in Nat /\ changed' \in Nat /\ listed' \subseteq Source
    BY <1>2 DEF Put, Drop, Changes, OtherTypes
  <2> QED BY <1>2, <2>1 DEF Put, Drop, OtherTypes
<1>3. ASSUME NEW r \in Source, Poll(r) PROVE SweepParts'
  <2>1. edition[r] \in Nat
    BY DEF OtherTypes
  <2>2. Upserted(r, edition[r], FALSE) \in Copy
    BY <2>1, UpsertedTypes
  <2>3. copy' \in [Source -> Copy]
    BY <1>3, <2>2 DEF Poll
  <2> QED BY <1>3, <2>3 DEF Poll, OtherTypes
<1>4. ASSUME NEW j \in Errand, RetryComesDue(j) \/ WindowPasses(j) \/ LaneStalls(j)
      PROVE  SweepParts'
  <2>1. errand' \in [Errand -> ErrandRow]
    BY <1>4, ErrandTypes DEF RetryComesDue, WindowPasses, LaneStalls, LoseLease
  <2>2. upset' \in Nat /\ UNCHANGED margin
    BY <1>4 DEF RetryComesDue, WindowPasses, LaneStalls, Upset, OtherTypes
  <2> QED BY <1>4, <2>1, <2>2
          DEF RetryComesDue, WindowPasses, LaneStalls, LoseLease, OtherTypes
<1>5. ASSUME NEW l \in Sweeper, NEW j \in Errand, ClaimErrand(l, j) PROVE SweepParts'
  <2>1. errand' \in [Errand -> ErrandRow]
    BY <1>5, ErrandTypes DEF ClaimErrand
  <2> DEFINE state == [AtRest EXCEPT !.at = "begin", !.job = j, !.read = errand[j].reads + 1]
  <2>2. errand[j].reads + 1 \in Nat
    BY DEF ErrandRow
  <2>3. state \in SweeperState
    BY <2>2, SweeperTypes
  <2>4. sweeper' = [sweeper EXCEPT ![l] = state]
    BY <1>5 DEF ClaimErrand
  <2> HIDE DEF state
  <2>5. sweeper' \in [Sweeper -> SweeperState]
    BY <2>3, <2>4
  <2> QED BY <1>5, <2>1, <2>5 DEF ClaimErrand, OtherTypes
<1>6. ASSUME NEW l \in Sweeper, BeginPhase(l) \/ CommitPhase(l) \/ BlockPhase(l)
      PROVE  SweepParts'
  <2>1. sweeper' \in [Sweeper -> SweeperState]
    <3>1. \/ \E at \in Stage : Goes(l, at)
          \/ \E fault \in Failure : Throws(l, fault)
          \/ sweeper' = [sweeper EXCEPT ![l] = AtRest]
      BY <1>6 DEF BeginPhase, CommitPhase, BlockPhase, Stage, Failure
    <3> QED BY <3>1, LaneMoves
  <2>2. Owner(l) \in Errand \X Nat /\ sweeper[l].job[1] \in Phase
    BY ErrandParts DEF Owner, SweeperState
  <2> DEFINE owner == Owner(l)
             next == sweeper[l].job[1] + 1
  <2>3. next \in LateEdits .. Complete
    BY <2>2 DEF Phase, LateEdits, Apply, Complete
  <2>4. \/ UNCHANGED sweep
        \/ sweep' = [sweep EXCEPT !.status = "running", !.owner = owner]
        \/ sweep' = [sweep EXCEPT !.status = "blocked", !.owner = NoOwner]
        \/ \E status \in {"complete", "planned"} :
             sweep' = [phase |-> next, status |-> status, owner |-> NoOwner]
    BY <1>6 DEF BeginPhase, CommitPhase, BlockPhase
  <2>5. owner \in Errand \X Nat
    BY <2>2
  <2> HIDE DEF owner, next
  <2>6. sweep' \in SweepRowType
    <3> DEFINE taken == [sweep EXCEPT !.status = "running", !.owner = owner]
               given == [sweep EXCEPT !.status = "blocked", !.owner = NoOwner]
    <3>1. taken \in SweepRowType
      BY <2>5 DEF SweepRowType
    <3>2. given \in SweepRowType
      BY DEF SweepRowType
    <3>3. \A status \in {"complete", "planned"} :
            [phase |-> next, status |-> status, owner |-> NoOwner] \in SweepRowType
      BY <2>3 DEF SweepRowType
    <3> HIDE DEF taken, given
    <3> QED BY <2>4, <3>1, <3>2, <3>3 DEF taken, given
  <2> QED BY <1>6, <2>1, <2>6 DEF BeginPhase, CommitPhase, BlockPhase, OtherTypes
<1>7. ASSUME NEW l \in Sweeper, Extract(l) PROVE SweepParts'
  <2>1. sweeper' \in [Sweeper -> SweeperState] /\ batch' \in [Errand -> BatchType]
    BY <1>7, ExtractTypes
  <2>2. missing' \in [Scan -> SUBSET Source]
    BY <1>7 DEF Extract, OtherTypes
  <2> QED BY <1>7, <2>1, <2>2 DEF Extract, OtherTypes
<1>8. ASSUME NEW l \in Sweeper, LandRows(l) PROVE SweepParts'
  <2>1. sweeper' \in [Sweeper -> SweeperState]
    <3>1. (\E at \in Stage : Goes(l, at)) \/ (\E fault \in Failure : Throws(l, fault))
      BY <1>8 DEF LandRows, Stage, Failure
    <3> QED BY <3>1, LaneMoves
  <2>2. sweeper[l].job \in Errand
    BY DEF SweeperState
  <2>3. Landed(sweeper[l].job) \in [Source -> Copy]
    BY <2>2, LandedTypes
  <2>4. copy' \in [Source -> Copy]
    BY <1>8, <2>3 DEF LandRows
  <2> QED BY <1>8, <2>1, <2>4 DEF LandRows, OtherTypes
<1>9. ASSUME NEW l \in Sweeper, RecordNothing(l) \/ RecordApplications(l) PROVE SweepParts'
  <2>1. sweeper' \in [Sweeper -> SweeperState]
    <3>1. (\E at \in Stage : Goes(l, at)) \/ (\E fault \in Failure : Throws(l, fault))
      BY <1>9 DEF RecordNothing, RecordApplications, Stage, Failure
    <3> QED BY <3>1, LaneMoves
  <2>2. {row[1] : row \in sweeper[l].rows} \subseteq Source
    BY DEF SweeperState
  <2>3. applied' \subseteq Source
    BY <1>9, <2>2 DEF RecordNothing, RecordApplications, OtherTypes
  <2> QED BY <1>9, <2>1, <2>3 DEF RecordNothing, RecordApplications, OtherTypes
<1>10. ASSUME NEW l \in Sweeper, RecordScan(l) PROVE SweepParts'
  <2>1. sweeper' \in [Sweeper -> SweeperState]
    <3>1. (\E at \in Stage : Goes(l, at)) \/ (\E fault \in Failure : Throws(l, fault))
      BY <1>10 DEF RecordScan, Stage, Failure
    <3> QED BY <3>1, LaneMoves
  <2>2. scan' \in [Scan -> ScanRow] /\ copy' \in [Source -> Copy]
    BY <1>10, RecordScanTypes
  <2> QED BY <1>10, <2>1, <2>2 DEF RecordScan, OtherTypes
<1>11. ASSUME NEW l \in Sweeper, Conclude(l) PROVE SweepParts'
  <2>1. sweeper' \in [Sweeper -> SweeperState]
    <3>1. (\E at \in Stage : Goes(l, at)) \/ (\E fault \in Failure : Throws(l, fault))
      BY <1>11 DEF Conclude, Tallies, PublishesNext, Stage, Failure
    <3> QED BY <3>1, LaneMoves
  <2>2. errand' \in [Errand -> ErrandRow] /\ reconciled' \in BOOLEAN
    <3>1. sweeper[l].job \in Errand
      BY DEF SweeperState
    <3>2. CASE Tallies(l)
      BY <3>2 DEF Tallies, OtherTypes
    <3>3. CASE PublishesNext(l)
      <4>1. <<sweeper[l].job[1] + 1, 0>> \in Errand
        BY <3>1, <3>3, ErrandParts DEF PublishesNext
      <4> QED BY <3>3, <4>1, PublishedTypes DEF PublishesNext, OtherTypes
    <3> QED BY <1>11, <3>2, <3>3 DEF Conclude
  <2> QED BY <1>11, <2>1, <2>2 DEF Conclude, OtherTypes
<1>12. ASSUME NEW l \in Sweeper, Continue(l) PROVE SweepParts'
  <2>1. sweeper' \in [Sweeper -> SweeperState]
    BY <1>12, LaneMoves DEF Continue, Stage
  <2>2. errand' \in [Errand -> ErrandRow]
    <3>1. PICK row \in sweeper[l].rows : errand' = Published(<<sweeper[l].job[1], row[1]>>)
      BY <1>12 DEF Continue
    <3>2. row[1] \in Source /\ sweeper[l].job \in Errand
      BY DEF SweeperState
    <3>3. <<sweeper[l].job[1], row[1]>> \in Errand
      BY <3>2, ErrandParts
    <3> QED BY <3>1, <3>3, PublishedTypes DEF OtherTypes
  <2> QED BY <1>12, <2>1, <2>2 DEF Continue, OtherTypes
<1>13. ASSUME NEW l \in Sweeper, FinishErrand(l) \/ RetryErrand(l) \/ MeetRateLimit(l)
       PROVE  SweepParts'
  <2>1. sweeper' \in [Sweeper -> SweeperState]
    BY <1>13, LaneMoves DEF FinishErrand, RetryErrand, MeetRateLimit
  <2>2. sweeper[l].job \in Errand /\ Exhausted(l) \in BOOLEAN
    BY DEF SweeperState, Exhausted
  <2> DEFINE j == sweeper[l].job
             done == [errand[j] EXCEPT !.status = "succeeded", !.holder = NoSweeper]
             status == IF Exhausted(l) THEN "failed" ELSE "retry_wait"
             later == [errand[j] EXCEPT !.status = status, !.holder = NoSweeper,
                                        !.due = Exhausted(l)]
             put == [errand[j] EXCEPT !.status = "retry_wait", !.holder = NoSweeper, !.due = FALSE]
  <2>3. errand' \in [Errand -> ErrandRow]
    <3>1. done \in ErrandRow /\ put \in ErrandRow
      BY <2>2, ErrandTypes
    <3>2. status \in {"failed", "retry_wait"}
      OBVIOUS
    <3>3. later \in ErrandRow
      <4> HIDE DEF status
      <4> QED BY <2>2, <3>2, ErrandTypes
    <3>4. \/ errand' = errand \/ errand' = [errand EXCEPT ![j] = done]
          \/ errand' = [errand EXCEPT ![j] = later] \/ errand' = [errand EXCEPT ![j] = put]
      BY <1>13 DEF FinishErrand, RetryErrand, MeetRateLimit
    <3> HIDE DEF done, put, later
    <3> QED BY <3>1, <3>3, <3>4
  <2>4. upset' \in Nat /\ UNCHANGED margin
    BY <1>13 DEF FinishErrand, RetryErrand, MeetRateLimit, Upset, OtherTypes
  <2> QED BY <1>13, <2>1, <2>3, <2>4 DEF FinishErrand, RetryErrand, MeetRateLimit, OtherTypes
<1>14. ASSUME NEW l \in Sweeper, FindLeaseLost(l) \/ MeetUpset(l) \/ LoseSweeper(l)
       PROVE  SweepParts'
  <2>1. sweeper' \in [Sweeper -> SweeperState]
    <3>1. (\E fault \in Failure : Throws(l, fault)) \/ sweeper' = [sweeper EXCEPT ![l] = AtRest]
      BY <1>14 DEF FindLeaseLost, MeetUpset, LoseSweeper, Failure
    <3> QED BY <3>1, LaneMoves
  <2>2. upset' \in Nat /\ UNCHANGED margin
    BY <1>14 DEF FindLeaseLost, MeetUpset, LoseSweeper, Upset, OtherTypes
  <2> QED BY <1>14, <2>1, <2>2 DEF FindLeaseLost, MeetUpset, LoseSweeper, OtherTypes
<1> QED
  BY <1>1, <1>2, <1>3, <1>4, <1>5, <1>6, <1>7, <1>8, <1>9, <1>10, <1>11, <1>12, <1>13, <1>14,
     SweepSteps

\* The variables keep their types.
THEOREM SweepTypeCorrect == SweepSpec => []SweepTypeOK
<1>1. SweepInit => SweepParts
  BY SweepTypesInit, SweepTypeParts
<1>2. SweepParts => SweepTypeOK
  BY SweepTypeParts
<1> QED BY <1>1, <1>2, SweepPartsStep, PTL DEF SweepSpec

-------------------------------------------------------------------------------
(* The invariant.  A scan that is complete has seen every record or missed it: *)
(* its pages follow one another without a gap.  A tombstone's page is of       *)
(* versions that precede every tombstone, so a row that is still current is    *)
(* still the candidate it was.                                                 *)

Listed(j) == errand[j].status # "absent"
AtPage == {"land", "record", "continue"}

JobsAreListed == \A l \in Sweeper : sweeper[l].at # "idle" => Listed(sweeper[l].job)

ScansAreInOrder ==
  /\ \A p \in Scan : scan[p].status = "absent" => scan[p].pages = {}
  /\ scan[Verify].status # "absent" => scan[Identity].status # "absent"
  /\ \A l \in Sweeper : sweeper[l].at = "conclude" /\ sweeper[l].job[1] = Verify =>
       scan[Verify].status # "absent"
  /\ \A j \in Errand : j[1] = Apply /\ Listed(j) => scan[Identity].status # "absent"

VersionsArePast ==
  /\ \A r \in Source : edition[r] < clock
  /\ \A r \in Source : ~copy[r].gone => copy[r].stamp < clock
  /\ \A j \in Errand : j[1] # Apply => \A row \in batch[j].rows : row[2] < clock

TombstonesAreLater ==
  /\ \A j \in Errand : j[1] = Apply => \A row \in batch[j].rows :
       Listed(j) /\ row[2] = errand[j].asked
  /\ \A j \in Errand, r \in Source :
       j[1] = Apply /\ Listed(j) /\ copy[r].old /\ ~copy[r].gone => copy[r].stamp < errand[j].asked

PagesAreBatches ==
  \A l \in Sweeper : sweeper[l].at \in AtPage =>
    /\ batch[sweeper[l].job].made
    /\ {row[1] : row \in sweeper[l].rows} = Batched(sweeper[l].job)

PagesAreComplete ==
  \A l \in Sweeper : sweeper[l].at \in AtPage /\ sweeper[l].job[1] \in Scan =>
    \A r \in Source : r > sweeper[l].job[2] =>
      \/ r \in Batched(sweeper[l].job)
      \/ r \in missing[sweeper[l].job[1]]
      \/ sweeper[l].more /\ \A s \in Batched(sweeper[l].job) : s < r

PagesAreSeen ==
  \A l \in Sweeper : sweeper[l].at = "continue" /\ sweeper[l].job[1] \in Scan =>
    Batched(sweeper[l].job) \subseteq scan[sweeper[l].job[1]].seen

ScansAreContiguous ==
  \A j \in Errand : j[1] \in Scan /\ Listed(j) =>
    \A r \in Source : r <= j[2] => r \in scan[j[1]].seen \cup missing[j[1]]

ScansAreComplete ==
  \A p \in Scan : scan[p].status = "complete" =>
    \A r \in Source : r \in scan[p].seen \cup missing[p]

\* What is kept of a version that a lane holds for a tombstone.
Due(row) ==
  /\ \A p \in Scan : row[1] \in missing[p]
  /\ \A j \in Errand : j[1] = Apply /\ Listed(j) => row[2] < errand[j].asked
  /\ row[2] < clock
  /\ \/ copy[row[1]].stamp > row[2]
     \/ copy[row[1]].stamp = row[2] /\ copy[row[1]].old /\ ~copy[row[1]].gone

TombstonesAreDue ==
  \A l \in Sweeper : sweeper[l].at = "land" /\ sweeper[l].job[1] = Apply =>
    \A row \in sweeper[l].rows : Due(row)

SweepIInv ==
  /\ SweepParts
  /\ JobsAreListed /\ ScansAreInOrder /\ VersionsArePast /\ TombstonesAreLater
  /\ PagesAreBatches /\ PagesAreComplete /\ PagesAreSeen
  /\ ScansAreContiguous /\ ScansAreComplete /\ TombstonesAreDue

\* Numbers and records that the invariant compares.
LEMMA SweepKinds ==
  ASSUME SweepParts
  PROVE  /\ clock \in Nat
         /\ \A r \in Source : r \in Nat /\ copy[r].stamp \in Nat /\ edition[r] \in Nat
         /\ \A l \in Sweeper : /\ sweeper[l].job \in Errand
                               /\ sweeper[l].job[1] \in Phase /\ sweeper[l].job[2] \in Nat
                               /\ sweeper[l].rows \subseteq Source \X Nat
         /\ \A j \in Errand : /\ j[1] \in Phase /\ j[2] \in Nat
                              /\ errand[j].asked \in Nat
                              /\ batch[j].rows \subseteq Source \X Nat
                              /\ Batched(j) \subseteq Source
<1> USE DEF SweepParts
<1>1. clock \in Nat /\ \A r \in Source : r \in Nat /\ copy[r].stamp \in Nat /\ edition[r] \in Nat
  BY DEF OtherTypes, Copy, Source
<1>2. ASSUME NEW j \in Errand
      PROVE  /\ j[1] \in Phase /\ j[2] \in Nat
             /\ errand[j].asked \in Nat
             /\ batch[j].rows \subseteq Source \X Nat
             /\ Batched(j) \subseteq Source
  <2>1. j[1] \in Phase /\ j[2] \in 0 .. LastSource
    BY ErrandParts
  <2>2. j[2] \in Nat
    BY <2>1, SweepAssumption DEF SweepAssumption
  <2>3. errand[j].asked \in Nat /\ batch[j].rows \subseteq Source \X Nat
    BY DEF ErrandRow, BatchType
  <2> QED BY <2>1, <2>2, <2>3 DEF Batched
<1>3. ASSUME NEW l \in Sweeper
      PROVE  sweeper[l].job \in Errand /\ sweeper[l].rows \subseteq Source \X Nat
  BY DEF SweeperState
<1> QED BY <1>1, <1>2, <1>3

\* The first page of what is found is below the rest.
LEMMA FirstPageIsFirst ==
  ASSUME NEW found \in SUBSET Source, NEW r \in found \ FirstPage(found), NEW s \in FirstPage(found)
  PROVE  s < r
<1>1. r \in Nat /\ s \in Nat /\ s \in found /\ r # s
  BY DEF FirstPage, Source
<1>2. SUFFICES ASSUME r < s PROVE FALSE
  BY <1>1
<1> DEFINE below(t) == {x \in found : x < t}
<1>3. below(r) \subseteq below(s)
  <2>1. ASSUME NEW x \in found, x < r PROVE x < s
    BY <1>1, <1>2, <2>1 DEF Source
  <2> QED BY <2>1
<1>4. IsFiniteSet(Source)
  BY SweepAssumption, FS_Interval DEF SweepAssumption, Source
<1>5. IsFiniteSet(below(s)) /\ IsFiniteSet(below(r))
  BY <1>4, FS_Subset
<1>6. Cardinality(below(r)) <= Cardinality(below(s))
  BY <1>3, <1>5, FS_Subset
<1>7. Cardinality(below(r)) \in Nat /\ Cardinality(below(s)) \in Nat
  BY <1>5, FS_CardinalityType
<1>8. Cardinality(below(s)) < PageSize /\ ~(Cardinality(below(r)) < PageSize)
  BY DEF FirstPage
<1> QED BY <1>6, <1>7, <1>8, SweepAssumption DEF SweepAssumption

LEMMA SweepIInvInit == SweepInit => SweepIInv
<1> SUFFICES ASSUME SweepInit PROVE SweepIInv
  OBVIOUS
<1>1. SweepParts
  BY SweepTypesInit, SweepTypeParts
<1>2. \A l \in Sweeper : sweeper[l].at = "idle"
  BY DEF SweepInit, AtRest
<1>3. \A j \in Errand : Listed(j) => j[1] = LateEdits /\ j[2] = 0
  BY ErrandParts DEF SweepInit, Listed, NoErrand
<1>4. \A j \in Errand : batch[j].rows = {}
  BY DEF SweepInit, NoBatch
<1>5. \A p \in Scan : scan[p].status = "absent" /\ scan[p].pages = {}
  BY DEF SweepInit, NoScan
<1>6. ScansAreInOrder
  BY <1>2, <1>3, <1>5 DEF ScansAreInOrder, Scan, Identity, Verify, Apply, LateEdits
<1>7. VersionsArePast
  BY <1>4 DEF VersionsArePast, SweepInit
<1>8. TombstonesAreLater
  BY <1>3, <1>4 DEF TombstonesAreLater, Apply, LateEdits
<1>9. ScansAreContiguous
  BY <1>3 DEF ScansAreContiguous, Scan, Identity, Verify, LateEdits
<1>10. ScansAreComplete
  BY <1>5 DEF ScansAreComplete
<1>11. JobsAreListed /\ PagesAreBatches /\ PagesAreComplete /\ PagesAreSeen /\ TombstonesAreDue
  BY <1>2 DEF JobsAreListed, PagesAreBatches, PagesAreComplete, PagesAreSeen, TombstonesAreDue, AtPage
<1> QED BY <1>1, <1>6, <1>7, <1>8, <1>9, <1>10, <1>11 DEF SweepIInv

-------------------------------------------------------------------------------
(* Steps that the invariant hardly notices: nothing is copied, recorded, read  *)
(* or published, and a lane at most leaves the page it is at.                  *)

Rests(l) ==
  \/ sweeper'[l] = sweeper[l]
  \/ /\ sweeper'[l].at \notin AtPage \cup {"conclude"}
     /\ sweeper'[l].at # "idle" => Listed(sweeper'[l].job)
  \/ /\ sweeper[l].at = "record" /\ sweeper[l].job[1] \notin Scan
     /\ sweeper'[l].at \in {"continue", "conclude"}
     /\ sweeper'[l].job = sweeper[l].job /\ sweeper'[l].rows = sweeper[l].rows
     /\ sweeper'[l].more = sweeper[l].more

Quiet ==
  /\ clock' \in Nat /\ clock <= clock' /\ \A r \in Source : edition'[r] < clock'
  /\ UNCHANGED <<copy, scan, batch>>
  /\ \A p \in Scan : missing[p] \subseteq missing'[p]
  /\ \A j \in Errand : Listed(j)' = Listed(j) /\ errand'[j].asked = errand[j].asked
  /\ \A l \in Sweeper : Rests(l)

LEMMA QuietKeeps ==
  ASSUME SweepIInv, Quiet, SweepParts'
  PROVE  SweepIInv'
<1> USE DEF SweepIInv
<1>1. \A j \in Errand : Listed(j)' = Listed(j) /\ errand'[j].asked = errand[j].asked
  BY DEF Quiet
<1>2. copy' = copy /\ scan' = scan /\ batch' = batch
  BY DEF Quiet
<1>3. \A j \in Errand : Batched(j)' = Batched(j)
  BY <1>2 DEF Batched
<1>4. JobsAreListed'
  <2> SUFFICES ASSUME NEW l \in Sweeper, sweeper'[l].at # "idle"
               PROVE  errand'[sweeper'[l].job].status # "absent"
    BY DEF JobsAreListed, Listed
  <2>1. Listed(sweeper'[l].job)
    BY DEF Quiet, Rests, JobsAreListed, Listed
  <2>2. sweeper'[l].job \in Errand
    BY SweepKinds DEF SweepParts, SweeperState
  <2> QED BY <1>1, <2>1, <2>2 DEF Listed
<1>5. ScansAreInOrder'
  BY <1>1, <1>2 DEF ScansAreInOrder, Quiet, Rests, AtPage, Verify, Scan
<1>6. VersionsArePast'
  <2>1. clock \in Nat /\ clock' \in Nat /\ clock <= clock'
    BY SweepKinds DEF Quiet
  <2>2. \A j \in Errand : batch[j].rows \subseteq Source \X Nat
    BY SweepKinds
  <2>3. \A j \in Errand : j[1] # Apply => \A row \in batch[j].rows : row[2] < clock'
    BY <2>1, <2>2 DEF VersionsArePast
  <2>4. \A r \in Source : ~copy[r].gone => copy[r].stamp < clock'
    BY <2>1, SweepKinds DEF VersionsArePast
  <2> QED BY <1>2, <2>3, <2>4 DEF VersionsArePast, Quiet
<1>7. TombstonesAreLater'
  BY <1>1, <1>2 DEF TombstonesAreLater
<1>8. ASSUME NEW l \in Sweeper, sweeper'[l].at \in AtPage
      PROVE  /\ sweeper'[l].job = sweeper[l].job /\ sweeper'[l].rows = sweeper[l].rows
             /\ sweeper'[l].more = sweeper[l].more
             /\ sweeper[l].at \in AtPage
             /\ sweeper[l].job \in Errand
             /\ sweeper'[l].at = "land" \/ sweeper[l].job[1] \in Scan =>
                  sweeper'[l].at = sweeper[l].at
  BY <1>8, SweepKinds DEF Quiet, Rests, AtPage
<1>9. PagesAreBatches'
  BY <1>2, <1>3, <1>8 DEF PagesAreBatches
<1>10. PagesAreComplete'
  BY <1>3, <1>8 DEF PagesAreComplete, Quiet
<1>11. PagesAreSeen'
  BY <1>2, <1>3, <1>8 DEF PagesAreSeen, AtPage
<1>12. ScansAreContiguous'
  BY <1>1, <1>2 DEF ScansAreContiguous, Quiet
<1>13. ScansAreComplete'
  BY <1>2 DEF ScansAreComplete, Quiet
<1>14. ASSUME NEW row \in Source \X Nat, Due(row) PROVE Due(row)'
  <2>1. clock \in Nat /\ clock' \in Nat /\ clock <= clock'
    BY SweepKinds DEF Quiet
  <2>2. row[2] < clock'
    BY <1>14, <2>1 DEF Due
  <2> QED BY <1>1, <1>2, <1>14, <2>2 DEF Due, Quiet
<1>15. TombstonesAreDue'
  <2>1. \A l \in Sweeper : sweeper[l].rows \subseteq Source \X Nat
    BY SweepKinds
  <2> QED BY <1>8, <1>14, <2>1 DEF TombstonesAreDue, AtPage
<1> QED BY <1>4, <1>5, <1>6, <1>7, <1>9, <1>10, <1>11, <1>12, <1>13, <1>15

\* A lane that goes on without a page, that throws or that rests.
LEMMA LaneQuiet ==
  ASSUME SweepParts, JobsAreListed, NEW l \in Sweeper, sweeper[l].at # "idle",
         \/ \E at \in Stage \ (AtPage \cup {"conclude"}) : Goes(l, at)
         \/ \E fault \in Failure : Throws(l, fault)
         \/ sweeper' = [sweeper EXCEPT ![l] = AtRest]
  PROVE  \A m \in Sweeper : Rests(m)
<1> SUFFICES ASSUME NEW m \in Sweeper PROVE Rests(m)
  OBVIOUS
<1>1. sweeper \in [Sweeper -> SweeperState]
  BY DEF SweepParts
<1>2. Listed(sweeper[l].job)
  BY DEF JobsAreListed
<1>3. CASE m # l
  BY <1>1, <1>3 DEF Goes, Throws, Rests
<1>4. CASE m = l
  <2>1. CASE \E at \in Stage \ (AtPage \cup {"conclude"}) : Goes(l, at)
    BY <1>1, <1>2, <1>4, <2>1 DEF Goes, Rests, SweeperState
  <2>2. CASE \E fault \in Failure : Throws(l, fault)
    <3>1. PICK fault \in Failure : Throws(l, fault)
      BY <2>2
    <3>2. sweeper'[l] = [sweeper[l] EXCEPT !.at = "blocking", !.fault = fault, !.rows = {}]
      BY <1>1, <3>1 DEF Throws
    <3>3. sweeper'[l].at = "blocking" /\ sweeper'[l].job = sweeper[l].job
      BY <1>1, <3>2 DEF SweeperState
    <3> QED BY <1>2, <1>4, <3>3 DEF Rests, AtPage
  <2>3. CASE sweeper' = [sweeper EXCEPT ![l] = AtRest]
    BY <1>1, <1>4, <2>3 DEF AtRest, Rests, AtPage
  <2> QED BY <2>1, <2>2, <2>3
<1> QED BY <1>3, <1>4

LEMMA SamePublished ==
  ASSUME SweepParts,
         \/ UNCHANGED errand
         \/ \E j \in Errand, row \in ErrandRow :
              /\ errand' = [errand EXCEPT ![j] = row]
              /\ row.asked = errand[j].asked /\ row.status # "absent" /\ Listed(j)
  PROVE  \A j \in Errand : Listed(j)' = Listed(j) /\ errand'[j].asked = errand[j].asked
<1>1. errand \in [Errand -> ErrandRow]
  BY DEF SweepParts
<1>2. CASE UNCHANGED errand
  BY <1>2 DEF Listed
<1>3. ASSUME NEW j \in Errand, NEW row \in ErrandRow,
             /\ errand' = [errand EXCEPT ![j] = row]
             /\ row.asked = errand[j].asked /\ row.status # "absent" /\ Listed(j)
      PROVE  \A k \in Errand : Listed(k)' = Listed(k) /\ errand'[k].asked = errand[k].asked
  BY <1>1, <1>3 DEF Listed
<1> QED BY <1>2, <1>3

LEMMA VendorQuiet ==
  ASSUME SweepIInv, NEW r \in Source, Put(r) \/ Drop(r)
  PROVE  Quiet
<1> USE DEF SweepIInv, vendorVars, store, bounds
<1>1. clock \in Nat /\ \A s \in Source : edition[s] \in Nat /\ edition[s] < clock
  BY SweepKinds DEF VersionsArePast
<1>2. clock' \in Nat /\ clock <= clock' /\ \A s \in Source : edition'[s] < clock'
  <2>1. CASE clock' = clock + 2 /\ edition' = [edition EXCEPT ![r] = clock + 1]
    BY <1>1, <2>1 DEF SweepParts, OtherTypes
  <2>2. CASE UNCHANGED <<clock, edition>>
    BY <1>1, <2>2
  <2> QED BY <2>1, <2>2 DEF Put, Drop
<1>3. UNCHANGED <<copy, scan, batch, errand, sweeper, missing>>
  BY DEF Put, Drop
<1> QED BY <1>2, <1>3 DEF Quiet, Rests, Listed

LEMMA LedgerQuiet ==
  ASSUME SweepIInv, NEW j \in Errand, RetryComesDue(j) \/ WindowPasses(j) \/ LaneStalls(j)
  PROVE  Quiet
<1> USE DEF SweepIInv, vendorVars, store, bounds
<1>1. clock \in Nat /\ \A s \in Source : edition[s] \in Nat /\ edition[s] < clock
  BY SweepKinds DEF VersionsArePast
<1>2. UNCHANGED <<clock, edition, copy, scan, batch, sweeper, missing>>
  BY DEF RetryComesDue, WindowPasses, LaneStalls, LoseLease
<1>3. \A k \in Errand : Listed(k)' = Listed(k) /\ errand'[k].asked = errand[k].asked
  BY DEF RetryComesDue, WindowPasses, LaneStalls, LoseLease, SweepParts, ErrandRow, Listed
<1> QED BY <1>1, <1>2, <1>3 DEF Quiet, Rests

LEMMA ClaimQuiet ==
  ASSUME SweepIInv, NEW l \in Sweeper, NEW j \in Errand, ClaimErrand(l, j)
  PROVE  Quiet
<1> USE DEF SweepIInv, vendorVars, store, bounds
<1>1. clock \in Nat /\ \A s \in Source : edition[s] \in Nat /\ edition[s] < clock
  BY SweepKinds DEF VersionsArePast
<1>2. UNCHANGED <<clock, edition, copy, scan, batch, missing>>
  BY DEF ClaimErrand
<1>3. Listed(j)
  BY DEF ClaimErrand, Readable, Listed
<1>4. \A k \in Errand : Listed(k)' = Listed(k) /\ errand'[k].asked = errand[k].asked
  BY <1>3 DEF ClaimErrand, SweepParts, ErrandRow, Listed
<1>5. ASSUME NEW m \in Sweeper PROVE Rests(m)
  <2> DEFINE state == [AtRest EXCEPT !.at = "begin", !.job = j, !.read = errand[j].reads + 1]
  <2>1. sweeper' = [sweeper EXCEPT ![l] = state]
    BY DEF ClaimErrand
  <2>2. state.at = "begin" /\ state.job = j
    BY DEF AtRest
  <2> HIDE DEF state
  <2>3. CASE m = l
    <3>1. sweeper'[m] = state
      BY <2>1, <2>3 DEF SweepParts
    <3> QED BY <1>3, <2>2, <3>1 DEF Rests, AtPage
  <2>4. CASE m # l
    BY <2>1, <2>4 DEF Rests, SweepParts
  <2> QED BY <2>3, <2>4
<1> QED BY <1>1, <1>2, <1>4, <1>5 DEF Quiet

\* A lane that changes nothing of the records: it leaves its page or goes on without one.
LEMMA LaneStepQuiet ==
  ASSUME SweepIInv, NEW l \in Sweeper, sweeper[l].at # "idle",
         UNCHANGED <<clock, edition, copy, scan, batch>>,
         \A p \in Scan : missing[p] \subseteq missing'[p],
         \/ UNCHANGED errand
         \/ \E j \in Errand, row \in ErrandRow :
              /\ errand' = [errand EXCEPT ![j] = row]
              /\ row.asked = errand[j].asked /\ row.status # "absent" /\ Listed(j),
         \/ \E at \in Stage \ (AtPage \cup {"conclude"}) : Goes(l, at)
         \/ \E fault \in Failure : Throws(l, fault)
         \/ sweeper' = [sweeper EXCEPT ![l] = AtRest]
  PROVE  Quiet
<1> USE DEF SweepIInv
<1>1. clock \in Nat /\ \A s \in Source : edition[s] \in Nat /\ edition[s] < clock
  BY SweepKinds DEF VersionsArePast
<1>2. \A m \in Sweeper : Rests(m)
  BY LaneQuiet
<1>3. \A j \in Errand : Listed(j)' = Listed(j) /\ errand'[j].asked = errand[j].asked
  BY SamePublished
<1> QED BY <1>1, <1>2, <1>3 DEF Quiet

LEMMA RecordQuiet ==
  ASSUME SweepIInv, NEW l \in Sweeper, RecordNothing(l) \/ RecordApplications(l)
  PROVE  Quiet
<1> USE DEF SweepIInv, vendorVars, store, bounds
<1>1. UNCHANGED <<clock, edition, copy, scan, batch, errand, missing>>
  BY DEF RecordNothing, RecordApplications
<1>2. sweeper[l].at = "record" /\ sweeper[l].job[1] \notin Scan
  BY DEF RecordNothing, RecordApplications, Scan, Identity, Verify, Apply, LateEdits
<1>3. CASE \E at \in {"continue", "conclude"} : Goes(l, at)
  <2>1. clock \in Nat /\ \A s \in Source : edition[s] \in Nat /\ edition[s] < clock
    BY SweepKinds DEF VersionsArePast
  <2>2. \A m \in Sweeper : Rests(m)
    BY <1>2, <1>3 DEF Rests, Goes, SweepParts, SweeperState
  <2> QED BY <1>1, <2>1, <2>2 DEF Quiet, Listed
<1>4. CASE Throws(l, "passing")
  BY <1>1, <1>2, <1>4, LaneStepQuiet DEF Failure
<1> QED BY <1>3, <1>4 DEF RecordNothing, RecordApplications

LEMMA PhaseQuiet ==
  ASSUME SweepIInv, NEW l \in Sweeper, BeginPhase(l) \/ CommitPhase(l) \/ BlockPhase(l)
  PROVE  Quiet
<1> USE DEF vendorVars, store, bounds
<1>1. UNCHANGED <<clock, edition, copy, scan, batch, errand, missing>> /\ sweeper[l].at # "idle"
  BY DEF BeginPhase, CommitPhase, BlockPhase
<1>2. \/ \E at \in Stage \ (AtPage \cup {"conclude"}) : Goes(l, at)
      \/ \E fault \in Failure : Throws(l, fault)
      \/ sweeper' = [sweeper EXCEPT ![l] = AtRest]
  BY DEF BeginPhase, CommitPhase, BlockPhase, Stage, AtPage, Failure
<1> QED BY <1>1, <1>2, LaneStepQuiet

LEMMA LossQuiet ==
  ASSUME SweepIInv, NEW l \in Sweeper, FindLeaseLost(l) \/ MeetUpset(l) \/ LoseSweeper(l)
  PROVE  Quiet
<1> USE DEF vendorVars, store, bounds
<1>1. UNCHANGED <<clock, edition, copy, scan, batch, errand, missing>> /\ sweeper[l].at # "idle"
  BY DEF FindLeaseLost, MeetUpset, LoseSweeper, Stage
<1>2. \/ \E fault \in Failure : Throws(l, fault)
      \/ sweeper' = [sweeper EXCEPT ![l] = AtRest]
  BY DEF FindLeaseLost, MeetUpset, LoseSweeper, Failure
<1> QED BY <1>1, <1>2, LaneStepQuiet

LEMMA GiveUpQuiet ==
  ASSUME SweepIInv, NEW l \in Sweeper, FinishErrand(l) \/ RetryErrand(l) \/ MeetRateLimit(l)
  PROVE  Quiet
<1> USE DEF vendorVars, store, bounds
<1>1. /\ UNCHANGED <<clock, edition, copy, scan, batch, missing>> /\ sweeper[l].at # "idle"
      /\ sweeper' = [sweeper EXCEPT ![l] = AtRest]
  BY DEF FinishErrand, RetryErrand, MeetRateLimit, AsksVendor
<1> DEFINE j == sweeper[l].job
           done == [errand[j] EXCEPT !.status = "succeeded", !.holder = NoSweeper]
           status == IF Exhausted(l) THEN "failed" ELSE "retry_wait"
           later == [errand[j] EXCEPT !.status = status, !.holder = NoSweeper, !.due = Exhausted(l)]
           put == [errand[j] EXCEPT !.status = "retry_wait", !.holder = NoSweeper, !.due = FALSE]
<1>2. j \in Errand /\ Listed(j) /\ errand \in [Errand -> ErrandRow]
  BY <1>1 DEF SweepIInv, SweepParts, SweeperState, JobsAreListed
<1>3. \/ errand' = errand \/ errand' = [errand EXCEPT ![j] = done]
      \/ errand' = [errand EXCEPT ![j] = later] \/ errand' = [errand EXCEPT ![j] = put]
  BY DEF FinishErrand, RetryErrand, MeetRateLimit
<1>4. done \in ErrandRow /\ put \in ErrandRow
  BY <1>2, ErrandTypes
<1>5. status \in {"failed", "retry_wait"} /\ Exhausted(l) \in BOOLEAN
  BY DEF Exhausted
<1>6. later \in ErrandRow
  <2> HIDE DEF status, j
  <2> QED BY <1>2, <1>5, ErrandTypes
<1>7. \A row \in {done, later, put} : row.asked = errand[j].asked /\ row.status # "absent"
  <2> HIDE DEF j
  <2> QED BY <1>2 DEF ErrandRow
<1> HIDE DEF done, later, put, j, status
<1>8. \/ UNCHANGED errand
      \/ \E row \in {done, later, put} : row \in ErrandRow /\ errand' = [errand EXCEPT ![j] = row]
  BY <1>3, <1>4, <1>6
<1>9. \/ UNCHANGED errand
      \/ \E k \in Errand, row \in ErrandRow :
           /\ errand' = [errand EXCEPT ![k] = row]
           /\ row.asked = errand[k].asked /\ row.status # "absent" /\ Listed(k)
  BY <1>2, <1>7, <1>8
<1> QED BY <1>1, <1>9, LaneStepQuiet

-------------------------------------------------------------------------------
(* Steps that publish, copy, read and record.                              *)

\* A lane that goes to a stage, and the others.
LEMMA LaneGoes ==
  ASSUME SweepParts, NEW l \in Sweeper, NEW at \in Stage, Goes(l, at)
  PROVE  /\ \A m \in Sweeper \ {l} : sweeper'[m] = sweeper[m]
         /\ sweeper'[l].at = at /\ sweeper'[l].job = sweeper[l].job
         /\ sweeper'[l].rows = sweeper[l].rows /\ sweeper'[l].more = sweeper[l].more
BY DEF SweepParts, Goes, SweeperState

LEMMA PublishKeeps ==
  ASSUME SweepIInv, SweepParts',
         NEW l \in Sweeper, sweeper[l].at # "idle",
         NEW at \in Stage \ (AtPage \cup {"conclude"}), Goes(l, at),
         NEW k \in Errand, errand' = Published(k),
         UNCHANGED <<edition, clock, copy, scan, batch, missing>>,
         k[1] = Apply => scan[Identity].status # "absent",
         k[1] \in Scan => \A r \in Source : r <= k[2] => r \in scan[k[1]].seen \cup missing[k[1]]
  PROVE  SweepIInv'
<1> USE DEF SweepIInv
<1>1. CASE Listed(k)
  <2>1. UNCHANGED errand
    BY <1>1 DEF Published, Listed
  <2>2. \A p \in Scan : missing[p] \subseteq missing'[p]
    OBVIOUS
  <2> QED BY <2>1, <2>2, LaneStepQuiet, QuietKeeps
<1>2. CASE ~Listed(k)
  <2>1. /\ errand'[k].asked = clock /\ errand'[k].status = "queued"
        /\ \A j \in Errand \ {k} : errand'[j] = errand[j]
    BY <1>2 DEF Published, Listed, NoErrand, SweepParts
  <2>2. /\ \A j \in Errand \ {k} : Listed(j)' = Listed(j) /\ errand'[j].asked = errand[j].asked
        /\ Listed(k)' /\ \A j \in Errand : Listed(j) => j # k
    BY <1>2, <2>1 DEF Listed
  <2>3. \A m \in Sweeper : sweeper'[m].at \in AtPage \cup {"conclude"} => sweeper'[m] = sweeper[m]
    BY LaneGoes DEF AtPage, Stage
  <2>4. JobsAreListed'
    <3> SUFFICES ASSUME NEW m \in Sweeper, sweeper'[m].at # "idle"
                 PROVE  errand'[sweeper'[m].job].status # "absent"
      BY DEF JobsAreListed, Listed
    <3>1. sweeper'[m].job = sweeper[m].job /\ sweeper[m].at # "idle"
      BY LaneGoes, SweeperTypes
    <3>2. sweeper[m].job \in Errand
      BY SweepKinds
    <3> QED BY <2>2, <3>1, <3>2 DEF JobsAreListed, Listed
  <2>5. ScansAreInOrder'
    BY <2>2, <2>3 DEF ScansAreInOrder
  <2>6. VersionsArePast'
    BY DEF VersionsArePast
  <2>7. TombstonesAreLater'
    <3>1. \A r \in Source : ~copy[r].gone => copy[r].stamp < clock
      BY DEF VersionsArePast
    <3>2. ASSUME NEW j \in Errand, j[1] = Apply, NEW row \in batch'[j].rows
          PROVE  Listed(j)' /\ row[2] = errand'[j].asked
      BY <2>2, <3>2 DEF TombstonesAreLater
    <3>3. ASSUME NEW j \in Errand, NEW r \in Source, j[1] = Apply, Listed(j)',
                 copy'[r].old, ~copy'[r].gone
          PROVE  copy'[r].stamp < errand'[j].asked
      BY <2>1, <2>2, <3>1, <3>3 DEF TombstonesAreLater
    <3> QED BY <3>2, <3>3 DEF TombstonesAreLater
  <2>8. \A j \in Errand : Batched(j)' = Batched(j)
    BY DEF Batched
  <2>9. \A m \in Sweeper : sweeper[m].job \in Errand
    BY SweepKinds
  <2>10. PagesAreBatches' /\ PagesAreComplete' /\ PagesAreSeen'
    BY <2>3, <2>8, <2>9 DEF PagesAreBatches, PagesAreComplete, PagesAreSeen, AtPage
  <2>11. ScansAreContiguous'
    BY <2>2 DEF ScansAreContiguous
  <2>12. ScansAreComplete'
    BY DEF ScansAreComplete
  <2>13. TombstonesAreDue'
    <3>1. ASSUME NEW row \in Source \X Nat, Due(row) PROVE Due(row)'
      BY <2>1, <2>2, <3>1 DEF Due
    <3>2. \A m \in Sweeper : sweeper[m].rows \subseteq Source \X Nat
      BY SweepKinds
    <3> QED BY <2>3, <3>1, <3>2 DEF TombstonesAreDue, AtPage
  <2> QED BY <2>4, <2>5, <2>6, <2>7, <2>10, <2>11, <2>12, <2>13
<1> QED BY <1>1, <1>2

LEMMA ConcludeKeeps ==
  ASSUME SweepIInv, SweepParts', NEW l \in Sweeper, Conclude(l)
  PROVE  SweepIInv'
<1> USE DEF SweepIInv, vendorVars, store, bounds
<1>1. sweeper[l].at = "conclude" /\ UNCHANGED <<edition, clock, copy, scan, batch, missing>>
  BY DEF Conclude
<1>2. CASE Tallies(l)
  <2>1. \/ \E at \in Stage \ (AtPage \cup {"conclude"}) : Goes(l, at)
        \/ \E fault \in Failure : Throws(l, fault)
    BY <1>2 DEF Tallies, Stage, AtPage, Failure
  <2>2. UNCHANGED errand /\ \A p \in Scan : missing[p] \subseteq missing'[p]
    BY <1>1, <1>2 DEF Tallies
  <2> QED BY <1>1, <2>1, <2>2, LaneStepQuiet, QuietKeeps
<1>3. CASE PublishesNext(l)
  <2> DEFINE k == <<sweeper[l].job[1] + 1, 0>>
  <2>1. k \in Errand /\ k[1] = sweeper[l].job[1] + 1 /\ k[2] = 0
    <3>1. sweeper[l].job \in Errand
      BY SweepKinds
    <3> QED BY <1>3, <3>1, ErrandParts DEF PublishesNext
  <2>2. Goes(l, "commit") /\ errand' = Published(k)
    BY <1>3 DEF PublishesNext
  <2>3. "commit" \in Stage \ (AtPage \cup {"conclude"})
    BY DEF Stage, AtPage
  <2>4. k[1] = Apply => scan[Identity].status # "absent"
    <3>1. sweeper[l].job[1] \in Nat
      BY SweepKinds DEF Phase, LateEdits, Apply
    <3> QED BY <1>1, <2>1, <3>1 DEF ScansAreInOrder, Apply, Verify
  <2>5. \A r \in Source : ~(r <= k[2])
    BY <2>1 DEF Source
  <2> HIDE DEF k
  <2> QED BY <1>1, <2>1, <2>2, <2>3, <2>4, <2>5, PublishKeeps
<1> QED BY <1>2, <1>3 DEF Conclude

LEMMA ContinueKeeps ==
  ASSUME SweepIInv, SweepParts', NEW l \in Sweeper, Continue(l)
  PROVE  SweepIInv'
<1> USE DEF SweepIInv, vendorVars, store, bounds
<1> DEFINE j == sweeper[l].job
<1>1. /\ sweeper[l].at = "continue" /\ UNCHANGED <<edition, clock, copy, scan, batch, missing>>
      /\ Goes(l, "finish")
  BY DEF Continue
<1>2. PICK row \in sweeper[l].rows : /\ \A other \in sweeper[l].rows : other[1] <= row[1]
                                     /\ errand' = Published(<<j[1], row[1]>>)
  BY DEF Continue
<1>3. j \in Errand /\ j[1] \in Phase /\ j[2] \in Nat /\ row[1] \in Source /\ Batched(j) \subseteq Source
  BY SweepKinds
<1> DEFINE k == <<j[1], row[1]>>
<1>4. k \in Errand /\ k[1] = j[1] /\ k[2] = row[1]
  BY <1>3, ErrandParts
<1>5. k[1] = Apply => scan[Identity].status # "absent"
  BY <1>1, <1>3, <1>4 DEF ScansAreInOrder, JobsAreListed
<1>6. row[1] \in Batched(j)
  BY <1>1 DEF PagesAreBatches, AtPage
<1>7. ASSUME j[1] \in Scan, NEW r \in Source, r <= row[1]
      PROVE  r \in scan[j[1]].seen \cup missing[j[1]]
  <2>1. CASE r <= j[2]
    BY <1>1, <1>3, <1>7, <2>1 DEF ScansAreContiguous, JobsAreListed
  <2>2. CASE r > j[2]
    <3>1. \/ r \in Batched(j) \/ r \in missing[j[1]]
          \/ \A s \in Batched(j) : s < r
      BY <1>1, <1>7, <2>2 DEF PagesAreComplete, AtPage
    <3>2. r \in Batched(j) => r \in scan[j[1]].seen
      BY <1>1, <1>7 DEF PagesAreSeen
    <3>3. ~(row[1] < r)
      BY <1>3, <1>7 DEF Source
    <3> QED BY <1>6, <3>1, <3>2, <3>3
  <2> QED BY <1>3, <2>1, <2>2 DEF Source
<1>8. "finish" \in Stage \ (AtPage \cup {"conclude"})
  BY DEF Stage, AtPage
<1>9. errand' = Published(k)
  BY <1>2
<1>10. k[1] \in Scan => \A r \in Source : r <= k[2] => r \in scan[k[1]].seen \cup missing[k[1]]
  BY <1>4, <1>7
<1> HIDE DEF k, j
<1> QED BY <1>1, <1>4, <1>5, <1>8, <1>9, <1>10, PublishKeeps

\* The copy of a record stays, or it gets a version that is as late or later: a live one
\* that precedes the next edition, or the tombstone of a job.
Lands(r) ==
  \/ copy'[r] = copy[r]
  \/ /\ ~copy'[r].old
     /\ \/ copy'[r].stamp > copy[r].stamp
        \/ copy'[r].stamp = copy[r].stamp /\ copy'[r].gone # copy[r].gone
     /\ \/ ~copy'[r].gone /\ copy'[r].stamp < clock
        \/ copy'[r].gone /\ \E j \in Errand :
             j[1] = Apply /\ Listed(j) /\ copy'[r].stamp = errand[j].asked

LEMMA UpsertedLands ==
  ASSUME SweepIInv, NEW r \in Source, NEW stamp \in Nat, NEW gone \in BOOLEAN,
         copy'[r] = Upserted(r, stamp, gone),
         gone => \E j \in Errand : j[1] = Apply /\ Listed(j) /\ stamp = errand[j].asked,
         ~gone => stamp < clock
  PROVE  Lands(r)
<1>1. CASE copy'[r] = copy[r]
  BY <1>1 DEF Lands
<1>2. CASE /\ stamp >= copy[r].stamp /\ (stamp # copy[r].stamp \/ gone # copy[r].gone)
           /\ copy'[r] = [stamp |-> stamp, gone |-> gone, old |-> FALSE]
  <2>1. copy[r].stamp \in Nat
    BY SweepKinds DEF SweepIInv
  <2>2. copy'[r].stamp = stamp /\ copy'[r].gone = gone /\ ~copy'[r].old
    BY <1>2
  <2>3. stamp > copy[r].stamp \/ (stamp = copy[r].stamp /\ gone # copy[r].gone)
    BY <1>2, <2>1
  <2> QED BY <2>2, <2>3 DEF Lands
<1> QED BY <1>1, <1>2 DEF Upserted

LEMMA LandsKeeps ==
  ASSUME SweepIInv, SweepParts',
         UNCHANGED <<edition, clock, scan, batch, errand, missing>>,
         \A r \in Source : Lands(r),
         UNCHANGED sweeper \/ \E l \in Sweeper : sweeper[l].at = "land" /\ Goes(l, "record")
  PROVE  SweepIInv'
<1> USE DEF SweepIInv
<1>1. /\ clock \in Nat
      /\ \A r \in Source : /\ copy[r].stamp \in Nat /\ copy'[r].stamp \in Nat
                            /\ copy[r].gone \in BOOLEAN /\ copy'[r].gone \in BOOLEAN
      /\ \A j \in Errand : errand[j].asked \in Nat
  BY SweepKinds DEF SweepParts, Copy
<1>2. \A m \in Sweeper : /\ sweeper'[m].job = sweeper[m].job /\ sweeper'[m].rows = sweeper[m].rows
                         /\ sweeper'[m].more = sweeper[m].more
                         /\ \/ sweeper'[m].at = sweeper[m].at
                            \/ sweeper[m].at = "land" /\ sweeper'[m].at = "record"
  <2>1. CASE UNCHANGED sweeper
    BY <2>1
  <2>2. CASE \E l \in Sweeper : sweeper[l].at = "land" /\ Goes(l, "record")
    BY <2>2, LaneGoes DEF Stage
  <2> QED BY <2>1, <2>2
<1>3. \A j \in Errand : Batched(j)' = Batched(j)
  BY DEF Batched
<1>4. \A j \in Errand : Listed(j)' = Listed(j)
  BY DEF Listed
<1>5. JobsAreListed'
  BY <1>2 DEF JobsAreListed, Listed
<1>6. ScansAreInOrder'
  BY <1>2, <1>4 DEF ScansAreInOrder
<1>7. VersionsArePast'
  <2>1. ASSUME NEW r \in Source, ~copy'[r].gone PROVE copy'[r].stamp < clock
    BY <2>1 DEF Lands, VersionsArePast
  <2> QED BY <2>1 DEF VersionsArePast
<1>8. TombstonesAreLater'
  <2>1. ASSUME NEW j \in Errand, NEW r \in Source, j[1] = Apply, Listed(j),
               copy'[r].old, ~copy'[r].gone
        PROVE  copy'[r].stamp < errand[j].asked
    <3>1. copy'[r] = copy[r]
      BY <2>1 DEF Lands
    <3> QED BY <2>1, <3>1 DEF TombstonesAreLater
  <2> QED BY <1>4, <2>1 DEF TombstonesAreLater
<1>9. \A m \in Sweeper : sweeper[m].job \in Errand
  BY SweepKinds
<1>10. PagesAreBatches'
  BY <1>2, <1>3, <1>9 DEF PagesAreBatches, AtPage
<1>11. PagesAreComplete'
  BY <1>2, <1>3, <1>9 DEF PagesAreComplete, AtPage
<1>12. PagesAreSeen'
  BY <1>2, <1>3, <1>9 DEF PagesAreSeen
<1>13. ScansAreContiguous' /\ ScansAreComplete'
  BY <1>4 DEF ScansAreContiguous, ScansAreComplete
<1>14. ASSUME NEW row \in Source \X Nat, Due(row) PROVE Due(row)'
  <2>1. /\ row[1] \in Source /\ row[2] \in Nat /\ row[2] < clock
        /\ \A j \in Errand : j[1] = Apply /\ Listed(j) => row[2] < errand[j].asked
        /\ \A p \in Scan : row[1] \in missing[p]
    BY <1>14 DEF Due
  <2>2. \/ copy'[row[1]].stamp > row[2]
        \/ copy'[row[1]].stamp = row[2] /\ copy'[row[1]].old /\ ~copy'[row[1]].gone
    <3>1. CASE copy[row[1]].stamp > row[2]
      BY <1>1, <2>1, <3>1 DEF Lands
    <3>2. CASE copy[row[1]].stamp = row[2] /\ copy[row[1]].old /\ ~copy[row[1]].gone
      <4>1. CASE copy'[row[1]] = copy[row[1]]
        BY <3>2, <4>1
      <4>2. CASE copy'[row[1]].stamp > copy[row[1]].stamp
        BY <3>2, <4>2
      <4>3. ASSUME copy'[row[1]].gone, NEW j \in Errand, j[1] = Apply, Listed(j),
                   copy'[row[1]].stamp = errand[j].asked
            PROVE  copy'[row[1]].stamp > row[2]
        BY <1>1, <2>1, <4>3
      <4> QED BY <1>1, <2>1, <3>2, <4>1, <4>2, <4>3 DEF Lands
    <3> QED BY <1>14, <3>1, <3>2 DEF Due
  <2> QED BY <1>4, <2>1, <2>2 DEF Due
<1>15. TombstonesAreDue'
  <2>1. \A m \in Sweeper : sweeper[m].rows \subseteq Source \X Nat
    BY SweepKinds
  <2> QED BY <1>2, <1>14, <2>1 DEF TombstonesAreDue
<1> QED BY <1>5, <1>6, <1>7, <1>8, <1>10, <1>11, <1>12, <1>13, <1>15

LEMMA PollKeeps ==
  ASSUME SweepIInv, SweepParts', NEW r \in Source, Poll(r)
  PROVE  SweepIInv'
<1> USE DEF vendorVars, store, bounds
<1>1. UNCHANGED <<edition, clock, scan, batch, errand, missing, sweeper>>
  BY DEF Poll
<1>2. edition[r] \in Nat /\ edition[r] < clock
  BY SweepKinds DEF SweepIInv, VersionsArePast
<1>3. copy'[r] = Upserted(r, edition[r], FALSE) /\ \A s \in Source \ {r} : copy'[s] = copy[s]
  BY DEF Poll, SweepIInv, SweepParts
<1>4. Lands(r)
  BY <1>2, <1>3, UpsertedLands
<1>5. \A s \in Source : Lands(s)
  BY <1>3, <1>4 DEF Lands
<1> QED BY <1>1, <1>5, LandsKeeps

LEMMA LandRowsKeeps ==
  ASSUME SweepIInv, SweepParts', NEW l \in Sweeper, LandRows(l)
  PROVE  SweepIInv'
<1> USE DEF vendorVars, bounds
<1> DEFINE j == sweeper[l].job
<1>1. sweeper[l].at = "land" /\ UNCHANGED <<edition, clock, scan, batch, errand, missing>>
  BY DEF LandRows
<1>2. CASE Throws(l, "passing") /\ UNCHANGED copy
  BY <1>1, <1>2, LaneStepQuiet, QuietKeeps DEF Failure
<1>3. CASE copy' = Landed(j) /\ Goes(l, "record")
  <2>1. ASSUME NEW r \in Source PROVE Lands(r)
    <3>1. CASE r \notin Batched(j)
      BY <1>3, <3>1 DEF Landed, Lands
    <3>2. CASE r \in Batched(j)
      <4> DEFINE row == CHOOSE row \in batch[j].rows : row[1] = r
      <4>1. j \in Errand /\ batch[j].rows \subseteq Source \X Nat
        BY SweepKinds DEF SweepIInv
      <4>2. row \in batch[j].rows /\ row[1] = r
        BY <3>2, <4>1, BatchedVersion
      <4>3. copy'[r] = Upserted(r, row[2], j[1] = Apply)
        BY <1>3, <3>2 DEF Landed
      <4> HIDE DEF row
      <4>4. row[2] \in Nat /\ (j[1] = Apply) \in BOOLEAN
        BY <4>1, <4>2
      <4>5. j[1] = Apply => \E k \in Errand : k[1] = Apply /\ Listed(k) /\ row[2] = errand[k].asked
        BY <4>1, <4>2 DEF SweepIInv, TombstonesAreLater
      <4>6. ~(j[1] = Apply) => row[2] < clock
        BY <4>1, <4>2 DEF SweepIInv, VersionsArePast
      <4> HIDE DEF j
      <4> QED BY <4>3, <4>4, <4>5, <4>6, UpsertedLands
    <3> QED BY <3>1, <3>2
  <2> QED BY <1>1, <1>3, <2>1, LandsKeeps
<1> QED BY <1>2, <1>3 DEF LandRows

\* The scan of a page grows, and with the first page of the first scan the copies are old.
LEMMA RecordScanKeeps ==
  ASSUME SweepIInv, SweepParts', NEW l \in Sweeper, RecordScan(l)
  PROVE  SweepIInv'
<1> USE DEF SweepIInv, vendorVars, bounds
<1> DEFINE j == sweeper[l].job
           p == j[1]
           seen == scan[p].seen \cup Batched(j)
           known == j[2] \in scan[p].pages
           result == IF known THEN scan[p].status
                     ELSE IF ~sweeper[l].more THEN Judged(p, seen)
                     ELSE IF scan[p].status = "absent" THEN "running" ELSE scan[p].status
           row == [status |-> result, seen |-> seen, pages |-> scan[p].pages \cup {j[2]}]
<1>1. /\ sweeper[l].at = "record" /\ p \in Scan
      /\ UNCHANGED <<edition, clock, batch, errand, missing>>
  BY DEF RecordScan
<1>2. CASE Throws(l, "passing") /\ UNCHANGED <<scan, copy>>
  BY <1>1, <1>2, LaneStepQuiet, QuietKeeps DEF Failure
<1>3. CASE /\ known \/ p # Verify \/ scan[Identity].status = "complete"
           /\ scan' = [scan EXCEPT ![p] = row]
           /\ copy' = IF p = Identity /\ scan[p].status = "absent"
                      THEN [r \in Source |-> [copy[r] EXCEPT !.old = TRUE]] ELSE copy
           /\ IF sweeper[l].more THEN Goes(l, "continue")
              ELSE IF result = "complete" THEN Goes(l, "conclude") ELSE Throws(l, "lasting")
  <2>1. /\ j \in Errand /\ j[2] \in Nat /\ Listed(j) /\ Batched(j) \subseteq Source
        /\ batch[j].made /\ {r[1] : r \in sweeper[l].rows} = Batched(j)
    BY <1>1, SweepKinds DEF JobsAreListed, PagesAreBatches, AtPage
  <2>2. /\ scan'[p] = row /\ \A q \in Scan \ {p} : scan'[q] = scan[q]
        /\ scan'[p].status = result /\ scan'[p].seen = seen /\ scan'[p].pages # {}
    BY <1>1, <1>3 DEF SweepParts
  <2>3. known => scan[p].status # "absent"
    BY <1>1 DEF ScansAreInOrder
  <2>4. result # "absent"
    BY <2>3 DEF Judged
  <2>5. \A q \in Scan : /\ scan[q].seen \subseteq scan'[q].seen
                        /\ scan'[q].status = "absent" => scan[q] = scan'[q]
    BY <2>2, <2>4
  <2>6. \A k \in Errand : Batched(k)' = Batched(k) /\ Listed(k)' = Listed(k)
    BY <1>1 DEF Batched, Listed
  <2>7. \A r \in Source : /\ copy'[r].stamp = copy[r].stamp /\ copy'[r].gone = copy[r].gone
                          /\ copy'[r].old = copy[r].old \/ copy'[r].old
                          /\ scan[Identity].status # "absent" => copy'[r] = copy[r]
    BY <1>3 DEF SweepParts, Copy
  <2>8. /\ \A m \in Sweeper \ {l} : sweeper'[m] = sweeper[m]
        /\ sweeper'[l].at \in {"continue", "conclude", "blocking"}
        /\ sweeper'[l].job = j
        /\ sweeper'[l].at # "blocking" =>
             sweeper'[l].rows = sweeper[l].rows /\ sweeper'[l].more = sweeper[l].more
        /\ sweeper'[l].at = "conclude" => result = "complete"
    <3> HIDE DEF result
    <3>1. ASSUME NEW at \in {"continue", "conclude"}, Goes(l, at), at = "conclude" => result = "complete"
          PROVE  /\ \A m \in Sweeper \ {l} : sweeper'[m] = sweeper[m]
                 /\ sweeper'[l].at = at /\ sweeper'[l].job = j
                 /\ sweeper'[l].rows = sweeper[l].rows /\ sweeper'[l].more = sweeper[l].more
      BY <3>1, LaneGoes DEF Stage
    <3>2. CASE Throws(l, "lasting")
      <4>1. sweeper' = [sweeper EXCEPT ![l] =
              [sweeper[l] EXCEPT !.at = "blocking", !.fault = "lasting", !.rows = {}]]
        BY <3>2 DEF Throws
      <4>2. /\ sweeper'[l].at = "blocking" /\ sweeper'[l].job = j
            /\ \A m \in Sweeper \ {l} : sweeper'[m] = sweeper[m]
        BY <4>1 DEF SweepParts, SweeperState
      <4> QED BY <4>2
    <3> QED BY <1>3, <3>1, <3>2
  <2> HIDE DEF row, result, known
  <2>9. JobsAreListed'
    BY <1>1, <2>1, <2>8 DEF JobsAreListed, Listed
  <2>10. ScansAreInOrder'
    <3>1. \A q \in Scan : scan'[q].status = "absent" => scan'[q].pages = {}
      BY <2>5 DEF ScansAreInOrder
    <3>2. scan'[Verify].status # "absent" => scan'[Identity].status # "absent"
      <4>1. CASE p = Identity
        BY <2>2, <2>4, <4>1
      <4>2. CASE p = Verify
        <5>1. known => scan[Identity].status # "absent"
          BY <2>3, <4>2 DEF ScansAreInOrder
        <5>2. scan'[Identity] = scan[Identity]
          BY <2>2, <4>2 DEF Scan, Identity, Verify
        <5> QED BY <1>3, <4>2, <5>1, <5>2
      <4> QED BY <1>1, <4>1, <4>2 DEF Scan
    <3>3. ASSUME NEW m \in Sweeper, sweeper'[m].at = "conclude", sweeper'[m].job[1] = Verify
          PROVE  scan'[Verify].status # "absent"
      <4>1. CASE m = l
        BY <2>2, <2>4, <2>8, <3>3, <4>1
      <4>2. CASE m # l
        BY <2>5, <2>8, <3>3, <4>2 DEF ScansAreInOrder, Scan
      <4> QED BY <4>1, <4>2
    <3>4. \A k \in Errand : k[1] = Apply /\ Listed(k)' => scan'[Identity].status # "absent"
      BY <2>5, <2>6 DEF ScansAreInOrder, Scan
    <3> QED BY <3>1, <3>2, <3>3, <3>4 DEF ScansAreInOrder
  <2>11. VersionsArePast'
    BY <1>1, <2>7 DEF VersionsArePast
  <2>12. TombstonesAreLater'
    <3>1. ASSUME NEW k \in Errand, NEW r \in Source, k[1] = Apply, Listed(k),
                 copy'[r].old, ~copy'[r].gone
          PROVE  copy'[r].stamp < errand[k].asked
      <4>1. copy'[r] = copy[r]
        BY <2>7, <3>1 DEF ScansAreInOrder
      <4> QED BY <3>1, <4>1 DEF TombstonesAreLater
    <3>2. \A k \in Errand : k[1] = Apply => \A r \in batch'[k].rows :
            Listed(k)' /\ r[2] = errand'[k].asked
      BY <1>1, <2>6 DEF TombstonesAreLater
    <3> QED BY <1>1, <2>6, <3>1, <3>2 DEF TombstonesAreLater
  <2>13. \A m \in Sweeper : sweeper[m].job \in Errand
    BY SweepKinds
  <2>14. \A m \in Sweeper : sweeper'[m].at \in AtPage =>
           /\ sweeper[m].at \in AtPage /\ sweeper'[m].job = sweeper[m].job
           /\ sweeper'[m].rows = sweeper[m].rows /\ sweeper'[m].more = sweeper[m].more
           /\ m # l => sweeper'[m] = sweeper[m]
           /\ m = l => sweeper'[m].at = "continue"
    BY <1>1, <2>8 DEF AtPage
  <2>15. PagesAreBatches'
    BY <1>1, <2>6, <2>13, <2>14 DEF PagesAreBatches
  <2>16. PagesAreComplete'
    BY <1>1, <2>6, <2>13, <2>14 DEF PagesAreComplete
  <2>17. PagesAreSeen'
    <3> SUFFICES ASSUME NEW m \in Sweeper, sweeper'[m].at = "continue", sweeper'[m].job[1] \in Scan
                 PROVE  Batched(sweeper[m].job) \subseteq scan'[sweeper[m].job[1]].seen
      BY <2>6, <2>13, <2>14 DEF PagesAreSeen, AtPage
    <3>1. CASE m = l
      BY <2>2, <3>1
    <3>2. CASE m # l
      <4>1. sweeper[m].at = "continue" /\ sweeper[m].job[1] \in Scan
        BY <2>8, <3>2
      <4> QED BY <2>5, <4>1 DEF PagesAreSeen
    <3> QED BY <3>1, <3>2
  <2>18. ScansAreContiguous'
    BY <1>1, <2>5, <2>6 DEF ScansAreContiguous
  <2>19. ScansAreComplete'
    <3> SUFFICES ASSUME NEW q \in Scan, scan'[q].status = "complete", NEW r \in Source
                 PROVE  r \in scan'[q].seen \cup missing[q]
      BY <1>1 DEF ScansAreComplete
    <3>1. CASE scan[q].status = "complete"
      BY <2>5, <3>1 DEF ScansAreComplete
    <3>2. CASE scan[q].status # "complete"
      <4>1. q = p /\ result = "complete"
        BY <2>2, <3>2
      <4>2. ~sweeper[l].more
        BY <3>2, <4>1 DEF result
      <4>3. CASE r <= j[2]
        BY <1>1, <2>1, <2>5, <4>1, <4>3 DEF ScansAreContiguous
      <4>4. CASE r > j[2]
        <5>1. r \in Batched(j) \/ r \in missing[p]
          BY <1>1, <4>2, <4>4 DEF PagesAreComplete, AtPage
        <5> QED BY <2>2, <4>1, <5>1
      <4> QED BY <2>1, <4>3, <4>4 DEF Source
    <3> QED BY <3>1, <3>2
  <2>20. TombstonesAreDue'
    <3>1. ASSUME NEW r \in Source \X Nat, Due(r) PROVE Due(r)'
      BY <1>1, <2>6, <2>7, <3>1 DEF Due
    <3>2. \A m \in Sweeper : sweeper[m].rows \subseteq Source \X Nat
      BY SweepKinds
    <3> QED BY <2>14, <3>1, <3>2 DEF TombstonesAreDue, AtPage
  <2> QED BY <2>9, <2>10, <2>11, <2>12, <2>15, <2>16, <2>17, <2>18, <2>19, <2>20
<1> QED BY <1>2, <1>3 DEF RecordScan

\* The first parts of pairs.
LEMMA PairIds ==
  ASSUME NEW S, NEW f, NEW P, P = {<<r, f[r]>> : r \in S}
  PROVE  {row[1] : row \in P} = S
<1>1. ASSUME NEW r \in S PROVE r \in {row[1] : row \in P}
  <2>1. <<r, f[r]>> \in P /\ <<r, f[r]>>[1] = r
    OBVIOUS
  <2> QED BY <2>1, Zenon
<1>2. \A row \in P : row[1] \in S
  OBVIOUS
<1> QED BY <1>1, <1>2

\* A page is read: the batch of its job is made, or it is the one that is there.
LEMMA ExtractKeeps ==
  ASSUME SweepIInv, SweepParts', NEW l \in Sweeper, Extract(l)
  PROVE  SweepIInv'
<1> USE DEF SweepIInv, vendorVars, store, bounds
<1> DEFINE j == sweeper[l].job
           found == IF j[1] = Apply THEN Candidates(j[2]) ELSE Asked(j[1], j[2])
           page == FirstPage(found)
           rows == {<<r, IF j[1] = Apply THEN copy[r].stamp ELSE edition[r]>> : r \in page}
           content == IF j[1] = Apply THEN {<<r, errand[j].asked>> : r \in page} ELSE rows
           more == (found # page \/ Cardinality(page) = PageSize)
<1>1. sweeper[l].at = "extract" /\ UNCHANGED <<edition, clock, copy, scan, errand, listed>>
  BY DEF Extract
<1>2. /\ j \in Errand /\ j[1] \in Phase /\ j[2] \in Nat /\ Listed(j)
  BY <1>1, SweepKinds DEF JobsAreListed
<1>3. missing' = IF j[1] \in Scan THEN [missing EXCEPT ![j[1]] = @ \cup (Source \ listed)]
                 ELSE missing
  BY DEF Extract
<1>4. \A p \in Scan : /\ missing[p] \subseteq missing'[p]
                      /\ p = j[1] => Source \ listed \subseteq missing'[p]
  <2> HIDE DEF j
  <2> QED BY <1>3 DEF SweepParts, OtherTypes
<1>5. CASE Throws(l, "passing") /\ UNCHANGED batch
  BY <1>1, <1>4, <1>5, LaneStepQuiet, QuietKeeps DEF Failure
<1>6. CASE /\ ~batch[j].made \/ batch[j].rows = content
           /\ batch' = [batch EXCEPT ![j] = [made |-> TRUE, rows |-> content]]
           /\ sweeper' = [sweeper EXCEPT ![l] =
                [@ EXCEPT !.at = "land", !.rows = rows, !.more = more]]
  <2>1. found \in SUBSET Source /\ page \subseteq found
    BY DEF Candidates, Asked, FirstPage, SweepParts, OtherTypes
  <2>2. {row[1] : row \in rows} = page /\ {row[1] : row \in content} = page
    <3> HIDE DEF page
    <3> DEFINE version == [r \in page |-> IF j[1] = Apply THEN copy[r].stamp ELSE edition[r]]
               asked == [r \in page |-> errand[j].asked]
    <3>1. rows = {<<r, version[r]>> : r \in page}
      OBVIOUS
    <3>2. {<<r, errand[j].asked>> : r \in page} = {<<r, asked[r]>> : r \in page}
      OBVIOUS
    <3> HIDE DEF version, asked, rows
    <3>3. \/ content = {<<r, asked[r]>> : r \in page}
          \/ content = rows
      BY <3>2
    <3>4. {row[1] : row \in rows} = page
      BY <3>1, PairIds
    <3> HIDE DEF content
    <3>5. {row[1] : row \in content} = page
      BY <3>3, <3>4, PairIds
    <3> QED BY <3>4, <3>5
  <2>3. \A row \in rows :
          /\ row[1] \in page
          /\ row[2] = IF j[1] = Apply THEN copy[row[1]].stamp ELSE edition[row[1]]
    <3> HIDE DEF page
    <3> QED OBVIOUS
  <2>4. j[1] = Apply => \A row \in content : row[2] = errand[j].asked
    <3> HIDE DEF page
    <3> QED OBVIOUS
  <2>5. j[1] # Apply => content = rows
    OBVIOUS
  <2>6. ASSUME NEW r \in found \ page
        PROVE  more /\ \A s \in page : s < r
    BY <2>1, <2>6, FirstPageIsFirst
  <2>7. j[1] \in Scan => \A r \in Source : r > j[2] => r \in found \/ r \notin listed
    <3>1. j[1] \in Scan => j[1] # Apply /\ j[1] # LateEdits
      BY DEF Scan, Identity, Verify, Apply, LateEdits
    <3> QED BY <3>1 DEF Asked
  <2>8. j[1] = Apply => \A r \in found : r \in Source /\ Candidate(r)
    BY DEF Candidates
  <2> DEFINE state == [sweeper[l] EXCEPT !.at = "land", !.rows = rows, !.more = more]
  <2>9. /\ state.at = "land" /\ state.job = j /\ state.rows = rows /\ state.more = more
    <3> HIDE DEF rows, more
    <3> QED BY DEF SweepParts, SweeperState
  <2>10. sweeper'[l] = state /\ \A m \in Sweeper \ {l} : sweeper'[m] = sweeper[m]
    <3>1. sweeper' = [sweeper EXCEPT ![l] = state]
      BY <1>6
    <3> HIDE DEF state
    <3> QED BY <3>1 DEF SweepParts
  <2>11. /\ batch'[j].made /\ batch'[j].rows = content
         /\ \A k \in Errand \ {j} : batch'[k] = batch[k]
    <3> HIDE DEF content, j
    <3> QED BY <1>2, <1>6 DEF SweepParts, BatchType
  <2> HIDE DEF rows, content, more, page, found, state, j
  <2>12. /\ sweeper'[l].at = "land" /\ sweeper'[l].job = j /\ sweeper'[l].rows = rows
         /\ sweeper'[l].more = more
    BY <2>9, <2>10
  <2>13. \A k \in Errand : batch[k].made => batch'[k].made /\ batch'[k].rows = batch[k].rows
    BY <1>6, <2>11
  <2>14. {row[1] : row \in batch'[j].rows} = page
    BY <2>2, <2>11
  <2>15. \A k \in Errand : Listed(k)' = Listed(k)
    BY <1>1 DEF Listed
  <2>16. \A m \in Sweeper : sweeper[m].job \in Errand
    BY SweepKinds
  <2>17. JobsAreListed'
    BY <1>1, <1>2, <2>10, <2>12 DEF JobsAreListed, Listed
  <2>18. ScansAreInOrder'
    BY <1>1, <2>10, <2>12, <2>15 DEF ScansAreInOrder
  <2>19. VersionsArePast'
    <3>1. ASSUME NEW k \in Errand, k[1] # Apply, NEW row \in batch'[k].rows PROVE row[2] < clock
      <4>1. CASE k # j
        BY <2>11, <3>1, <4>1 DEF VersionsArePast
      <4>2. CASE k = j
        <5>1. row \in rows /\ row[1] \in Source
          BY <2>1, <2>3, <2>5, <2>11, <3>1, <4>2
        <5> QED BY <2>3, <3>1, <4>2, <5>1 DEF VersionsArePast
      <4> QED BY <4>1, <4>2
    <3> QED BY <1>1, <3>1 DEF VersionsArePast
  <2>20. TombstonesAreLater'
    <3>1. ASSUME NEW k \in Errand, k[1] = Apply, NEW row \in batch'[k].rows
          PROVE  Listed(k) /\ row[2] = errand[k].asked
      BY <1>2, <2>4, <2>11, <3>1 DEF TombstonesAreLater
    <3> QED BY <1>1, <2>15, <3>1 DEF TombstonesAreLater
  <2>21. PagesAreBatches'
    <3> SUFFICES ASSUME NEW m \in Sweeper, sweeper'[m].at \in AtPage
                 PROVE  /\ batch'[sweeper'[m].job].made
                        /\ {row[1] : row \in sweeper'[m].rows}
                             = {row[1] : row \in batch'[sweeper'[m].job].rows}
      BY DEF PagesAreBatches, Batched
    <3>1. CASE m = l
      BY <2>2, <2>11, <2>12, <2>14, <3>1
    <3>2. CASE m # l
      <4>1. /\ sweeper'[m] = sweeper[m] /\ batch[sweeper[m].job].made /\ sweeper[m].job \in Errand
            /\ {row[1] : row \in sweeper[m].rows} = {row[1] : row \in batch[sweeper[m].job].rows}
        BY <2>10, <2>16, <3>2 DEF PagesAreBatches, Batched
      <4>2. batch'[sweeper[m].job].made /\ batch'[sweeper[m].job].rows = batch[sweeper[m].job].rows
        BY <2>13, <4>1
      <4> QED BY <4>1, <4>2
    <3> QED BY <3>1, <3>2
  <2>22. PagesAreComplete'
    <3> SUFFICES ASSUME NEW m \in Sweeper, sweeper'[m].at \in AtPage, sweeper'[m].job[1] \in Scan,
                        NEW r \in Source, r > sweeper'[m].job[2]
                 PROVE  \/ r \in {row[1] : row \in batch'[sweeper'[m].job].rows}
                        \/ r \in missing'[sweeper'[m].job[1]]
                        \/ /\ sweeper'[m].more
                           /\ \A s \in {row[1] : row \in batch'[sweeper'[m].job].rows} : s < r
      BY DEF PagesAreComplete, Batched
    <3>1. CASE m = l
      <4>1. r \in page \/ r \in found \ page \/ r \notin listed
        BY <2>7, <2>12, <3>1
      <4> QED BY <1>4, <2>2, <2>6, <2>11, <2>12, <3>1, <4>1
    <3>2. CASE m # l
      <4>1. sweeper'[m] = sweeper[m] /\ batch[sweeper[m].job].made /\ sweeper[m].job \in Errand
        BY <2>10, <2>16, <3>2 DEF PagesAreBatches
      <4>2. batch'[sweeper[m].job].rows = batch[sweeper[m].job].rows
        BY <2>13, <4>1
      <4> QED BY <1>4, <4>1, <4>2 DEF PagesAreComplete, Batched
    <3> QED BY <3>1, <3>2
  <2>23. PagesAreSeen'
    <3> SUFFICES ASSUME NEW m \in Sweeper, sweeper'[m].at = "continue", sweeper'[m].job[1] \in Scan
                 PROVE  {row[1] : row \in batch'[sweeper'[m].job].rows}
                          \subseteq scan[sweeper'[m].job[1]].seen
      BY <1>1 DEF PagesAreSeen, Batched
    <3>1. m # l
      BY <2>12
    <3>2. sweeper'[m] = sweeper[m] /\ batch[sweeper[m].job].made /\ sweeper[m].job \in Errand
      BY <2>10, <2>16, <3>1 DEF PagesAreBatches, AtPage
    <3>3. batch'[sweeper[m].job].rows = batch[sweeper[m].job].rows
      BY <2>13, <3>2
    <3> QED BY <3>2, <3>3 DEF PagesAreSeen, Batched
  <2>24. ScansAreContiguous' /\ ScansAreComplete'
    BY <1>1, <1>4, <2>15 DEF ScansAreContiguous, ScansAreComplete
  <2>25. ASSUME NEW row \in Source \X Nat, Due(row) PROVE Due(row)'
    BY <1>1, <1>4, <2>15, <2>25 DEF Due
  <2>26. ASSUME j[1] = Apply, NEW row \in rows PROVE Due(row)'
    <3>1. row[1] \in Source /\ Candidate(row[1]) /\ row[2] = copy[row[1]].stamp
      BY <2>1, <2>3, <2>8, <2>26
    <3>2. \A p \in Scan : row[1] \in missing[p]
      BY <3>1 DEF Candidate, Stable, Unseen, Scan, ScansAreComplete
    <3>3. copy[row[1]].old /\ ~copy[row[1]].gone
      BY <3>1 DEF Candidate
    <3>4. row[2] < clock
      BY <3>1, <3>3 DEF VersionsArePast
    <3>5. \A k \in Errand : k[1] = Apply /\ Listed(k) => row[2] < errand[k].asked
      BY <3>1, <3>3 DEF TombstonesAreLater
    <3> QED BY <1>1, <1>4, <2>15, <3>1, <3>2, <3>3, <3>4, <3>5 DEF Due
  <2>27. TombstonesAreDue'
    <3> SUFFICES ASSUME NEW m \in Sweeper, sweeper'[m].at = "land", sweeper'[m].job[1] = Apply,
                        NEW row \in sweeper'[m].rows
                 PROVE  Due(row)'
      BY DEF TombstonesAreDue
    <3>1. CASE m = l
      BY <2>12, <2>26, <3>1
    <3>2. CASE m # l
      <4>1. sweeper[m].rows \subseteq Source \X Nat
        BY SweepKinds
      <4> QED BY <2>10, <2>25, <3>2, <4>1 DEF TombstonesAreDue
    <3> QED BY <3>1, <3>2
  <2> QED BY <2>17, <2>18, <2>19, <2>20, <2>21, <2>22, <2>23, <2>24, <2>27
<1> QED BY <1>5, <1>6 DEF Extract

LEMMA SweepIInvStep == SweepIInv /\ [SweepNext]_sweepVars => SweepIInv'
<1> SUFFICES ASSUME SweepIInv, [SweepNext]_sweepVars PROVE SweepIInv'
  OBVIOUS
<1>1. SweepParts'
  BY SweepPartsStep DEF SweepIInv
<1>2. CASE UNCHANGED sweepVars
  <2>1. clock \in Nat /\ \A s \in Source : edition[s] \in Nat /\ edition[s] < clock
    BY SweepKinds DEF SweepIInv, VersionsArePast
  <2>2. Quiet
    BY <1>2, <2>1 DEF Quiet, Rests, Listed, sweepVars, vendorVars, store, bounds
  <2> QED BY <1>1, <2>2, QuietKeeps
<1>3. ASSUME NEW r \in Source, Put(r) \/ Drop(r) \/ Poll(r) PROVE SweepIInv'
  BY <1>1, <1>3, VendorQuiet, QuietKeeps, PollKeeps
<1>4. ASSUME NEW j \in Errand, RetryComesDue(j) \/ WindowPasses(j) \/ LaneStalls(j)
      PROVE  SweepIInv'
  BY <1>1, <1>4, LedgerQuiet, QuietKeeps
<1>5. ASSUME NEW l \in Sweeper, NEW j \in Errand, ClaimErrand(l, j) PROVE SweepIInv'
  BY <1>1, <1>5, ClaimQuiet, QuietKeeps
<1>6. ASSUME NEW l \in Sweeper,
             \/ RecordNothing(l) \/ RecordApplications(l)
             \/ BeginPhase(l) \/ CommitPhase(l) \/ BlockPhase(l)
             \/ FindLeaseLost(l) \/ MeetUpset(l) \/ LoseSweeper(l)
             \/ FinishErrand(l) \/ RetryErrand(l) \/ MeetRateLimit(l)
      PROVE  SweepIInv'
  BY <1>1, <1>6, RecordQuiet, PhaseQuiet, LossQuiet, GiveUpQuiet, QuietKeeps
<1>7. ASSUME NEW l \in Sweeper,
             Extract(l) \/ LandRows(l) \/ RecordScan(l) \/ Conclude(l) \/ Continue(l)
      PROVE  SweepIInv'
  BY <1>1, <1>7, ExtractKeeps, LandRowsKeeps, RecordScanKeeps, ConcludeKeeps, ContinueKeeps
<1> QED BY <1>2, <1>3, <1>4, <1>5, <1>6, <1>7, SweepSteps

\* A row that is still current when its tombstone lands is still the candidate it was.
LEMMA TombstoneStep ==
  ASSUME SweepIInv, SweepNext
  PROVE  \A r \in Source : copy'[r].gone /\ ~copy[r].gone =>
           copy[r].old /\ \A p \in Scan : r \in missing[p]
<1> SUFFICES ASSUME NEW r \in Source, copy'[r].gone, ~copy[r].gone
             PROVE  copy[r].old /\ \A p \in Scan : r \in missing[p]
  OBVIOUS
<1> USE DEF vendorVars, store, bounds
<1>1. ASSUME UNCHANGED copy PROVE FALSE
  BY <1>1
<1>2. ASSUME NEW s \in Source, Poll(s) PROVE FALSE
  BY <1>2 DEF Poll, Upserted, SweepIInv, SweepParts
<1>3. ASSUME NEW l \in Sweeper, RecordScan(l) PROVE FALSE
  BY <1>3 DEF RecordScan, SweepIInv, SweepParts, Copy
<1>4. ASSUME NEW l \in Sweeper, LandRows(l)
      PROVE  copy[r].old /\ \A p \in Scan : r \in missing[p]
  <2> DEFINE j == sweeper[l].job
  <2>1. /\ sweeper[l].at = "land" /\ copy' = Landed(j)
        /\ j[1] = Apply => \A row \in sweeper[l].rows : Current(row)
    BY <1>1, <1>4 DEF LandRows
  <2>2. r \in Batched(j) /\ j[1] = Apply
    BY <2>1 DEF Landed, Upserted
  <2>3. PICK row \in sweeper[l].rows : row[1] = r
    BY <2>1, <2>2 DEF SweepIInv, PagesAreBatches, AtPage
  <2>4. Current(row) /\ Due(row)
    BY <2>1, <2>2 DEF SweepIInv, TombstonesAreDue
  <2>5. row[2] \in Nat /\ copy[r].stamp \in Nat
    BY SweepKinds DEF SweepIInv
  <2> QED BY <2>3, <2>4, <2>5 DEF Current, Due
<1>5. \/ UNCHANGED copy
      \/ \E s \in Source : Poll(s)
      \/ \E l \in Sweeper : RecordScan(l) \/ LandRows(l)
  BY SweepSteps
     DEF Put, Drop, RetryComesDue, WindowPasses, LaneStalls, LoseLease, ClaimErrand, BeginPhase,
         Extract, RecordNothing, RecordApplications, Conclude, CommitPhase, Continue, FinishErrand,
         FindLeaseLost, BlockPhase, RetryErrand, MeetUpset, MeetRateLimit, LoseSweeper
<1> QED BY <1>1, <1>2, <1>3, <1>4, <1>5

\* No record is called deleted on less than two scans that missed it, and no version
\* is lost that is newer than the first of them.
THEOREM TombstonesAreAlwaysProven == SweepSpec => TombstonesAreProven
<1>1. SweepIInv /\ [SweepNext]_sweepVars =>
        [\A r \in Source : copy'[r].gone /\ ~copy[r].gone =>
           copy[r].old /\ \A p \in Scan : r \in missing[p]]_sweepVars
  BY TombstoneStep
<1> QED BY <1>1, SweepIInvInit, SweepIInvStep, PTL DEF SweepSpec, TombstonesAreProven

-------------------------------------------------------------------------------
(* The evidence of a phase.  A batch is made once, so that every attempt at a   *)
(* page agrees whether another one follows, and a scan with a last page has     *)
(* recorded every page there is: it is not judged again and stays as it is.     *)

\* A full page is followed by another one.
Full(j) == Cardinality(Batched(j)) = PageSize

\* A page holds records after that it starts from.
PagesGoOn == \A j \in Errand : j[1] \in Scan => \A r \in Batched(j) : r > j[2]

\* A page that is recorded has a job and a batch, and its records are seen.
PagesAreKnown ==
  \A p \in Scan, k \in 0 .. LastSource : k \in scan[p].pages =>
    /\ batch[<<p, k>>].made /\ Listed(<<p, k>>)
    /\ Batched(<<p, k>>) \subseteq scan[p].seen

\* The page after s follows that after k.
Follows(p, k, s) ==
  /\ k \in scan[p].pages /\ Full(<<p, k>>)
  /\ s \in Batched(<<p, k>>) /\ \A r \in Batched(<<p, k>>) : r <= s

\* Every page but the last of a scan is recorded, full, and followed by the next.
PagesAreChained ==
  /\ \A p \in Scan, m \in 0 .. LastSource : Listed(<<p, m>>) => Listed(<<p, 0>>)
  /\ \A p \in Scan, k, m \in 0 .. LastSource :
       Listed(<<p, k>>) /\ Listed(<<p, m>>) /\ k < m =>
         \E s \in Source : s <= m /\ Listed(<<p, s>>) /\ Follows(p, k, s)

\* What an attempt says of more pages is what the batch says.
PagesAreFull ==
  \A l \in Sweeper : sweeper[l].at \in AtPage /\ sweeper[l].job[1] \in Scan =>
    (sweeper[l].more <=> Full(sweeper[l].job))

\* The next page is published when this one is recorded.
PagesContinue ==
  \A l \in Sweeper : sweeper[l].at = "continue" /\ sweeper[l].job[1] \in Scan =>
    sweeper[l].more /\ sweeper[l].job[2] \in scan[sweeper[l].job[1]].pages

\* A complete scan has recorded a page that is not full.
ScansAreOver ==
  \A p \in Scan : scan[p].status = "complete" => \E k \in scan[p].pages : ~Full(<<p, k>>)

ScansAgree ==
  scan[Verify].status = "complete" =>
    scan[Identity].status = "complete" /\ scan[Verify].seen = scan[Identity].seen

\* A phase is passed by a lane that has a complete scan.
ScansAreConcluded ==
  \A l \in Sweeper : sweeper[l].at \in {"conclude", "commit"} /\ sweeper[l].job[1] \in Scan =>
    scan[sweeper[l].job[1]].status = "complete"

ScanInv ==
  /\ PagesGoOn /\ PagesAreKnown /\ PagesAreChained /\ PagesAreFull /\ PagesContinue
  /\ ScansAreOver /\ ScansAgree /\ ScansAreConcluded

\* Candidates are met in the order of their ids: none is left behind a page.
TombstonesAreOrderly ==
  \A j \in Errand : j[1] = Apply /\ Listed(j) =>
    Stable /\ \A r \in Source : Candidate(r) => r > j[2]

Beyond(l, r) == sweeper[l].more /\ \A s \in Batched(sweeper[l].job) : s < r

\* What an attempt has not met is on a later page.
CandidatesAreBeyond ==
  \A l \in Sweeper, r \in Source : sweeper[l].job[1] = Apply /\ Candidate(r) =>
    /\ sweeper[l].at = "land" => r \in Batched(sweeper[l].job) \/ Beyond(l, r)
    /\ sweeper[l].at \in {"record", "continue"} => Beyond(l, r)
    /\ sweeper[l].at \notin {"conclude", "commit"}

\* The last phase is passed by a lane that has compared the totals.
TotalsAreChecked ==
  \A l \in Sweeper : sweeper[l].at = "commit" /\ sweeper[l].job[1] = Apply => reconciled

EvidenceInv ==
  /\ SweepIInv /\ ScanInv
  /\ SweepIsReal /\ TombstonesAreOrderly /\ CandidatesAreBeyond /\ TotalsAreChecked

-------------------------------------------------------------------------------
(* Pages.                                                                  *)

\* What is found has a first record and a last one.
LEMMA FoundEnds ==
  ASSUME NEW found \in SUBSET Source, found # {}
  PROVE  /\ \E r \in found : \A s \in found : r <= s
         /\ \E r \in found : \A s \in found : s <= r
<1> DEFINE lower(r) == {s \in found : s < r}
           upper(r) == {s \in found : s > r}
           R == StrictSubsetOrdering(Source)
<1>1. IsFiniteSet(Source) /\ \A r \in Source : r \in Nat
  BY SweepAssumption, FS_Interval DEF SweepAssumption, Source
<1>2. IsWellFoundedOn(R, SUBSET Source)
  BY <1>1, FS_StrictSubsetOrderingWellFounded, FS_FiniteSubsetsOfFinite
<1>3. \A r, s \in found : /\ s < r => <<lower(s), lower(r)>> \in R
                          /\ r < s => <<upper(s), upper(r)>> \in R
  <2>1. ASSUME NEW r \in found, NEW s \in found, s < r PROVE <<lower(s), lower(r)>> \in R
    <3>1. lower(s) \subseteq lower(r) /\ s \in lower(r) /\ s \notin lower(s)
      BY <1>1, <2>1
    <3> QED BY <3>1 DEF StrictSubsetOrdering
  <2>2. ASSUME NEW r \in found, NEW s \in found, r < s PROVE <<upper(s), upper(r)>> \in R
    <3>1. upper(s) \subseteq upper(r) /\ s \in upper(r) /\ s \notin upper(s)
      BY <1>1, <2>2
    <3> QED BY <3>1 DEF StrictSubsetOrdering
  <2> QED BY <2>1, <2>2
<1> HIDE DEF R
<1>4. \E r \in found : \A s \in found : r <= s
  <2> DEFINE T == {lower(r) : r \in found}
  <2>1. T \subseteq SUBSET Source /\ T # {}
    OBVIOUS
  <2>2. PICK x \in T : \A y \in T : ~(<<y, x>> \in R)
    <3> HIDE DEF T
    <3> QED BY <1>2, <2>1, WFMin
  <2>3. PICK r \in found : x = lower(r)
    OBVIOUS
  <2>4. ASSUME NEW s \in found, s < r PROVE FALSE
    <3>1. lower(s) \in T
      OBVIOUS
    <3>2. <<lower(s), lower(r)>> \in R
      BY <1>3, <2>4
    <3> HIDE DEF T, lower
    <3> QED BY <2>2, <2>3, <3>1, <3>2
  <2> QED BY <1>1, <2>4
<1>5. \E r \in found : \A s \in found : s <= r
  <2> DEFINE T == {upper(r) : r \in found}
  <2>1. T \subseteq SUBSET Source /\ T # {}
    OBVIOUS
  <2>2. PICK x \in T : \A y \in T : ~(<<y, x>> \in R)
    <3> HIDE DEF T
    <3> QED BY <1>2, <2>1, WFMin
  <2>3. PICK r \in found : x = upper(r)
    OBVIOUS
  <2>4. ASSUME NEW s \in found, r < s PROVE FALSE
    <3>1. upper(s) \in T
      OBVIOUS
    <3>2. <<upper(s), upper(r)>> \in R
      BY <1>3, <2>4
    <3> HIDE DEF T, upper
    <3> QED BY <2>2, <2>3, <3>1, <3>2
  <2> QED BY <1>1, <2>4
<1> QED BY <1>4, <1>5

\* A first page has PageSize records if there are more, and never more than that.
LEMMA PageLength ==
  ASSUME NEW found \in SUBSET Source
  PROVE  /\ Cardinality(FirstPage(found)) \in Nat
         /\ Cardinality(FirstPage(found)) <= PageSize
         /\ FirstPage(found) # found => Cardinality(FirstPage(found)) = PageSize
<1> DEFINE page == FirstPage(found)
           below(r) == {s \in found : s < r}
<1>1. IsFiniteSet(Source) /\ \A r \in Source : r \in Nat
  BY SweepAssumption, FS_Interval DEF SweepAssumption, Source
<1>2. page \subseteq found /\ \A r \in found : r \in page <=> Cardinality(below(r)) < PageSize
  BY DEF FirstPage
<1> HIDE DEF page
<1>3. IsFiniteSet(page) /\ Cardinality(page) \in Nat
  BY <1>1, <1>2, FS_Subset, FS_CardinalityType
<1>4. \A r \in found : IsFiniteSet(below(r)) /\ Cardinality(below(r)) \in Nat
  BY <1>1, FS_Subset, FS_CardinalityType
<1>5. PageSize \in Nat \ {0}
  BY SweepAssumption DEF SweepAssumption
<1>6. Cardinality(page) <= PageSize
  <2>1. CASE page = {}
    BY <1>5, <2>1, FS_EmptySet
  <2>2. CASE page # {}
    <3>1. PICK r \in page : \A s \in page : s <= r
      BY <1>2, <2>2, FoundEnds
    <3>2. page \ {r} \subseteq below(r)
      <4>1. ASSUME NEW s \in page, s # r PROVE s < r
        BY <1>1, <1>2, <3>1, <4>1
      <4> QED BY <1>2, <4>1
    <3>3. Cardinality(page \ {r}) <= Cardinality(below(r))
      BY <1>2, <1>4, <3>2, FS_Subset
    <3>4. Cardinality(page \ {r}) = Cardinality(page) - 1
      BY <1>3, FS_RemoveElement
    <3>5. Cardinality(below(r)) < PageSize /\ Cardinality(below(r)) \in Nat
      BY <1>2, <1>4
    <3> QED BY <1>3, <1>5, <3>3, <3>4, <3>5
  <2> QED BY <2>1, <2>2
<1>7. ASSUME page # found PROVE Cardinality(page) >= PageSize
  <2>1. PICK r \in found \ page : \A s \in found \ page : r <= s
    <3>1. found \ page # {} /\ found \ page \in SUBSET Source
      BY <1>2, <1>7
    <3> QED BY <3>1, FoundEnds
  <2>2. below(r) \subseteq page
    BY <1>1, <2>1
  <2>3. Cardinality(below(r)) <= Cardinality(page)
    BY <1>3, <2>2, FS_Subset
  <2>4. Cardinality(below(r)) \in Nat /\ ~(Cardinality(below(r)) < PageSize)
    BY <1>2, <1>4
  <2> HIDE DEF below
  <2> QED BY <1>3, <1>5, <2>3, <2>4
<1> QED BY <1>3, <1>5, <1>6, <1>7 DEF page

-------------------------------------------------------------------------------
(* What a step does to lanes, jobs, batches and scans.                     *)

\* Where a lane has a page, or is done with its phase, and how it gets there.
LEMMA LaneArrives ==
  ASSUME SweepIInv, [SweepNext]_sweepVars, NEW m \in Sweeper,
         sweeper'[m].at \in AtPage \cup {"conclude", "commit"}
  PROVE  \/ sweeper'[m] = sweeper[m]
         \/ Extract(m) /\ sweeper'[m].at = "land" /\ sweeper'[m].job = sweeper[m].job
         \/ /\ sweeper'[m].job = sweeper[m].job /\ sweeper'[m].rows = sweeper[m].rows
            /\ sweeper'[m].more = sweeper[m].more
            /\ \/ LandRows(m) /\ sweeper'[m].at = "record"
               \/ /\ RecordNothing(m) \/ RecordScan(m) \/ RecordApplications(m)
                  /\ sweeper'[m].at \in {"continue", "conclude"}
               \/ Conclude(m) /\ sweeper'[m].at = "commit"
<1> USE DEF vendorVars, store, bounds
<1> DEFINE done == AtPage \cup {"conclude", "commit"}
<1>1. sweeper \in [Sweeper -> SweeperState]
  BY DEF SweepIInv, SweepParts
<1>2. UNCHANGED sweeper => sweeper'[m] = sweeper[m]
  OBVIOUS
<1>3. ASSUME NEW l \in Sweeper, NEW state, sweeper' = [sweeper EXCEPT ![l] = state],
             l = m => state.at \notin done
      PROVE  sweeper'[m] = sweeper[m]
  BY <1>1, <1>3
<1>4. ASSUME NEW l \in Sweeper, NEW at, Goes(l, at), l = m => at \notin done
      PROVE  sweeper'[m] = sweeper[m]
  <2> DEFINE state == [sweeper[l] EXCEPT !.at = at]
  <2>1. sweeper' = [sweeper EXCEPT ![l] = state] /\ state.at = at
    BY <1>1, <1>4 DEF Goes, SweeperState
  <2> HIDE DEF state
  <2> QED BY <1>3, <1>4, <2>1
<1>5. ASSUME NEW l \in Sweeper, NEW fault, Throws(l, fault)
      PROVE  sweeper'[m] = sweeper[m]
  <2> DEFINE state == [sweeper[l] EXCEPT !.at = "blocking", !.fault = fault, !.rows = {}]
  <2>1. sweeper' = [sweeper EXCEPT ![l] = state] /\ state.at = "blocking"
    BY <1>1, <1>5 DEF Throws, SweeperState
  <2> HIDE DEF state
  <2> QED BY <1>3, <2>1 DEF AtPage
<1>6. ASSUME NEW l \in Sweeper, sweeper' = [sweeper EXCEPT ![l] = AtRest]
      PROVE  sweeper'[m] = sweeper[m]
  BY <1>3, <1>6 DEF AtRest, AtPage
<1>7. ASSUME NEW l \in Sweeper, NEW j \in Errand, ClaimErrand(l, j)
      PROVE  sweeper'[m] = sweeper[m]
  <2> DEFINE state == [AtRest EXCEPT !.at = "begin", !.job = j, !.read = errand[j].reads + 1]
  <2>1. sweeper' = [sweeper EXCEPT ![l] = state] /\ state.at = "begin"
    BY <1>7 DEF ClaimErrand, AtRest
  <2> HIDE DEF state
  <2> QED BY <1>3, <2>1 DEF AtPage
<1>8. ASSUME NEW l \in Sweeper, NEW at \in done, Goes(l, at)
      PROVE  \/ sweeper'[m] = sweeper[m]
             \/ /\ l = m /\ sweeper'[m].at = at /\ sweeper'[m].job = sweeper[m].job
                /\ sweeper'[m].rows = sweeper[m].rows /\ sweeper'[m].more = sweeper[m].more
  <2>1. at \in Stage
    BY DEF AtPage, Stage
  <2> QED BY <1>1, <1>8, <2>1, LaneGoes DEF SweepIInv
<1>9. ASSUME NEW l \in Sweeper, Extract(l)
      PROVE  \/ sweeper'[m] = sweeper[m]
             \/ l = m /\ sweeper'[m].at = "land" /\ sweeper'[m].job = sweeper[m].job
  <2>1. CASE Throws(l, "passing")
    BY <1>5, <2>1
  <2> DEFINE j == sweeper[l].job
             found == IF j[1] = Apply THEN Candidates(j[2]) ELSE Asked(j[1], j[2])
             page == FirstPage(found)
             read == {<<r, IF j[1] = Apply THEN copy[r].stamp ELSE edition[r]>> : r \in page}
             full == (found # page \/ Cardinality(page) = PageSize)
             state == [sweeper[l] EXCEPT !.at = "land", !.rows = read, !.more = full]
  <2>2. \/ Throws(l, "passing")
        \/ sweeper' = [sweeper EXCEPT ![l] = state]
    BY <1>9 DEF Extract
  <2> HIDE DEF read, full, j
  <2>3. state.at = "land" /\ state.job = sweeper[l].job
    BY <1>1 DEF SweeperState
  <2> HIDE DEF state
  <2>4. CASE sweeper' = [sweeper EXCEPT ![l] = state]
    BY <1>1, <2>3, <2>4
  <2> QED BY <2>1, <2>2, <2>4
<1> HIDE DEF done
<1>10. ASSUME NEW l \in Sweeper, LandRows(l)
       PROVE  sweeper'[m] = sweeper[m] \/ Goes(l, "record")
  BY <1>5, <1>10 DEF LandRows
<1>11. ASSUME NEW l \in Sweeper, RecordNothing(l) \/ RecordScan(l) \/ RecordApplications(l)
       PROVE  sweeper'[m] = sweeper[m] \/ \E at \in {"continue", "conclude"} : Goes(l, at)
  BY <1>5, <1>11 DEF RecordNothing, RecordScan, RecordApplications
<1>12. ASSUME NEW l \in Sweeper, Conclude(l)
       PROVE  sweeper'[m] = sweeper[m] \/ Goes(l, "commit")
  BY <1>5, <1>12 DEF Conclude, Tallies, PublishesNext
<1>13. {"record", "continue", "conclude", "commit"} \subseteq done /\ "extract" \notin done
       /\ "finish" \notin done /\ "failing" \notin done
  BY DEF done, AtPage
<1>14. ASSUME NEW l \in Sweeper,
              \/ BeginPhase(l) \/ CommitPhase(l) \/ BlockPhase(l) \/ Continue(l)
              \/ FindLeaseLost(l) \/ MeetUpset(l) \/ LoseSweeper(l)
              \/ FinishErrand(l) \/ RetryErrand(l) \/ MeetRateLimit(l)
       PROVE  sweeper'[m] = sweeper[m]
  <2>1. \/ \E at \in {"extract", "finish", "failing"} : Goes(l, at)
        \/ \E fault \in Failure : Throws(l, fault)
        \/ sweeper' = [sweeper EXCEPT ![l] = AtRest]
    BY <1>14 DEF BeginPhase, CommitPhase, BlockPhase, Continue, FindLeaseLost, MeetUpset,
                 LoseSweeper, FinishErrand, RetryErrand, MeetRateLimit, Failure
  <2> QED BY <1>4, <1>5, <1>6, <1>13, <2>1
<1>15. ASSUME \/ UNCHANGED sweepVars
              \/ \E r \in Source : Put(r) \/ Drop(r) \/ Poll(r)
              \/ \E j \in Errand : RetryComesDue(j) \/ WindowPasses(j) \/ LaneStalls(j)
       PROVE  UNCHANGED sweeper
  BY <1>15 DEF sweepVars, Put, Drop, Poll, RetryComesDue, WindowPasses, LaneStalls, LoseLease
<1>16. CASE UNCHANGED sweepVars \/ \E r \in Source : Put(r) \/ Drop(r) \/ Poll(r)
  BY <1>15, <1>16
<1>17. CASE \E j \in Errand : RetryComesDue(j) \/ WindowPasses(j) \/ LaneStalls(j)
  BY <1>15, <1>17
<1>18. ASSUME NEW l \in Sweeper, LandRows(l)
       PROVE  \/ sweeper'[m] = sweeper[m]
              \/ /\ l = m /\ sweeper'[m].at = "record" /\ sweeper'[m].job = sweeper[m].job
                 /\ sweeper'[m].rows = sweeper[m].rows /\ sweeper'[m].more = sweeper[m].more
  BY <1>8, <1>10, <1>13, <1>18
<1>19. ASSUME NEW l \in Sweeper, RecordNothing(l) \/ RecordScan(l) \/ RecordApplications(l)
       PROVE  \/ sweeper'[m] = sweeper[m]
              \/ /\ l = m /\ sweeper'[m].at \in {"continue", "conclude"}
                 /\ sweeper'[m].job = sweeper[m].job
                 /\ sweeper'[m].rows = sweeper[m].rows /\ sweeper'[m].more = sweeper[m].more
  BY <1>8, <1>11, <1>13, <1>19
<1>20. ASSUME NEW l \in Sweeper, Conclude(l)
       PROVE  \/ sweeper'[m] = sweeper[m]
              \/ /\ l = m /\ sweeper'[m].at = "commit" /\ sweeper'[m].job = sweeper[m].job
                 /\ sweeper'[m].rows = sweeper[m].rows /\ sweeper'[m].more = sweeper[m].more
  BY <1>8, <1>12, <1>13, <1>20
<1> QED BY <1>7, <1>9, <1>14, <1>16, <1>17, <1>18, <1>19, <1>20, SweepSteps

\* The steps after which the jobs, the batches and the scans are what they were.
LEMMA QuietSteps ==
  ASSUME SweepIInv, [SweepNext]_sweepVars
  PROVE  \/ UNCHANGED <<scan, batch>> /\ \A j \in Errand : Listed(j)' = Listed(j)
         \/ \E l \in Sweeper : Extract(l) \/ RecordScan(l) \/ Conclude(l) \/ Continue(l)
<1> USE DEF vendorVars, store, bounds
<1>1. Quiet => UNCHANGED <<scan, batch>> /\ \A j \in Errand : Listed(j)' = Listed(j)
  BY DEF Quiet
<1>2. CASE UNCHANGED sweepVars
  BY <1>2 DEF sweepVars, Listed
<1>3. ASSUME NEW r \in Source, Put(r) \/ Drop(r) \/ Poll(r)
      PROVE  UNCHANGED <<scan, batch>> /\ \A j \in Errand : Listed(j)' = Listed(j)
  BY <1>3 DEF Put, Drop, Poll, Listed
<1>4. ASSUME NEW j \in Errand, RetryComesDue(j) \/ WindowPasses(j) \/ LaneStalls(j)
      PROVE  Quiet
  BY <1>4, LedgerQuiet
<1>5. ASSUME NEW l \in Sweeper, NEW j \in Errand, ClaimErrand(l, j) PROVE Quiet
  BY <1>5, ClaimQuiet
<1>6. ASSUME NEW l \in Sweeper,
             \/ RecordNothing(l) \/ RecordApplications(l)
             \/ BeginPhase(l) \/ CommitPhase(l) \/ BlockPhase(l)
             \/ FindLeaseLost(l) \/ MeetUpset(l) \/ LoseSweeper(l)
             \/ FinishErrand(l) \/ RetryErrand(l) \/ MeetRateLimit(l)
      PROVE  Quiet
  BY <1>6, RecordQuiet, PhaseQuiet, LossQuiet, GiveUpQuiet
<1>7. ASSUME NEW l \in Sweeper, LandRows(l)
      PROVE  UNCHANGED <<scan, batch>> /\ \A j \in Errand : Listed(j)' = Listed(j)
  BY <1>7 DEF LandRows, Listed
<1> QED BY <1>1, <1>2, <1>3, <1>4, <1>5, <1>6, <1>7, SweepSteps

\* A batch is made once.
LEMMA BatchesLast ==
  ASSUME SweepIInv, [SweepNext]_sweepVars, NEW j \in Errand
  PROVE  /\ batch[j].made => batch'[j].made /\ Batched(j)' = Batched(j)
         /\ batch'[j] = batch[j] \/ \E l \in Sweeper : Extract(l) /\ sweeper[l].job = j
<1>1. CASE UNCHANGED batch
  BY <1>1 DEF Batched
<1>2. ASSUME NEW l \in Sweeper, Extract(l), ~UNCHANGED batch
      PROVE  /\ batch[j].made => batch'[j].made /\ Batched(j)' = Batched(j)
             /\ batch'[j] = batch[j] \/ sweeper[l].job = j
  <2> DEFINE k == sweeper[l].job
             found == IF k[1] = Apply THEN Candidates(k[2]) ELSE Asked(k[1], k[2])
             page == FirstPage(found)
             rows == {<<r, IF k[1] = Apply THEN copy[r].stamp ELSE edition[r]>> : r \in page}
             content == IF k[1] = Apply THEN {<<r, errand[k].asked>> : r \in page} ELSE rows
  <2>1. /\ ~batch[k].made \/ batch[k].rows = content
        /\ batch' = [batch EXCEPT ![k] = [made |-> TRUE, rows |-> content]]
    BY <1>2 DEF Extract
  <2>2. k \in Errand /\ batch \in [Errand -> BatchType]
    BY SweepKinds DEF SweepIInv, SweepParts
  <2> HIDE DEF content, k
  <2>3. \/ batch'[j] = batch[j] /\ k # j
        \/ k = j /\ batch'[j].made /\ (batch[j].made => batch'[j].rows = batch[j].rows)
    BY <2>1, <2>2
  <2> QED BY <2>3 DEF Batched, k
<1>3. ASSUME NEW l \in Sweeper, RecordScan(l) \/ Conclude(l) \/ Continue(l)
      PROVE  UNCHANGED batch
  BY <1>3 DEF RecordScan, Conclude, Continue, bounds
<1> QED BY <1>1, <1>2, <1>3, QuietSteps

\* A job is published once, as the first of the next phase or as the page after one.
LEMMA JobsAreAdded ==
  ASSUME SweepIInv, [SweepNext]_sweepVars, NEW j \in Errand
  PROVE  /\ Listed(j) => Listed(j)'
         /\ Listed(j)' =>
              \/ Listed(j)
              \/ \E l \in Sweeper :
                   /\ Conclude(l) /\ PublishesNext(l)
                   /\ j[1] = sweeper[l].job[1] + 1 /\ j[2] = 0
              \/ \E l \in Sweeper :
                   /\ Continue(l) /\ j[1] = sweeper[l].job[1]
                   /\ j[2] \in Batched(sweeper[l].job)
                   /\ \A r \in Batched(sweeper[l].job) : r <= j[2]
<1>1. errand \in [Errand -> ErrandRow]
  BY DEF SweepIInv, SweepParts
<1>2. CASE \A k \in Errand : Listed(k)' = Listed(k)
  BY <1>2
<1>3. ASSUME NEW k \in Errand, errand' = Published(k)
      PROVE  /\ Listed(j) => Listed(j)'
             /\ Listed(j)' => Listed(j) \/ j = k
  BY <1>1, <1>3 DEF Published, Listed, NoErrand
<1>4. ASSUME NEW l \in Sweeper, Extract(l) \/ RecordScan(l)
      PROVE  \A k \in Errand : Listed(k)' = Listed(k)
  <2>1. Extract(l) => UNCHANGED errand
    BY DEF Extract, vendorVars, store, bounds
  <2>2. RecordScan(l) => UNCHANGED errand
    BY DEF RecordScan, vendorVars, bounds
  <2> QED BY <1>4, <2>1, <2>2 DEF Listed
<1>5. ASSUME NEW l \in Sweeper, Conclude(l)
      PROVE  /\ Listed(j) => Listed(j)'
             /\ Listed(j)' =>
                  \/ Listed(j)
                  \/ PublishesNext(l) /\ j[1] = sweeper[l].job[1] + 1 /\ j[2] = 0
  <2>1. CASE Tallies(l)
    BY <2>1 DEF Tallies, Listed
  <2>2. CASE PublishesNext(l)
    <3> DEFINE k == <<sweeper[l].job[1] + 1, 0>>
    <3>1. sweeper[l].job \in Errand
      BY SweepKinds DEF SweepIInv
    <3>2. k \in Errand /\ k[1] = sweeper[l].job[1] + 1 /\ k[2] = 0
      BY <2>2, <3>1, ErrandParts DEF PublishesNext
    <3>3. errand' = Published(k)
      BY <2>2 DEF PublishesNext
    <3> HIDE DEF k
    <3> QED BY <1>3, <2>2, <3>2, <3>3
  <2> QED BY <1>5, <2>1, <2>2 DEF Conclude
<1>6. ASSUME NEW l \in Sweeper, Continue(l)
      PROVE  /\ Listed(j) => Listed(j)'
             /\ Listed(j)' =>
                  \/ Listed(j)
                  \/ /\ j[1] = sweeper[l].job[1] /\ j[2] \in Batched(sweeper[l].job)
                     /\ \A r \in Batched(sweeper[l].job) : r <= j[2]
  <2>1. PICK row \in sweeper[l].rows : /\ \A other \in sweeper[l].rows : other[1] <= row[1]
                                       /\ errand' = Published(<<sweeper[l].job[1], row[1]>>)
    BY <1>6 DEF Continue
  <2> DEFINE k == <<sweeper[l].job[1], row[1]>>
  <2>2. sweeper[l].job \in Errand /\ sweeper[l].job[1] \in Phase /\ row[1] \in Source
    BY SweepKinds DEF SweepIInv
  <2>3. k \in Errand /\ k[1] = sweeper[l].job[1] /\ k[2] = row[1]
    BY <2>2, ErrandParts
  <2>4. {r[1] : r \in sweeper[l].rows} = Batched(sweeper[l].job)
    BY <1>6 DEF SweepIInv, PagesAreBatches, AtPage, Continue
  <2>5. row[1] \in Batched(sweeper[l].job) /\ \A r \in Batched(sweeper[l].job) : r <= row[1]
    BY <2>1, <2>4
  <2>6. errand' = Published(k)
    BY <2>1
  <2> HIDE DEF k
  <2> QED BY <1>3, <2>3, <2>5, <2>6
<1> QED BY <1>2, <1>4, <1>5, <1>6, QuietSteps

-------------------------------------------------------------------------------
(* Scans.                                                                  *)

LEMMA ErrandPairs ==
  /\ \A j \in Errand : j = <<j[1], j[2]>>
  /\ \A p \in Scan, k \in 0 .. LastSource : <<p, k>> \in Errand /\ <<p, k>>[1] = p /\ <<p, k>>[2] = k
  /\ \A k \in 0 .. LastSource : k \in Nat
  /\ Scan \subseteq Phase
<1>1. Scan \subseteq Phase
  BY DEF Scan, Phase, Identity, Verify, LateEdits, Apply
<1>2. \A j \in Errand : j = <<j[1], j[2]>>
  BY DEF Errand
<1>3. \A k \in 0 .. LastSource : k \in Nat
  OBVIOUS
<1> QED BY <1>1, <1>2, <1>3, ErrandParts

LEMMA ScanKinds ==
  ASSUME SweepParts, NEW p \in Scan
  PROVE  scan[p].pages \subseteq 0 .. LastSource /\ scan[p].seen \subseteq Source
BY DEF SweepParts, ScanRow

\* A scan that is complete has recorded every page there is a job for.
LEMMA CompleteIsKnown ==
  ASSUME SweepIInv, ScanInv, NEW p \in Scan, scan[p].status = "complete",
         NEW k \in 0 .. LastSource, Listed(<<p, k>>)
  PROVE  k \in scan[p].pages
<1>1. PICK x \in scan[p].pages : ~Full(<<p, x>>)
  BY DEF ScanInv, ScansAreOver
<1>2. x \in 0 .. LastSource /\ Listed(<<p, x>>)
  BY <1>1, ScanKinds DEF ScanInv, PagesAreKnown, SweepIInv
<1>3. k < x => k \in scan[p].pages
  BY <1>2 DEF ScanInv, PagesAreChained, Follows
<1>4. ~(x < k)
  BY <1>1, <1>2 DEF ScanInv, PagesAreChained, Follows
<1>5. k \in Nat /\ x \in Nat
  BY <1>2, ErrandPairs
<1> QED BY <1>1, <1>3, <1>4, <1>5

\* The record of a page: it was recorded before, or the scan is not complete yet.
LEMMA RecordedScan ==
  ASSUME SweepIInv, ScanInv, NEW l \in Sweeper, RecordScan(l)
  PROVE  LET j == sweeper[l].job
             p == j[1]
         IN  /\ sweeper[l].at = "record" /\ p \in Scan
             /\ \/ UNCHANGED scan
                \/ /\ j[2] \notin scan[p].pages /\ scan[p].status # "complete"
                   /\ \A q \in Scan \ {p} : scan'[q] = scan[q]
                   /\ scan'[p].seen = scan[p].seen \cup Batched(j)
                   /\ scan'[p].pages = scan[p].pages \cup {j[2]}
                   /\ scan'[p].status = "complete" =>
                        /\ ~sweeper[l].more
                        /\ p = Verify => /\ scan[Identity].status = "complete"
                                         /\ scan'[p].seen = scan[Identity].seen
             /\ sweeper'[l].at = "continue" => sweeper[l].more /\ j[2] \in scan'[p].pages
             /\ sweeper'[l].at = "conclude" => scan'[p].status = "complete"
<1> DEFINE j == sweeper[l].job
           p == j[1]
           seen == scan[p].seen \cup Batched(j)
           known == j[2] \in scan[p].pages
           result == IF known THEN scan[p].status
                     ELSE IF ~sweeper[l].more THEN Judged(p, seen)
                     ELSE IF scan[p].status = "absent" THEN "running" ELSE scan[p].status
           row == [status |-> result, seen |-> seen, pages |-> scan[p].pages \cup {j[2]}]
<1>1. sweeper[l].at = "record" /\ p \in Scan
  BY DEF RecordScan
<1>2. /\ j \in Errand /\ Listed(j) /\ j = <<p, j[2]>> /\ j[2] \in 0 .. LastSource
      /\ scan \in [Scan -> ScanRow] /\ sweeper \in [Sweeper -> SweeperState]
  BY <1>1, SweepKinds, ErrandPairs, ErrandParts DEF SweepIInv, JobsAreListed, SweepParts
<1>3. known => row = scan[p]
  <2>1. known => Batched(j) \subseteq scan[p].seen
    BY <1>1, <1>2 DEF ScanInv, PagesAreKnown
  <2>2. known => seen = scan[p].seen /\ scan[p].pages \cup {j[2]} = scan[p].pages
    BY <2>1
  <2>3. scan[p] = [status |-> scan[p].status, seen |-> scan[p].seen, pages |-> scan[p].pages]
    BY <1>1, <1>2 DEF ScanRow
  <2> QED BY <2>2, <2>3
<1>4. ~known => scan[p].status # "complete"
  BY <1>1, <1>2, CompleteIsKnown
<1>5. result = "complete" /\ ~known =>
        /\ ~sweeper[l].more
        /\ p = Verify => seen = scan[Identity].seen
  BY <1>4 DEF Judged
<1>6. CASE Throws(l, "passing") /\ UNCHANGED <<scan, copy>>
  <2> DEFINE state == [sweeper[l] EXCEPT !.at = "blocking", !.fault = "passing", !.rows = {}]
  <2>1. state.at = "blocking" /\ sweeper' = [sweeper EXCEPT ![l] = state]
    BY <1>2, <1>6 DEF Throws, SweeperState
  <2> HIDE DEF state
  <2>2. sweeper'[l].at = "blocking"
    BY <1>2, <2>1
  <2> QED BY <1>1, <1>6, <2>2
<1>7. CASE /\ known \/ p # Verify \/ scan[Identity].status = "complete"
           /\ scan' = [scan EXCEPT ![p] = row]
           /\ IF sweeper[l].more THEN Goes(l, "continue")
              ELSE IF result = "complete" THEN Goes(l, "conclude") ELSE Throws(l, "lasting")
  <2>1. row.status = result /\ row.seen = seen /\ row.pages = scan[p].pages \cup {j[2]}
    OBVIOUS
  <2> HIDE DEF row, result
  <2>2. scan'[p] = row /\ \A q \in Scan \ {p} : scan'[q] = scan[q]
    BY <1>1, <1>2, <1>7
  <2>3. known => UNCHANGED scan
    <3> HIDE DEF known
    <3> QED BY <1>1, <1>2, <1>3, <1>7
  <2>4. sweeper'[l].at \in {"continue", "conclude", "blocking"}
        /\ (sweeper'[l].at = "continue" => sweeper[l].more)
        /\ (sweeper'[l].at = "conclude" => result = "complete")
    <3>1. Goes(l, "continue") => sweeper'[l].at = "continue"
      BY <1>2 DEF Goes, SweeperState
    <3>2. Goes(l, "conclude") => sweeper'[l].at = "conclude"
      BY <1>2 DEF Goes, SweeperState
    <3>3. Throws(l, "lasting") => sweeper'[l].at = "blocking"
      <4> DEFINE state == [sweeper[l] EXCEPT !.at = "blocking", !.fault = "lasting", !.rows = {}]
      <4>1. state.at = "blocking" /\ (Throws(l, "lasting") => sweeper' = [sweeper EXCEPT ![l] = state])
        BY <1>2 DEF Throws, SweeperState
      <4> HIDE DEF state
      <4> QED BY <1>2, <4>1
    <3> QED BY <1>7, <3>1, <3>2, <3>3
  <2> HIDE DEF known, j, p
  <2>5. CASE known
    BY <1>1, <2>1, <2>2, <2>3, <2>4, <2>5 DEF j, p
  <2>6. CASE ~known
    BY <1>1, <1>4, <1>5, <1>7, <2>1, <2>2, <2>4, <2>6 DEF j, p, known
  <2> QED BY <2>5, <2>6
<1> QED BY <1>6, <1>7 DEF RecordScan

\* Only the record of a page changes a scan.
LEMMA ScansMove ==
  ASSUME SweepIInv, [SweepNext]_sweepVars
  PROVE  UNCHANGED scan \/ \E l \in Sweeper : RecordScan(l)
<1>1. ASSUME NEW l \in Sweeper, Extract(l) \/ Conclude(l) \/ Continue(l)
      PROVE  UNCHANGED scan
  <2>1. Extract(l) => UNCHANGED scan
    BY DEF Extract, vendorVars, store, bounds
  <2> QED BY <1>1, <2>1 DEF Conclude, Continue, vendorVars, store, bounds
<1> QED BY <1>1, QuietSteps

\* A scan that is complete stays as it is, and what a scan has seen stays seen.
LEMMA ScansLast ==
  ASSUME SweepIInv, ScanInv, [SweepNext]_sweepVars, NEW p \in Scan
  PROVE  /\ scan[p].status = "complete" => scan'[p] = scan[p]
         /\ scan[p].seen \subseteq scan'[p].seen /\ scan[p].pages \subseteq scan'[p].pages
<1>1. CASE UNCHANGED scan
  BY <1>1
<1>2. ASSUME NEW l \in Sweeper, RecordScan(l)
      PROVE  /\ scan[p].status = "complete" => scan'[p] = scan[p]
             /\ scan[p].seen \subseteq scan'[p].seen /\ scan[p].pages \subseteq scan'[p].pages
  BY <1>2, RecordedScan
<1> QED BY <1>1, <1>2, ScansMove

\* What is found after a record, and what an attempt makes of it.
Found(j) == IF j[1] = Apply THEN Candidates(j[2]) ELSE Asked(j[1], j[2])

LEMMA PageIsRead ==
  ASSUME SweepIInv, NEW l \in Sweeper, Extract(l)
  PROVE  LET j == sweeper[l].job
             page == FirstPage(Found(j))
         IN  /\ sweeper[l].at = "extract" /\ j \in Errand /\ Listed(j)
             /\ Found(j) \in SUBSET Source /\ page \subseteq Found(j)
             /\ \/ UNCHANGED batch /\ sweeper'[l].at = "blocking"
                \/ /\ {row[1] : row \in batch'[j].rows} = page /\ batch'[j].made
                   /\ sweeper'[l].at = "land" /\ sweeper'[l].job = j
                   /\ sweeper'[l].more <=> (Found(j) # page \/ Cardinality(page) = PageSize)
<1> DEFINE j == sweeper[l].job
           found == Found(j)
           page == FirstPage(found)
           rows == {<<r, IF j[1] = Apply THEN copy[r].stamp ELSE edition[r]>> : r \in page}
           content == IF j[1] = Apply THEN {<<r, errand[j].asked>> : r \in page} ELSE rows
           more == (found # page \/ Cardinality(page) = PageSize)
           state == [sweeper[l] EXCEPT !.at = "land", !.rows = rows, !.more = more]
           stuck == [sweeper[l] EXCEPT !.at = "blocking", !.fault = "passing", !.rows = {}]
<1>1. /\ sweeper[l].at = "extract"
      /\ \/ /\ batch' = [batch EXCEPT ![j] = [made |-> TRUE, rows |-> content]]
            /\ sweeper' = [sweeper EXCEPT ![l] = state]
         \/ sweeper' = [sweeper EXCEPT ![l] = stuck] /\ UNCHANGED batch
  BY DEF Extract, Throws, Found
<1>2. /\ j \in Errand /\ Listed(j)
      /\ batch \in [Errand -> BatchType] /\ sweeper \in [Sweeper -> SweeperState]
  BY <1>1, SweepKinds DEF SweepIInv, JobsAreListed, SweepParts
<1>3. found \in SUBSET Source /\ page \subseteq found
  BY DEF Found, Candidates, Asked, FirstPage, SweepIInv, SweepParts, OtherTypes
<1>4. {row[1] : row \in content} = page
  <2> HIDE DEF page
  <2> DEFINE version == [r \in page |-> IF j[1] = Apply THEN copy[r].stamp ELSE edition[r]]
             asked == [r \in page |-> errand[j].asked]
  <2>1. rows = {<<r, version[r]>> : r \in page}
    OBVIOUS
  <2>2. {<<r, errand[j].asked>> : r \in page} = {<<r, asked[r]>> : r \in page}
    OBVIOUS
  <2> HIDE DEF version, asked, rows
  <2>3. content = {<<r, asked[r]>> : r \in page} \/ content = {<<r, version[r]>> : r \in page}
    BY <2>1, <2>2
  <2> HIDE DEF content
  <2> QED BY <2>3, PairIds
<1> HIDE DEF rows, content, more, page, found, j
<1>5. state.at = "land" /\ state.job = sweeper[l].job /\ state.more = more /\ stuck.at = "blocking"
  BY <1>2 DEF SweeperState
<1> HIDE DEF state, stuck
<1>6. CASE /\ batch' = [batch EXCEPT ![j] = [made |-> TRUE, rows |-> content]]
           /\ sweeper' = [sweeper EXCEPT ![l] = state]
  <2>1. batch'[j].made /\ batch'[j].rows = content
    BY <1>2, <1>6
  <2>2. {row[1] : row \in batch'[j].rows} = page
    BY <1>4, <2>1
  <2>4. sweeper'[l] = state
    BY <1>2, <1>6
  <2> QED BY <1>1, <1>2, <1>3, <1>5, <2>1, <2>2, <2>4 DEF j, found, page, more
<1>7. CASE sweeper' = [sweeper EXCEPT ![l] = stuck] /\ UNCHANGED batch
  <2>1. sweeper'[l].at = "blocking"
    BY <1>2, <1>5, <1>7
  <2> QED BY <1>1, <1>2, <1>3, <1>7, <2>1 DEF j, found, page
<1> QED BY <1>1, <1>6, <1>7

\* The parts of the invariant, one by one.
LEMMA PagesGoOnStep ==
  ASSUME SweepIInv, PagesGoOn, [SweepNext]_sweepVars
  PROVE  PagesGoOn'
<1> SUFFICES ASSUME NEW j \in Errand, j[1] \in Scan, NEW r \in Batched(j)' PROVE r > j[2]
  BY DEF PagesGoOn
<1>1. CASE batch'[j] = batch[j]
  BY <1>1 DEF PagesGoOn, Batched
<1>2. ASSUME NEW l \in Sweeper, Extract(l), sweeper[l].job = j, batch'[j] # batch[j]
      PROVE  r > j[2]
  <2>1. r \in Found(j)
    BY <1>2, PageIsRead DEF Batched
  <2> QED BY <2>1 DEF Found, Asked, Scan, Identity, Verify, Apply
<1> QED BY <1>1, <1>2, BatchesLast

LEMMA PagesAreKnownStep ==
  ASSUME SweepIInv, ScanInv, [SweepNext]_sweepVars
  PROVE  PagesAreKnown'
<1> SUFFICES ASSUME NEW p \in Scan, NEW k \in 0 .. LastSource, k \in scan'[p].pages
             PROVE  /\ batch'[<<p, k>>].made /\ Listed(<<p, k>>)'
                    /\ Batched(<<p, k>>)' \subseteq scan'[p].seen
  BY DEF PagesAreKnown, Listed, Batched
<1>3. <<p, k>> \in Errand
  BY ErrandPairs
<1>4. ASSUME batch[<<p, k>>].made, Listed(<<p, k>>), Batched(<<p, k>>) \subseteq scan'[p].seen
      PROVE  /\ batch'[<<p, k>>].made /\ Listed(<<p, k>>)'
             /\ Batched(<<p, k>>)' \subseteq scan'[p].seen
  BY <1>3, <1>4, BatchesLast, JobsAreAdded
<1>5. CASE k \in scan[p].pages
  BY <1>4, <1>5, ScansLast DEF ScanInv, PagesAreKnown
<1>6. ASSUME NEW l \in Sweeper, RecordScan(l), k \notin scan[p].pages
      PROVE  batch[<<p, k>>].made /\ Listed(<<p, k>>) /\ Batched(<<p, k>>) \subseteq scan'[p].seen
  <2> DEFINE j == sweeper[l].job
  <2>1. j[1] = p /\ j[2] = k /\ sweeper[l].at = "record" /\ scan'[p].seen = scan[p].seen \cup Batched(j)
    BY <1>6, RecordedScan
  <2>2. j = <<p, k>> /\ Listed(j)
    BY <2>1, SweepKinds, ErrandPairs DEF SweepIInv, JobsAreListed
  <2>3. batch[j].made
    BY <2>1 DEF SweepIInv, PagesAreBatches, AtPage
  <2> QED BY <2>1, <2>2, <2>3
<1>7. CASE scan'[p] = scan[p]
  BY <1>5, <1>7
<1> QED BY <1>4, <1>5, <1>6, <1>7, ScansMove

\* A page that is published is the first of its scan, or it follows one that is recorded.
LEMMA NewPage ==
  ASSUME SweepIInv, ScanInv, [SweepNext]_sweepVars,
         NEW p \in Scan, NEW m \in 0 .. LastSource, Listed(<<p, m>>)', ~Listed(<<p, m>>)
  PROVE  \/ m = 0 /\ \A x \in 0 .. LastSource : ~Listed(<<p, x>>)
         \/ \E x \in 0 .. LastSource : x < m /\ Listed(<<p, x>>) /\ Follows(p, x, m)
<1> DEFINE k == <<p, m>>
<1>1. k \in Errand /\ k[1] = p /\ k[2] = m /\ Listed(k)' /\ ~Listed(k)
  BY ErrandPairs
<1> HIDE DEF k
<1>2. ASSUME m = 0 PROVE \A x \in 0 .. LastSource : ~Listed(<<p, x>>)
  BY <1>2 DEF ScanInv, PagesAreChained
<1>3. ASSUME NEW l \in Sweeper, Continue(l), p = sweeper[l].job[1],
             m \in Batched(sweeper[l].job), \A r \in Batched(sweeper[l].job) : r <= m
      PROVE  \E x \in 0 .. LastSource : x < m /\ Listed(<<p, x>>) /\ Follows(p, x, m)
  <2> DEFINE j == sweeper[l].job
             x == j[2]
  <2>1. sweeper[l].at = "continue" /\ j \in Errand
    BY <1>3, SweepKinds DEF Continue, SweepIInv
  <2>2. j = <<p, x>> /\ x \in 0 .. LastSource /\ Listed(j)
    BY <1>3, <2>1, ErrandPairs, ErrandParts DEF SweepIInv, JobsAreListed
  <2>3. x \in scan[p].pages /\ Full(j)
    BY <1>3, <2>1 DEF ScanInv, PagesContinue, PagesAreFull, AtPage
  <2>4. x < m
    BY <1>3, <2>1 DEF ScanInv, PagesGoOn
  <2> HIDE DEF j
  <2>5. Follows(p, x, m)
    BY <1>3, <2>2, <2>3 DEF Follows, j
  <2> QED BY <2>2, <2>4, <2>5
<1> QED BY <1>1, <1>2, <1>3, JobsAreAdded

LEMMA PagesAreChainedStep ==
  ASSUME SweepIInv, ScanInv, [SweepNext]_sweepVars
  PROVE  PagesAreChained'
<1> SUFFICES ASSUME NEW p \in Scan, NEW k \in 0 .. LastSource, NEW m \in 0 .. LastSource
             PROVE  /\ Listed(<<p, m>>)' => Listed(<<p, 0>>)'
                    /\ Listed(<<p, k>>)' /\ Listed(<<p, m>>)' /\ k < m =>
                         \E s \in Source : s <= m /\ Listed(<<p, s>>)' /\ Follows(p, k, s)'
  BY Zenon DEF PagesAreChained
<1>1. \A x \in 0 .. LastSource : Listed(<<p, x>>) => Listed(<<p, x>>)'
  BY ErrandPairs, JobsAreAdded
<1>2. \A x \in 0 .. LastSource, s \in Source : Follows(p, x, s) => Follows(p, x, s)'
  <2> SUFFICES ASSUME NEW x \in 0 .. LastSource, NEW s \in Source, Follows(p, x, s)
               PROVE  Follows(p, x, s)'
    OBVIOUS
  <2>1. batch[<<p, x>>].made /\ x \in scan[p].pages
    BY DEF Follows, ScanInv, PagesAreKnown
  <2>2. Batched(<<p, x>>)' = Batched(<<p, x>>) /\ x \in scan'[p].pages
    BY <2>1, ErrandPairs, BatchesLast, ScansLast
  <2> QED BY <2>2 DEF Follows, Full
<1>3. Source \subseteq 0 .. LastSource /\ 0 \in 0 .. LastSource /\ \A x \in 0 .. LastSource : x \in Nat
  BY ErrandParts, ErrandPairs
<1>4. ASSUME Listed(<<p, m>>)' PROVE Listed(<<p, 0>>)'
  <2>1. CASE Listed(<<p, m>>)
    BY <1>1, <1>3, <2>1 DEF ScanInv, PagesAreChained
  <2>2. CASE ~Listed(<<p, m>>)
    <3>1. m = 0 \/ \E x \in 0 .. LastSource : Listed(<<p, x>>)
      BY <1>4, <2>2, NewPage
    <3> QED BY <1>1, <1>3, <1>4, <3>1 DEF ScanInv, PagesAreChained
  <2> QED BY <2>1, <2>2
<1>5. ASSUME NEW x \in 0 .. LastSource, NEW y \in 0 .. LastSource, x < y,
             Listed(<<p, x>>), Listed(<<p, y>>)
      PROVE  \E s \in Source : s <= y /\ Listed(<<p, s>>) /\ Follows(p, x, s)
  BY <1>5 DEF ScanInv, PagesAreChained
<1>6. \A x \in 0 .. LastSource, s \in Source, t \in Source :
        Follows(p, x, s) /\ Follows(p, x, t) => s = t
  BY DEF Follows, Source
<1>7. \A x, y \in 0 .. LastSource : Follows(p, x, y) => y \in Source
  BY ErrandPairs, SweepKinds DEF Follows, SweepIInv
<1>8. ASSUME Listed(<<p, k>>)', Listed(<<p, m>>)', k < m
      PROVE  \E s \in Source : s <= m /\ Listed(<<p, s>>)' /\ Follows(p, k, s)'
  <2> SUFFICES \E s \in Source : s <= m /\ Listed(<<p, s>>)' /\ Follows(p, k, s)
    BY <1>2
  <2>1. CASE Listed(<<p, k>>) /\ Listed(<<p, m>>)
    BY <1>1, <1>3, <1>5, <1>8, <2>1
  <2>2. CASE Listed(<<p, k>>) /\ ~Listed(<<p, m>>)
    <3>1. PICK x \in 0 .. LastSource : x < m /\ Listed(<<p, x>>) /\ Follows(p, x, m)
      BY <1>8, <2>2, NewPage
    <3>2. m \in Source
      BY <1>7, <3>1
    <3>3. CASE k = x
      BY <1>3, <1>8, <3>1, <3>2, <3>3
    <3>4. CASE k < x
      <4>1. PICK s \in Source : s <= x /\ Listed(<<p, s>>) /\ Follows(p, k, s)
        BY <1>5, <2>2, <3>1, <3>4
      <4> QED BY <1>1, <1>3, <3>1, <4>1
    <3>5. CASE x < k
      <4>1. PICK s \in Source : s <= k /\ Listed(<<p, s>>) /\ Follows(p, x, s)
        BY <1>5, <2>2, <3>1, <3>5
      <4> QED BY <1>6, <2>2, <3>1, <3>2, <4>1
    <3> QED BY <1>3, <3>3, <3>4, <3>5
  <2>3. CASE ~Listed(<<p, k>>)
    <3>1. Listed(<<p, m>>) \/ m = 0 \/ \E x \in 0 .. LastSource : Listed(<<p, x>>)
      BY <1>8, NewPage
    <3>2. PICK x \in 0 .. LastSource : x < k /\ Listed(<<p, x>>) /\ Follows(p, x, k)
      BY <1>3, <1>8, <2>3, <3>1, NewPage
    <3>3. k \in Source
      BY <1>7, <3>2
    <3>4. \A y \in 0 .. LastSource : Listed(<<p, y>>) => ~(x < y) \/ k > y
      <4> SUFFICES ASSUME NEW y \in 0 .. LastSource, Listed(<<p, y>>), x < y PROVE k > y
        OBVIOUS
      <4>1. PICK s \in Source : s <= y /\ Listed(<<p, s>>) /\ Follows(p, x, s)
        BY <1>5, <3>2
      <4> QED BY <1>6, <2>3, <3>2, <3>3, <4>1
    <3>5. ~Listed(<<p, m>>)
      BY <1>3, <1>8, <3>2, <3>4
    <3>6. PICK y \in 0 .. LastSource : y < m /\ Listed(<<p, y>>) /\ Follows(p, y, m)
      BY <1>3, <1>8, <3>5, NewPage
    <3>7. m \in Source
      BY <1>7, <3>6
    <3>8. ~(x < y)
      <4> SUFFICES ASSUME x < y PROVE FALSE
        OBVIOUS
      <4>1. k > y
        BY <3>4, <3>6
      <4>2. PICK s \in Source : s <= y /\ Listed(<<p, s>>) /\ Follows(p, x, s)
        BY <1>5, <3>2, <3>6
      <4> QED BY <1>6, <2>3, <3>2, <3>3, <4>2
    <3>9. ~(y < x)
      <4> SUFFICES ASSUME y < x PROVE FALSE
        OBVIOUS
      <4>1. PICK s \in Source : s <= x /\ Listed(<<p, s>>) /\ Follows(p, y, s)
        BY <1>5, <3>2, <3>6
      <4> QED BY <1>6, <3>5, <3>6, <3>7, <4>1
    <3>10. x = y => k = m
      BY <1>6, <3>2, <3>3, <3>6, <3>7
    <3> QED BY <1>3, <1>8, <3>8, <3>9, <3>10
  <2> QED BY <2>1, <2>2, <2>3
<1> QED BY <1>4, <1>8

LEMMA PagesAreFullStep ==
  ASSUME SweepIInv, ScanInv, [SweepNext]_sweepVars
  PROVE  PagesAreFull'
<1> SUFFICES ASSUME NEW l \in Sweeper, sweeper'[l].at \in AtPage, sweeper'[l].job[1] \in Scan
             PROVE  (sweeper[l].more <=> Full(sweeper[l].job))'
  BY DEF PagesAreFull
<1>1. CASE Extract(l) /\ sweeper'[l].at = "land" /\ sweeper'[l].job = sweeper[l].job
  <2> DEFINE j == sweeper[l].job
             page == FirstPage(Found(j))
  <2>1. /\ Found(j) \in SUBSET Source /\ {row[1] : row \in batch'[j].rows} = page
        /\ sweeper'[l].more <=> (Found(j) # page \/ Cardinality(page) = PageSize)
    BY <1>1, PageIsRead
  <2>2. sweeper'[l].more <=> Cardinality(page) = PageSize
    BY <2>1, PageLength
  <2>3. sweeper'[l].more <=> Cardinality({row[1] : row \in batch'[sweeper'[l].job].rows}) = PageSize
    BY <1>1, <2>1, <2>2
  <2> QED BY <2>3 DEF Full, Batched
<1>2. ASSUME sweeper'[l].job = sweeper[l].job, sweeper'[l].more = sweeper[l].more,
             sweeper[l].at \in AtPage
      PROVE  (sweeper[l].more <=> Full(sweeper[l].job))'
  <2>1. sweeper[l].job \in Errand /\ batch[sweeper[l].job].made
    BY <1>2, SweepKinds DEF SweepIInv, PagesAreBatches
  <2>2. \A j \in Errand : batch[j].made => (Full(j)' <=> Full(j))
    BY BatchesLast DEF Full
  <2>3. sweeper[l].more <=> Full(sweeper[l].job)
    BY <1>2 DEF ScanInv, PagesAreFull
  <2>4. PICK j \in Errand : j = sweeper[l].job
    BY <2>1
  <2>5. Full(j)' <=> Full(j)
    BY <2>1, <2>2, <2>4
  <2>6. sweeper'[l].job = j /\ (sweeper'[l].more <=> Full(j)')
    BY <1>2, <2>3, <2>4, <2>5
  <2> QED BY <2>6 DEF Full, Batched
<1>3. CASE sweeper'[l] = sweeper[l]
  BY <1>2, <1>3
<1>4. ASSUME sweeper'[l].at # "conclude", sweeper'[l].at # "commit"
      PROVE  \/ sweeper'[l] = sweeper[l]
             \/ Extract(l) /\ sweeper'[l].at = "land" /\ sweeper'[l].job = sweeper[l].job
             \/ /\ sweeper'[l].job = sweeper[l].job /\ sweeper'[l].more = sweeper[l].more
                /\ sweeper[l].at \in AtPage
  BY <1>4, LaneArrives DEF AtPage, LandRows, RecordNothing, RecordScan, RecordApplications
<1> QED BY <1>1, <1>2, <1>3, <1>4 DEF AtPage

LEMMA PagesContinueStep ==
  ASSUME SweepIInv, ScanInv, [SweepNext]_sweepVars
  PROVE  PagesContinue'
<1> SUFFICES ASSUME NEW l \in Sweeper, sweeper'[l].at = "continue", sweeper'[l].job[1] \in Scan
             PROVE  sweeper'[l].more /\ sweeper'[l].job[2] \in scan'[sweeper'[l].job[1]].pages
  BY Zenon DEF PagesContinue
<1>1. CASE sweeper'[l] = sweeper[l]
  BY <1>1, ScansLast DEF ScanInv, PagesContinue
<1>2. CASE /\ RecordScan(l)
           /\ sweeper'[l].job = sweeper[l].job /\ sweeper'[l].more = sweeper[l].more
  BY <1>2, RecordedScan
<1>3. ASSUME RecordNothing(l) \/ RecordApplications(l)
      PROVE  sweeper[l].job[1] \notin Scan
  BY <1>3 DEF RecordNothing, RecordApplications, Scan, LateEdits, Apply, Identity, Verify
<1> QED BY <1>1, <1>2, <1>3, LaneArrives DEF AtPage

LEMMA ScansAreOverStep ==
  ASSUME SweepIInv, ScanInv, [SweepNext]_sweepVars
  PROVE  ScansAreOver'
<1> SUFFICES ASSUME NEW p \in Scan, scan'[p].status = "complete"
             PROVE  \E k \in scan'[p].pages : ~Full(<<p, k>>)'
  BY Zenon DEF ScansAreOver
<1>1. ASSUME NEW k \in scan'[p].pages, batch[<<p, k>>].made, ~Full(<<p, k>>), <<p, k>> \in Errand
      PROVE  ~Full(<<p, k>>)'
  BY <1>1, BatchesLast DEF Full
<1>2. CASE scan[p].status = "complete"
  <2>1. PICK k \in scan[p].pages : ~Full(<<p, k>>)
    BY <1>2 DEF ScanInv, ScansAreOver
  <2>2. k \in 0 .. LastSource
    BY <2>1, ScanKinds DEF SweepIInv
  <2>3. batch[<<p, k>>].made /\ <<p, k>> \in Errand
    BY <2>1, <2>2, ErrandPairs DEF ScanInv, PagesAreKnown
  <2>4. k \in scan'[p].pages
    BY <2>1, ScansLast
  <2> QED BY <1>1, <2>1, <2>3, <2>4
<1>3. ASSUME NEW l \in Sweeper, RecordScan(l), scan[p].status # "complete"
      PROVE  \E k \in scan'[p].pages : ~Full(<<p, k>>)'
  <2> DEFINE j == sweeper[l].job
  <2>1. /\ j[1] = p /\ ~sweeper[l].more /\ sweeper[l].at = "record"
        /\ scan'[p].pages = scan[p].pages \cup {j[2]}
    BY <1>3, RecordedScan
  <2>2. j \in Errand /\ batch[j].made /\ ~Full(j)
    BY <2>1, SweepKinds DEF SweepIInv, PagesAreBatches, AtPage, ScanInv, PagesAreFull
  <2>3. PICK k \in scan'[p].pages : k = j[2] /\ j = <<p, k>>
    BY <2>1, <2>2, ErrandPairs
  <2> QED BY <1>1, <2>2, <2>3
<1>4. CASE UNCHANGED scan
  BY <1>2, <1>4
<1> QED BY <1>2, <1>3, <1>4, ScansMove

LEMMA ScansAgreeStep ==
  ASSUME SweepIInv, ScanInv, [SweepNext]_sweepVars
  PROVE  ScansAgree'
<1> SUFFICES ASSUME scan'[Verify].status = "complete"
             PROVE  scan'[Identity].status = "complete" /\ scan'[Verify].seen = scan'[Identity].seen
  BY DEF ScansAgree
<1>1. Identity \in Scan /\ Verify \in Scan /\ Identity # Verify
  BY DEF Scan, Identity, Verify
<1>2. CASE scan[Verify].status = "complete"
  BY <1>1, <1>2, ScansLast DEF ScanInv, ScansAgree
<1>3. ASSUME NEW l \in Sweeper, RecordScan(l), scan[Verify].status # "complete"
      PROVE  scan'[Identity].status = "complete" /\ scan'[Verify].seen = scan'[Identity].seen
  BY <1>1, <1>3, RecordedScan
<1> QED BY <1>2, <1>3, ScansMove

LEMMA ScansAreConcludedStep ==
  ASSUME SweepIInv, ScanInv, [SweepNext]_sweepVars
  PROVE  ScansAreConcluded'
<1> SUFFICES ASSUME NEW l \in Sweeper, sweeper'[l].at \in {"conclude", "commit"},
                    sweeper'[l].job[1] \in Scan
             PROVE  scan'[sweeper'[l].job[1]].status = "complete"
  BY Zenon DEF ScansAreConcluded
<1>1. CASE sweeper'[l] = sweeper[l]
  BY <1>1, ScansLast DEF ScanInv, ScansAreConcluded
<1>2. CASE RecordScan(l) /\ sweeper'[l].at = "conclude" /\ sweeper'[l].job = sweeper[l].job
  BY <1>2, RecordedScan
<1>3. ASSUME RecordNothing(l) \/ RecordApplications(l)
      PROVE  sweeper[l].job[1] \notin Scan
  BY <1>3 DEF RecordNothing, RecordApplications, Scan, LateEdits, Apply, Identity, Verify
<1>4. CASE Conclude(l) /\ sweeper'[l].job = sweeper[l].job
  BY <1>4, ScansLast DEF Conclude, ScanInv, ScansAreConcluded
<1> QED BY <1>1, <1>2, <1>3, <1>4, LaneArrives

LEMMA ScanInvStep ==
  ASSUME SweepIInv, ScanInv, [SweepNext]_sweepVars
  PROVE  ScanInv'
BY PagesGoOnStep, PagesAreKnownStep, PagesAreChainedStep, PagesAreFullStep, PagesContinueStep,
   ScansAreOverStep, ScansAgreeStep, ScansAreConcludedStep DEF ScanInv

LEMMA ScanInvInit == SweepInit => ScanInv
<1> SUFFICES ASSUME SweepInit PROVE ScanInv
  OBVIOUS
<1>1. /\ scan = [p \in Scan |-> NoScan] /\ batch = [j \in Errand |-> NoBatch]
      /\ sweeper = [l \in Sweeper |-> AtRest]
  BY DEF SweepInit
<1>2. \A l \in Sweeper : sweeper[l].at = "idle"
  BY <1>1 DEF AtRest
<1>3. PagesAreFull /\ PagesContinue /\ ScansAreConcluded
  BY <1>2 DEF PagesAreFull, PagesContinue, ScansAreConcluded, AtPage
<1>4. \A p \in Scan : scan[p].status = "absent" /\ scan[p].pages = {}
  BY <1>1 DEF NoScan
<1>5. PagesAreKnown /\ ScansAreOver /\ ScansAgree
  BY <1>4 DEF PagesAreKnown, ScansAreOver, ScansAgree, Scan
<1>6. PagesGoOn
  <2>1. \A j \in Errand : Batched(j) = {}
    BY <1>1 DEF Batched, NoBatch
  <2> QED BY <2>1 DEF PagesGoOn
<1>7. PagesAreChained
  <2>1. \A p \in Scan, k \in 0 .. LastSource : ~Listed(<<p, k>>)
    BY ErrandPairs DEF SweepInit, Listed, NoErrand, Scan, Identity, Verify, LateEdits
  <2> QED BY <2>1 DEF PagesAreChained
<1> QED BY <1>3, <1>5, <1>6, <1>7 DEF ScanInv

-------------------------------------------------------------------------------
(* Candidates.                                                             *)

\* Two complete scans stay as they are.
LEMMA StableKept ==
  ASSUME SweepIInv, ScanInv, [SweepNext]_sweepVars, Stable
  PROVE  Stable' /\ UNCHANGED scan
<1>1. Identity \in Scan /\ Verify \in Scan /\ \A p \in Scan : p = Identity \/ p = Verify
  BY DEF Scan
<1>2. \A p \in Scan : scan'[p] = scan[p]
  BY <1>1, ScansLast DEF Stable
<1>3. scan \in [Scan -> ScanRow] /\ scan' \in [Scan -> ScanRow]
  BY SweepPartsStep DEF SweepIInv, SweepParts
<1> QED BY <1>1, <1>2, <1>3 DEF Stable

\* Applications stay, and so does the comparison of the totals.
LEMMA EvidenceLasts ==
  ASSUME [SweepNext]_sweepVars
  PROVE  applied \subseteq applied' /\ (reconciled => reconciled')
<1> USE DEF vendorVars, store, bounds
<1>1. CASE UNCHANGED sweepVars
  BY <1>1 DEF sweepVars
<1>2. ASSUME \/ \E r \in Source : Put(r) \/ Drop(r) \/ Poll(r)
             \/ \E j \in Errand : RetryComesDue(j) \/ WindowPasses(j) \/ LaneStalls(j)
      PROVE  UNCHANGED <<applied, reconciled>>
  <2>1. ASSUME NEW r \in Source, Put(r) \/ Drop(r) \/ Poll(r) PROVE UNCHANGED <<applied, reconciled>>
    BY <2>1 DEF Put, Drop, Poll
  <2>2. ASSUME NEW j \in Errand, RetryComesDue(j) \/ WindowPasses(j) \/ LaneStalls(j)
        PROVE  UNCHANGED <<applied, reconciled>>
    BY <2>2 DEF RetryComesDue, WindowPasses, LaneStalls, LoseLease
  <2> QED BY <1>2, <2>1, <2>2
<1>3. ASSUME NEW l \in Sweeper, RecordApplications(l) \/ Conclude(l)
      PROVE  applied \subseteq applied' /\ (reconciled => reconciled')
  BY <1>3 DEF RecordApplications, Conclude, Tallies, PublishesNext
<1>4. ASSUME NEW l \in Sweeper,
             \/ BeginPhase(l) \/ LandRows(l) \/ RecordNothing(l) \/ RecordScan(l)
             \/ CommitPhase(l) \/ Continue(l) \/ FinishErrand(l)
             \/ FindLeaseLost(l) \/ BlockPhase(l) \/ RetryErrand(l)
             \/ MeetUpset(l) \/ MeetRateLimit(l) \/ LoseSweeper(l)
      PROVE  UNCHANGED <<applied, reconciled>>
  <2>1. LandRows(l) \/ RecordScan(l) => UNCHANGED <<applied, reconciled>>
    BY DEF LandRows, RecordScan
  <2>2. BeginPhase(l) \/ RecordNothing(l) \/ CommitPhase(l) \/ Continue(l) \/ FinishErrand(l) =>
          UNCHANGED <<applied, reconciled>>
    BY DEF BeginPhase, RecordNothing, CommitPhase, Continue, FinishErrand
  <2>3. FindLeaseLost(l) \/ BlockPhase(l) \/ RetryErrand(l) => UNCHANGED <<applied, reconciled>>
    BY DEF FindLeaseLost, BlockPhase, RetryErrand
  <2>4. MeetUpset(l) \/ MeetRateLimit(l) \/ LoseSweeper(l) => UNCHANGED <<applied, reconciled>>
    BY DEF MeetUpset, MeetRateLimit, LoseSweeper
  <2> QED BY <1>4, <2>1, <2>2, <2>3, <2>4
<1>5. ASSUME NEW l \in Sweeper, Extract(l) PROVE UNCHANGED <<applied, reconciled>>
  BY <1>5 DEF Extract
<1>6. ASSUME NEW l \in Sweeper, NEW j \in Errand, ClaimErrand(l, j)
      PROVE  UNCHANGED <<applied, reconciled>>
  BY <1>6 DEF ClaimErrand
<1> QED BY <1>1, <1>2, <1>3, <1>4, <1>5, <1>6, SweepSteps

\* Once both scans are complete no copy becomes old.
LEMMA CopiesStayNew ==
  ASSUME SweepIInv, [SweepNext]_sweepVars, Stable, NEW r \in Source
  PROVE  copy'[r] = copy[r] \/ ~copy'[r].old
<1> USE DEF vendorVars, store, bounds
<1>1. copy \in [Source -> Copy]
  BY DEF SweepIInv, SweepParts
<1>2. \A s \in Source : \A stamp, gone : Upserted(s, stamp, gone) = copy[s] \/ ~Upserted(s, stamp, gone).old
  BY DEF Upserted
<1>3. ASSUME NEW s \in Source, Poll(s) PROVE copy'[r] = copy[r] \/ ~copy'[r].old
  <2>1. copy' = [copy EXCEPT ![s] = Upserted(s, edition[s], FALSE)]
    BY <1>3 DEF Poll
  <2>2. copy'[r] = copy[r] \/ copy'[r] = Upserted(r, edition[r], FALSE)
    BY <1>1, <2>1
  <2> QED BY <1>2, <2>2
<1>4. ASSUME NEW l \in Sweeper, LandRows(l) PROVE copy'[r] = copy[r] \/ ~copy'[r].old
  <2>1. UNCHANGED copy \/ copy' = Landed(sweeper[l].job)
    BY <1>4 DEF LandRows
  <2> QED BY <1>2, <2>1 DEF Landed
<1>5. ASSUME NEW l \in Sweeper, RecordScan(l) PROVE UNCHANGED copy
  BY <1>5 DEF RecordScan, Stable
<1>6. CASE UNCHANGED sweepVars
  BY <1>6 DEF sweepVars
<1>7. CASE \/ \E s \in Source : Put(s) \/ Drop(s)
           \/ \E j \in Errand : RetryComesDue(j) \/ WindowPasses(j) \/ LaneStalls(j)
  BY <1>7 DEF Put, Drop, RetryComesDue, WindowPasses, LaneStalls, LoseLease
<1>8. ASSUME NEW l \in Sweeper,
             \/ BeginPhase(l) \/ RecordNothing(l) \/ RecordApplications(l) \/ Conclude(l)
             \/ CommitPhase(l) \/ Continue(l) \/ FinishErrand(l)
             \/ FindLeaseLost(l) \/ BlockPhase(l) \/ RetryErrand(l)
             \/ MeetUpset(l) \/ MeetRateLimit(l) \/ LoseSweeper(l)
      PROVE  UNCHANGED copy
  BY <1>8 DEF BeginPhase, RecordNothing, RecordApplications, Conclude, CommitPhase, Continue,
     FinishErrand, FindLeaseLost, BlockPhase, RetryErrand, MeetUpset, MeetRateLimit, LoseSweeper
<1>9. ASSUME NEW l \in Sweeper, Extract(l) PROVE UNCHANGED copy
  BY <1>9 DEF Extract
<1>10. ASSUME NEW l \in Sweeper, NEW j \in Errand, ClaimErrand(l, j) PROVE UNCHANGED copy
  BY <1>10 DEF ClaimErrand
<1> QED BY <1>3, <1>4, <1>5, <1>6, <1>7, <1>8, <1>9, <1>10, SweepSteps

\* So a candidate has been one ever since.
LEMMA CandidatesShrink ==
  ASSUME SweepIInv, ScanInv, [SweepNext]_sweepVars, Stable, NEW r \in Source, Candidate(r)'
  PROVE  Candidate(r)
<1>1. copy'[r] = copy[r]
  BY CopiesStayNew DEF Candidate
<1>2. UNCHANGED scan /\ applied \subseteq applied'
  BY StableKept, EvidenceLasts
<1> QED BY <1>1, <1>2 DEF Candidate, Unseen

LEMMA TombstonesAreOrderlyStep ==
  ASSUME EvidenceInv, [SweepNext]_sweepVars
  PROVE  TombstonesAreOrderly'
<1> USE DEF EvidenceInv
<1> SUFFICES ASSUME NEW j \in Errand, j[1] = Apply, Listed(j)'
             PROVE  Stable' /\ \A r \in Source : Candidate(r)' => r > j[2]
  BY Zenon DEF TombstonesAreOrderly
<1>1. CASE Listed(j)
  <2>1. Stable /\ \A r \in Source : Candidate(r) => r > j[2]
    BY <1>1 DEF TombstonesAreOrderly
  <2> QED BY <2>1, StableKept, CandidatesShrink
<1>2. ASSUME NEW l \in Sweeper, Conclude(l), PublishesNext(l), j[1] = sweeper[l].job[1] + 1, j[2] = 0
      PROVE  Stable' /\ \A r \in Source : Candidate(r)' => r > j[2]
  <2>1. sweeper[l].job[1] = Verify
    BY <1>2, SweepKinds DEF SweepIInv, Phase, LateEdits, Apply, Verify
  <2>2. Stable
    BY <1>2, <2>1 DEF Conclude, ScanInv, ScansAreConcluded, ScansAgree, Stable, Scan
  <2>3. \A r \in Source : r > 0
    BY SweepAssumption DEF SweepAssumption, Source
  <2> QED BY <1>2, <2>2, <2>3, StableKept
<1>3. ASSUME NEW l \in Sweeper, Continue(l), j[1] = sweeper[l].job[1],
             j[2] \in Batched(sweeper[l].job)
      PROVE  Stable' /\ \A r \in Source : Candidate(r)' => r > j[2]
  <2>1. sweeper[l].at = "continue" /\ sweeper[l].job \in Errand /\ Listed(sweeper[l].job)
    BY <1>3, SweepKinds DEF Continue, SweepIInv, JobsAreListed
  <2>2. Stable
    BY <1>3, <2>1 DEF TombstonesAreOrderly
  <2>3. ASSUME NEW r \in Source, Candidate(r)' PROVE r > j[2]
    <3>1. Beyond(l, r)
      BY <1>3, <2>1, <2>2, <2>3, CandidatesShrink DEF CandidatesAreBeyond
    <3>2. j[2] \in Source
      BY <1>3, <2>1, SweepKinds DEF SweepIInv
    <3> QED BY <1>3, <3>1, <3>2 DEF Beyond, Source
  <2> QED BY <2>2, <2>3, StableKept
<1> QED BY <1>1, <1>2, <1>3, JobsAreAdded

\* The record of a candidate that is in a batch gets its tombstone.
LEMMA CandidatesLand ==
  ASSUME SweepIInv, NEW l \in Sweeper, LandRows(l), sweeper'[l].at = "record",
         sweeper[l].job[1] = Apply, NEW r \in Batched(sweeper[l].job), Candidate(r)
  PROVE  copy'[r].gone
<1> DEFINE j == sweeper[l].job
           row == CHOOSE row \in batch[j].rows : row[1] = r
<1>1. j \in Errand /\ r \in Source /\ Listed(j) /\ sweeper \in [Sweeper -> SweeperState]
  BY SweepKinds DEF SweepIInv, JobsAreListed, LandRows, SweepParts
<1>2. copy' = Landed(j)
  <2> DEFINE stuck == [sweeper[l] EXCEPT !.at = "blocking", !.fault = "passing", !.rows = {}]
  <2>1. stuck.at = "blocking" /\ (Throws(l, "passing") => sweeper' = [sweeper EXCEPT ![l] = stuck])
    BY <1>1 DEF SweeperState, Throws
  <2> HIDE DEF stuck
  <2>2. ~Throws(l, "passing")
    BY <1>1, <2>1
  <2> QED BY <2>2 DEF LandRows
<1>3. row \in batch[j].rows
  BY <1>1, BatchedVersion
<1>4. row[2] = errand[j].asked /\ copy[r].stamp < errand[j].asked
  BY <1>1, <1>3 DEF SweepIInv, TombstonesAreLater, Candidate
<1>5. copy'[r] = Upserted(r, row[2], TRUE)
  BY <1>1, <1>2 DEF Landed
<1> HIDE DEF row
<1>6. copy[r].stamp \in Nat /\ errand[j].asked \in Nat
  BY <1>1, SweepKinds DEF SweepIInv
<1>7. copy'[r] = Upserted(r, errand[j].asked, TRUE)
  BY <1>4, <1>5
<1>8. errand[j].asked >= copy[r].stamp /\ errand[j].asked # copy[r].stamp
  BY <1>4, <1>6
<1> HIDE DEF j
<1>9. copy'[r] = [stamp |-> errand[j].asked, gone |-> TRUE, old |-> FALSE]
  BY <1>7, <1>8, Zenon DEF Upserted
<1> QED BY <1>9

LEMMA CandidatesAreBeyondStep ==
  ASSUME EvidenceInv, [SweepNext]_sweepVars
  PROVE  CandidatesAreBeyond'
<1> USE DEF EvidenceInv
<1> SUFFICES ASSUME NEW l \in Sweeper, NEW r \in Source, sweeper'[l].job[1] = Apply, Candidate(r)',
                    sweeper'[l].at \in AtPage \cup {"conclude", "commit"}
             PROVE  /\ sweeper'[l].at = "land" => r \in Batched(sweeper[l].job)' \/ Beyond(l, r)'
                    /\ sweeper'[l].at \in {"record", "continue"} => Beyond(l, r)'
                    /\ sweeper'[l].at \notin {"conclude", "commit"}
  BY Zenon DEF CandidatesAreBeyond, AtPage
<1>0. /\ Extract(l) => sweeper[l].at = "extract"
      /\ LandRows(l) => sweeper[l].at = "land"
      /\ RecordNothing(l) \/ RecordScan(l) \/ RecordApplications(l) => sweeper[l].at = "record"
      /\ Conclude(l) => sweeper[l].at = "conclude"
  BY DEF Extract, LandRows, RecordNothing, RecordScan, RecordApplications, Conclude
<1>1. \/ sweeper'[l] = sweeper[l]
      \/ /\ sweeper'[l].job = sweeper[l].job
         /\ Extract(l) \/ LandRows(l) \/ RecordNothing(l) \/ RecordScan(l)
            \/ RecordApplications(l) \/ Conclude(l)
  BY LaneArrives
<1>2. PICK j \in Errand : j = sweeper[l].job /\ sweeper'[l].job = j
  BY <1>1, SweepKinds DEF SweepIInv
<1>3. j[1] = Apply /\ sweeper[l].at # "idle"
  BY <1>1, <1>2, <1>0 DEF AtPage
<1>4. Listed(j) /\ Stable
  BY <1>2, <1>3 DEF SweepIInv, JobsAreListed, TombstonesAreOrderly
<1>5. Candidate(r) /\ r > j[2]
  BY <1>3, <1>4, CandidatesShrink DEF TombstonesAreOrderly
<1>6. /\ sweeper[l].at = "land" => r \in Batched(j) \/ Beyond(l, r)
      /\ sweeper[l].at \in {"record", "continue"} => Beyond(l, r)
      /\ sweeper[l].at \notin {"conclude", "commit"}
  BY <1>2, <1>3, <1>5 DEF CandidatesAreBeyond
<1>7. sweeper[l].at \in AtPage => Batched(j)' = Batched(j)
  BY <1>2, BatchesLast DEF SweepIInv, PagesAreBatches
<1>8. /\ Batched(sweeper[l].job)' = Batched(j)'
      /\ Beyond(l, r)' <=> (sweeper'[l].more /\ \A s \in Batched(j)' : s < r)
      /\ Beyond(l, r) <=> (sweeper[l].more /\ \A s \in Batched(j) : s < r)
  BY <1>2 DEF Beyond, Batched
<1>9. CASE sweeper'[l] = sweeper[l]
  BY <1>6, <1>7, <1>8, <1>9 DEF AtPage
<1>10. CASE Extract(l)
  <2> DEFINE found == Found(j)
             page == FirstPage(found)
  <2>1. /\ found \in SUBSET Source /\ sweeper'[l].at = "land"
        /\ Batched(j)' = page
        /\ sweeper'[l].more <=> (found # page \/ Cardinality(page) = PageSize)
    BY <1>2, <1>10, PageIsRead DEF Batched, AtPage
  <2>2. r \in found
    BY <1>3, <1>5 DEF Found, Candidates
  <2>3. r \notin page => \A s \in page : s < r
    BY <2>1, <2>2, FirstPageIsFirst
  <2> HIDE DEF found, page
  <2> QED BY <1>8, <2>1, <2>2, <2>3
<1>11. CASE LandRows(l) /\ sweeper'[l] # sweeper[l]
  <2>1. sweeper[l].at = "land" /\ sweeper'[l].at = "record" /\ sweeper'[l].more = sweeper[l].more
    BY <1>0, <1>11, LaneArrives
  <2>2. r \notin Batched(j)
    BY <1>2, <1>3, <1>5, <1>11, <2>1, CandidatesLand DEF Candidate
  <2> QED BY <1>6, <1>7, <1>8, <2>1, <2>2 DEF AtPage
<1>12. CASE RecordApplications(l) /\ sweeper'[l] # sweeper[l]
  <2>1. sweeper[l].at = "record" /\ sweeper'[l].more = sweeper[l].more
    BY <1>0, <1>12, LaneArrives
  <2>2. Beyond(l, r)
    BY <1>6, <2>1
  <2>3. sweeper'[l].at = "continue"
    <3>1. Goes(l, "continue") \/ Throws(l, "passing")
      BY <1>12, <2>2 DEF RecordApplications, Beyond
    <3>2. sweeper \in [Sweeper -> SweeperState]
      BY DEF SweepIInv, SweepParts
    <3> DEFINE stuck == [sweeper[l] EXCEPT !.at = "blocking", !.fault = "passing", !.rows = {}]
    <3>3. stuck.at = "blocking" /\ (Throws(l, "passing") => sweeper' = [sweeper EXCEPT ![l] = stuck])
      BY <3>2 DEF SweeperState, Throws
    <3> HIDE DEF stuck
    <3>4. ~Throws(l, "passing")
      BY <3>2, <3>3 DEF AtPage
    <3> QED BY <3>1, <3>2, <3>4, LaneGoes DEF SweepIInv, Stage
  <2> QED BY <1>7, <1>8, <2>1, <2>2, <2>3 DEF AtPage
<1>13. ~RecordNothing(l) /\ ~RecordScan(l) /\ ~Conclude(l)
  BY <1>2, <1>3, <1>6 DEF RecordNothing, RecordScan, Conclude, Scan, LateEdits, Identity, Verify, Apply
<1> QED BY <1>1, <1>9, <1>10, <1>11, <1>12, <1>13

LEMMA TotalsAreCheckedStep ==
  ASSUME EvidenceInv, [SweepNext]_sweepVars
  PROVE  TotalsAreChecked'
<1> USE DEF EvidenceInv
<1> SUFFICES ASSUME NEW l \in Sweeper, sweeper'[l].at = "commit", sweeper'[l].job[1] = Apply
             PROVE  reconciled'
  BY Zenon DEF TotalsAreChecked
<1>1. CASE sweeper'[l] = sweeper[l]
  BY <1>1, EvidenceLasts DEF TotalsAreChecked
<1>2. CASE Conclude(l) /\ sweeper'[l].job = sweeper[l].job
  <2>1. Tallies(l)
    BY <1>2 DEF Conclude, PublishesNext
  <2>2. sweeper \in [Sweeper -> SweeperState]
    BY DEF SweepIInv, SweepParts
  <2> DEFINE stuck == [sweeper[l] EXCEPT !.at = "blocking", !.fault = "passing", !.rows = {}]
  <2>3. stuck.at = "blocking" /\ (Throws(l, "passing") => sweeper' = [sweeper EXCEPT ![l] = stuck])
    BY <2>2 DEF SweeperState, Throws
  <2> HIDE DEF stuck
  <2>4. ~Throws(l, "passing")
    BY <2>2, <2>3
  <2> QED BY <2>1, <2>4 DEF Tallies
<1> QED BY <1>1, <1>2, LaneArrives

\* Only the attempt that owns the phase passes it.
LEMMA PhaseMoves ==
  ASSUME SweepIInv, [SweepNext]_sweepVars
  PROVE  \/ sweep'.phase = sweep.phase
         \/ \E l \in Sweeper :
              /\ CommitPhase(l) /\ OwnsPhase(l)
              /\ sweep.phase = sweeper[l].job[1] /\ sweep'.phase = sweeper[l].job[1] + 1
<1> USE DEF vendorVars, store, bounds
<1>1. CASE UNCHANGED sweepVars
  BY <1>1 DEF sweepVars
<1>2. ASSUME NEW r \in Source, Put(r) \/ Drop(r) \/ Poll(r) PROVE UNCHANGED sweep
  BY <1>2 DEF Put, Drop, Poll
<1>3. ASSUME NEW j \in Errand, RetryComesDue(j) \/ WindowPasses(j) \/ LaneStalls(j)
      PROVE  UNCHANGED sweep
  BY <1>3 DEF RetryComesDue, WindowPasses, LaneStalls, LoseLease
<1>4. ASSUME NEW l \in Sweeper, NEW j \in Errand, ClaimErrand(l, j) PROVE UNCHANGED sweep
  BY <1>4 DEF ClaimErrand
<1>5. ASSUME NEW l \in Sweeper, Extract(l) PROVE UNCHANGED sweep
  BY <1>5 DEF Extract
<1>6. ASSUME NEW l \in Sweeper,
             \/ LandRows(l) \/ RecordNothing(l) \/ RecordScan(l) \/ RecordApplications(l)
             \/ Conclude(l) \/ Continue(l) \/ FinishErrand(l) \/ FindLeaseLost(l)
             \/ RetryErrand(l) \/ MeetUpset(l) \/ MeetRateLimit(l) \/ LoseSweeper(l)
      PROVE  UNCHANGED sweep
  <2>1. LandRows(l) \/ RecordNothing(l) \/ RecordScan(l) \/ RecordApplications(l) => UNCHANGED sweep
    BY DEF LandRows, RecordNothing, RecordScan, RecordApplications
  <2>2. Conclude(l) \/ Continue(l) \/ FinishErrand(l) \/ FindLeaseLost(l) => UNCHANGED sweep
    BY DEF Conclude, Continue, FinishErrand, FindLeaseLost
  <2>3. RetryErrand(l) \/ MeetUpset(l) \/ MeetRateLimit(l) \/ LoseSweeper(l) => UNCHANGED sweep
    BY DEF RetryErrand, MeetUpset, MeetRateLimit, LoseSweeper
  <2> QED BY <1>6, <2>1, <2>2, <2>3
<1>7. ASSUME NEW l \in Sweeper, BeginPhase(l) \/ BlockPhase(l) PROVE sweep'.phase = sweep.phase
  <2>1. sweep \in SweepRowType
    BY DEF SweepIInv, SweepParts
  <2>2. BeginPhase(l) =>
          UNCHANGED sweep \/ sweep' = [sweep EXCEPT !.status = "running", !.owner = Owner(l)]
    BY DEF BeginPhase
  <2>3. BlockPhase(l) =>
          UNCHANGED sweep \/ sweep' = [sweep EXCEPT !.status = "blocked", !.owner = NoOwner]
    BY DEF BlockPhase
  <2> QED BY <1>7, <2>1, <2>2, <2>3 DEF SweepRowType
<1>8. ASSUME NEW l \in Sweeper, CommitPhase(l)
      PROVE  \/ sweep'.phase = sweep.phase
             \/ /\ OwnsPhase(l)
                /\ sweep.phase = sweeper[l].job[1] /\ sweep'.phase = sweeper[l].job[1] + 1
  BY <1>8 DEF CommitPhase, OwnsPhase
<1> QED BY <1>1, <1>2, <1>3, <1>4, <1>5, <1>6, <1>7, <1>8, SweepSteps

LEMMA SweepIsRealStep ==
  ASSUME EvidenceInv, [SweepNext]_sweepVars
  PROVE  SweepIsReal'
<1> USE DEF EvidenceInv
<1>1. sweep.phase \in Nat /\ Scan = {Identity, Verify} /\ Identity = 2 /\ Verify = 3
      /\ Apply = 4 /\ Complete = 5
  BY DEF SweepIInv, SweepParts, SweepRowType, Scan, Identity, Verify, Apply, Complete, LateEdits
<1>2. CASE sweep'.phase = sweep.phase
  <2>1. \A p \in Scan : sweep.phase > p => scan[p].status = "complete" /\ scan'[p] = scan[p]
    BY ScansLast DEF SweepIsReal
  <2>2. sweep.phase > Verify => scan[Verify].seen = scan[Identity].seen /\ Stable
    BY <1>1, <2>1 DEF SweepIsReal, Stable
  <2>3. sweep.phase = Complete => reconciled' /\ \A r \in Source : ~Candidate(r)'
    BY <1>1, <2>2, EvidenceLasts, CandidatesShrink DEF SweepIsReal
  <2>4. \A p \in Scan : sweep'.phase > p => scan'[p].status = "complete"
    BY <1>2, <2>1
  <2>5. sweep'.phase > Verify => scan'[Verify].seen = scan'[Identity].seen
    BY <1>1, <1>2, <2>2, StableKept
  <2> QED BY <1>2, <2>3, <2>4, <2>5 DEF SweepIsReal
<1>3. ASSUME NEW l \in Sweeper, CommitPhase(l), OwnsPhase(l),
             sweep.phase = sweeper[l].job[1], sweep'.phase = sweeper[l].job[1] + 1
      PROVE  SweepIsReal'
  <2>1. sweeper[l].at = "commit" /\ UNCHANGED <<copy, scan, applied, reconciled>>
    BY <1>3 DEF CommitPhase, store
  <2>2. \A r \in Source : Candidate(r)' <=> Candidate(r)
    BY <2>1 DEF Candidate, Stable, Unseen
  <2>3. \A p \in Scan : p \in Nat /\ (sweep.phase = p => scan[p].status = "complete")
    BY <1>1, <1>3, <2>1 DEF ScanInv, ScansAreConcluded
  <2>4. \A p \in Scan : sweep'.phase > p => scan'[p].status = "complete"
    <3> SUFFICES ASSUME NEW p \in Scan, sweep'.phase > p PROVE scan'[p].status = "complete"
      OBVIOUS
    <3>1. sweep.phase > p \/ sweep.phase = p
      BY <1>1, <1>3, <2>3
    <3> QED BY <2>1, <2>3, <3>1 DEF SweepIsReal
  <2>5. sweep'.phase > Verify => scan'[Verify].seen = scan'[Identity].seen
    <3>1. sweep'.phase > Verify => sweep.phase > Verify \/ sweep.phase = Verify
      BY <1>1, <1>3
    <3> QED BY <1>1, <2>1, <2>3, <3>1 DEF SweepIsReal, ScanInv, ScansAgree
  <2>6. sweep'.phase = Complete => reconciled' /\ \A r \in Source : ~Candidate(r)'
    <3>1. sweep'.phase = Complete => sweeper[l].job[1] = Apply
      BY <1>1, <1>3
    <3> QED BY <2>1, <2>2, <3>1 DEF TotalsAreChecked, CandidatesAreBeyond
  <2> QED BY <2>4, <2>5, <2>6 DEF SweepIsReal
<1> QED BY <1>2, <1>3, PhaseMoves

LEMMA EvidenceInvInit == SweepInit => EvidenceInv
<1> SUFFICES ASSUME SweepInit PROVE EvidenceInv
  OBVIOUS
<1>1. \A l \in Sweeper : sweeper[l].at = "idle"
  BY DEF SweepInit, AtRest
<1>2. CandidatesAreBeyond /\ TotalsAreChecked
  BY <1>1 DEF CandidatesAreBeyond, TotalsAreChecked
<1>3. \A j \in Errand : Listed(j) => j[1] # Apply
  BY DEF SweepInit, Listed, NoErrand, LateEdits, Apply
<1>4. SweepIsReal
  BY DEF SweepInit, SweepIsReal, LateEdits, Scan, Identity, Verify, Complete
<1> QED BY <1>2, <1>3, <1>4, SweepIInvInit, ScanInvInit DEF EvidenceInv, TombstonesAreOrderly

LEMMA EvidenceInvStep == EvidenceInv /\ [SweepNext]_sweepVars => EvidenceInv'
<1> SUFFICES ASSUME EvidenceInv, [SweepNext]_sweepVars PROVE EvidenceInv'
  OBVIOUS
<1>1. SweepIInv' /\ ScanInv'
  BY SweepIInvStep, ScanInvStep DEF EvidenceInv
<1> QED BY <1>1, SweepIsRealStep, TombstonesAreOrderlyStep, CandidatesAreBeyondStep,
           TotalsAreCheckedStep DEF EvidenceInv

\* The control plane never says more of a sweep than the analytical store can show: a
\* phase that is passed has a complete scan, which no late attempt reopens, and a sweep
\* that is complete has compared its totals and has no candidate left (0033, 0081).
THEOREM SweepsAreReal == SweepSpec => []SweepIsReal
<1>1. EvidenceInv => SweepIsReal
  BY DEF EvidenceInv
<1> QED BY <1>1, EvidenceInvInit, EvidenceInvStep, PTL DEF SweepSpec

================================================================================
