---------------------------- MODULE TransformProofs ----------------------------
(***************************************************************************)
(* What holds of the queue of transforms whatever its streams, pages and   *)
(* lanes are: the coverage a completion decides on is exact although it    *)
(* is read before it is committed, and only troubles cost attempts.        *)
(***************************************************************************)
EXTENDS TransformQueue, TLAPS

\* Every step is one of these.
LEMMA TransformSteps ==
  ASSUME TransformNext
  PROVE  \/ \E l \in Mapper, j \in Transform :
              \/ ClaimTransform(l, j) \/ MapPage(l, j) \/ MissReference(l, j)
              \/ MeetStrangePage(l, j)
              \/ ReplayChunk(l, j) \/ NoticeLapse(l, j) \/ ContinueReplay(l, j)
              \/ RetryOrFail(l, j) \/ DecideCompletion(l, j) \/ CommitCompletion(l, j)
         \/ \E l \in Mapper : MeetTrouble(l) \/ LoseMapper(l)
         \/ \E j \in Transform : ComeDue(j) \/ ExpireLease(j) \/ MissExtensions(j)
BY DEF TransformNext, ProcessTransform

\* What a step makes of a lane.
LEMMA MapperTypes ==
  ASSUME mapper \in [Mapper -> MapperState], NEW l \in Mapper
  PROVE  /\ Idling \in MapperState
         /\ \A at \in {"mapping", "replaying", "continuing", "completing", "failing"} :
              [mapper[l] EXCEPT !.at = at] \in MapperState
         /\ \A error \in Error :
              [mapper[l] EXCEPT !.at = "failing", !.error = error] \in MapperState
         /\ \A j \in Transform :
              [at |-> "mapping", job |-> j, error |-> "none", grant |-> "none", asks |-> FALSE]
                \in MapperState
         /\ \A grant \in {"none", "queryable", "superseded"}, asks \in BOOLEAN :
              [mapper[l] EXCEPT !.at = "committing", !.grant = grant, !.asks = asks]
                \in MapperState
BY DEF MapperState, Idling, Error

\* What a step makes of a row.
LEMMA RowTypes ==
  ASSUME transform \in [Transform -> TransformRow], NEW j \in Transform
  PROVE  /\ [transform[j] EXCEPT !.due = TRUE] \in TransformRow
         /\ [transform[j] EXCEPT !.holder = NoMapper] \in TransformRow
         /\ [transform[j] EXCEPT !.status = "succeeded", !.holder = NoMapper] \in TransformRow
         /\ \A error \in Error :
              [transform[j] EXCEPT !.status = "failed", !.error = error, !.holder = NoMapper]
                \in TransformRow
BY DEF TransformRow

LEMMA WaitsTypes ==
  ASSUME transform \in [Transform -> TransformRow], NEW j \in Transform,
         transform[j].tries > 0, NEW error \in Error, NEW refunded \in BOOLEAN,
         Waits(j, error, refunded)
  PROVE  transform' \in [Transform -> TransformRow]
<1> DEFINE tries == IF refunded THEN transform[j].tries - 1 ELSE transform[j].tries
<1>1. transform[j].tries \in Nat
  BY DEF TransformRow
<1>2. tries \in Nat
  BY <1>1
<1>3. [status |-> "retry_wait", tries |-> tries, error |-> error, holder |-> NoMapper,
       due |-> FALSE] \in TransformRow
  BY <1>2 DEF TransformRow
<1> QED BY <1>3 DEF Waits

LEMMA TransformTypesInit == TransformInit => TransformTypeOK
<1> SUFFICES ASSUME TransformInit PROVE TransformTypeOK
  OBVIOUS
<1>1. layout \in Layout /\ replay \in [Transform -> Nat]
  BY TransformAssumption DEF TransformInit, TransformAssumption, Layout
<1>2. mapper \in [Mapper -> MapperState]
  BY DEF TransformInit, MapperState, Idling, Error
<1>3. transform \in [Transform -> TransformRow]
  BY DEF TransformInit, TransformRow, Error
<1> QED BY <1>1, <1>2, <1>3 DEF TransformInit, TransformTypeOK

LEMMA TransformTypesStep ==
  ASSUME TransformTypeOK, SpendingIsExplained, TransformNext
  PROVE  TransformTypeOK'
<1> USE DEF TransformTypeOK, ledger, content
<1>1. ASSUME NEW l \in Mapper, NEW j \in Transform, ClaimTransform(l, j)
      PROVE  TransformTypeOK'
  <2>1. mapper' \in [Mapper -> MapperState]
    BY <1>1, MapperTypes DEF ClaimTransform
  <2>2. Counted(transform[j].tries) \in Nat
    BY DEF TransformRow, Counted
  <2>3. [status |-> "running", tries |-> Counted(transform[j].tries), error |-> "none",
         holder |-> l, due |-> TRUE] \in TransformRow
    BY <2>2 DEF TransformRow, Error
  <2>4. transform' \in [Transform -> TransformRow]
    BY <1>1, <2>3 DEF ClaimTransform
  <2> QED BY <1>1, <2>1, <2>4 DEF ClaimTransform
<1>2. ASSUME NEW l \in Mapper, NEW j \in Transform, MapPage(l, j)
      PROVE  TransformTypeOK'
  <2>1. mapper' \in [Mapper -> MapperState]
    BY <1>2, MapperTypes DEF MapPage, Turn
  <2> QED BY <1>2, <2>1 DEF MapPage
<1>2b. ASSUME NEW l \in Mapper, NEW j \in Transform, ReplayChunk(l, j)
       PROVE  TransformTypeOK'
  <2>1. mapper' \in [Mapper -> MapperState]
    BY <1>2b, MapperTypes DEF ReplayChunk, Turn
  <2>2. replay' \in [Transform -> Nat]
    BY <1>2b DEF ReplayChunk
  <2> QED BY <1>2b, <2>1, <2>2 DEF ReplayChunk
<1>3. ASSUME NEW l \in Mapper, NEW j \in Transform,
             MissReference(l, j) \/ MeetStrangePage(l, j) \/ NoticeLapse(l, j)
      PROVE  TransformTypeOK'
  <2>1. mapper' \in [Mapper -> MapperState]
    BY <1>3, MapperTypes DEF MissReference, MeetStrangePage, NoticeLapse, Fails, Error
  <2> QED BY <1>3, <2>1 DEF MissReference, MeetStrangePage, NoticeLapse
<1>4. ASSUME NEW l \in Mapper, NEW j \in Transform, ContinueReplay(l, j)
      PROVE  TransformTypeOK'
  <2>1. mapper' \in [Mapper -> MapperState]
    BY <1>4, MapperTypes DEF ContinueReplay, Rests
  <2>2. transform' \in [Transform -> TransformRow]
    BY <1>4, WaitsTypes DEF ContinueReplay, Holds, SpendingIsExplained, Error
  <2> QED BY <1>4, <2>1, <2>2 DEF ContinueReplay
<1>5. ASSUME NEW l \in Mapper, NEW j \in Transform, RetryOrFail(l, j)
      PROVE  TransformTypeOK'
  <2>1. mapper' \in [Mapper -> MapperState]
    BY <1>5, MapperTypes DEF RetryOrFail, Rests
  <2> DEFINE error == mapper[l].error
             backlog == /\ error = "reference"
                        /\ \E i \in Transform \ {j} :
                             StreamOf[i] = StreamOf[j] /\ OrdinarySibling(i)
  <2>2. error \in Error /\ backlog \in BOOLEAN
    BY DEF MapperState
  <2>3. \/ UNCHANGED transform
        \/ transform' = [transform EXCEPT ![j] =
             [@ EXCEPT !.status = "failed", !.error = error, !.holder = NoMapper]]
        \/ Holds(l, j) /\ Waits(j, error, backlog)
    BY <1>5 DEF RetryOrFail
  <2>4. transform' \in [Transform -> TransformRow]
    <3> HIDE DEF error, backlog
    <3>1. CASE Holds(l, j) /\ Waits(j, error, backlog)
      BY <3>1, <2>2, WaitsTypes DEF Holds, SpendingIsExplained
    <3>2. CASE transform' = [transform EXCEPT ![j] =
                 [@ EXCEPT !.status = "failed", !.error = error, !.holder = NoMapper]]
      BY <3>2, <2>2, RowTypes
    <3> QED BY <2>3, <3>1, <3>2
  <2> QED BY <1>5, <2>1, <2>4 DEF RetryOrFail
<1>6. ASSUME NEW l \in Mapper, NEW j \in Transform, DecideCompletion(l, j)
      PROVE  TransformTypeOK'
  <2>1. CoverageFor(j) \in {"none", "queryable", "superseded"}
    BY DEF CoverageFor
  <2>2. (CoverageFor(j) = "queryable" /\ LastReady(StreamOf[j])) \in BOOLEAN
    OBVIOUS
  <2>3. mapper' \in [Mapper -> MapperState]
    BY <1>6, <2>1, <2>2, MapperTypes DEF DecideCompletion
  <2> QED BY <1>6, <2>3 DEF DecideCompletion
<1>7. ASSUME NEW l \in Mapper, NEW j \in Transform, CommitCompletion(l, j)
      PROVE  TransformTypeOK'
  <2>1. mapper' \in [Mapper -> MapperState]
    BY <1>7, MapperTypes DEF CommitCompletion, Rests
  <2>2. transform' \in [Transform -> TransformRow]
    BY <1>7, RowTypes DEF CommitCompletion
  <2>3. mapper[l].grant \in {"none", "queryable", "superseded"} /\ mapper[l].asks \in BOOLEAN
    BY DEF MapperState
  <2>4. coverage' \in [Stream -> {"pending", "queryable", "superseded"}]
    BY <1>7, <2>3 DEF CommitCompletion
  <2>5. reconciliation' \in BOOLEAN
    BY <1>7, <2>3 DEF CommitCompletion
  <2> QED BY <1>7, <2>1, <2>2, <2>4, <2>5 DEF CommitCompletion
<1>8. ASSUME NEW l \in Mapper, MeetTrouble(l) \/ LoseMapper(l)
      PROVE  TransformTypeOK'
  <2>1. CASE MeetTrouble(l)
    <3>1. PICK error \in Error : Fails(l, error)
      BY <2>1 DEF MeetTrouble, Error
    <3>2. mapper' \in [Mapper -> MapperState]
      BY <3>1, MapperTypes DEF Fails
    <3> QED BY <2>1, <3>2 DEF MeetTrouble, Trouble
  <2>2. CASE LoseMapper(l)
    <3>1. mapper' \in [Mapper -> MapperState]
      BY <2>2, MapperTypes DEF LoseMapper, Rests
    <3> QED BY <2>2, <3>1 DEF LoseMapper, Trouble
  <2> QED BY <1>8, <2>1, <2>2
<1>9. ASSUME NEW j \in Transform, ComeDue(j) \/ ExpireLease(j) \/ MissExtensions(j)
      PROVE  TransformTypeOK'
  <2>1. transform' \in [Transform -> TransformRow]
    BY <1>9, RowTypes DEF ComeDue, ExpireLease, MissExtensions, EndLease
  <2> QED BY <1>9, <2>1 DEF ComeDue, ExpireLease, MissExtensions, EndLease, Trouble
<1> QED BY TransformSteps, <1>1, <1>2, <1>2b, <1>3, <1>4, <1>5, <1>6, <1>7, <1>8, <1>9

-------------------------------------------------------------------------------
(* What no step takes back.                                                 *)

LEMMA DoneStays ==
  ASSUME TransformTypeOK, CommitsAreApart, TransformNext, NEW i \in Transform, Done(i)
  PROVE  Done(i)'
<1> USE DEF TransformTypeOK, Done
<1>1. ASSUME NEW l \in Mapper, NEW j \in Transform, ClaimTransform(l, j)
      PROVE  Done(i)'
  BY <1>1 DEF ClaimTransform, Transformable
<1>2. ASSUME NEW l \in Mapper, NEW j \in Transform,
             \/ MapPage(l, j) \/ MissReference(l, j) \/ MeetStrangePage(l, j) \/ ReplayChunk(l, j)
             \/ NoticeLapse(l, j) \/ DecideCompletion(l, j)
      PROVE  Done(i)'
  BY <1>2 DEF MapPage, MissReference, MeetStrangePage, ReplayChunk, NoticeLapse, DecideCompletion
<1>3. ASSUME NEW l \in Mapper, NEW j \in Transform, ContinueReplay(l, j)
      PROVE  Done(i)'
  BY <1>3 DEF ContinueReplay, Waits, Holds
<1>4. ASSUME NEW l \in Mapper, NEW j \in Transform, RetryOrFail(l, j)
      PROVE  Done(i)'
  <2>1. CASE ~Holds(l, j)
    BY <1>4, <2>1 DEF RetryOrFail
  <2>2. CASE Holds(l, j)
    <3>1. i # j
      BY <2>2 DEF Holds
    <3> QED BY <1>4, <2>2, <3>1 DEF RetryOrFail, Waits
  <2> QED BY <2>1, <2>2
<1>5. ASSUME NEW l \in Mapper, NEW j \in Transform, CommitCompletion(l, j)
      PROVE  Done(i)'
  BY <1>5 DEF CommitCompletion, TransformRow
<1>6. ASSUME NEW l \in Mapper, MeetTrouble(l) \/ LoseMapper(l)
      PROVE  Done(i)'
  BY <1>6 DEF MeetTrouble, LoseMapper
<1>7. ASSUME NEW j \in Transform, ComeDue(j) \/ ExpireLease(j) \/ MissExtensions(j)
      PROVE  Done(i)'
  BY <1>7 DEF ComeDue, ExpireLease, MissExtensions, EndLease, TransformRow
<1> QED BY TransformSteps, <1>1, <1>2, <1>3, <1>4, <1>5, <1>6, <1>7

\* The coverage is written by completions alone.
LEMMA CoverageChanges ==
  ASSUME TransformNext
  PROVE  \/ UNCHANGED coverage
         \/ \E l \in Mapper, j \in Transform : CommitCompletion(l, j)
<1> USE DEF ledger
<1>1. ASSUME NEW l \in Mapper, NEW j \in Transform,
             \/ ClaimTransform(l, j) \/ MapPage(l, j) \/ MissReference(l, j)
             \/ MeetStrangePage(l, j) \/ ReplayChunk(l, j) \/ NoticeLapse(l, j)
      PROVE  UNCHANGED coverage
  BY <1>1
     DEF ClaimTransform, MapPage, MissReference, MeetStrangePage, ReplayChunk, NoticeLapse
<1>2. ASSUME NEW l \in Mapper, NEW j \in Transform,
             ContinueReplay(l, j) \/ RetryOrFail(l, j) \/ DecideCompletion(l, j)
      PROVE  UNCHANGED coverage
  BY <1>2 DEF ContinueReplay, RetryOrFail, DecideCompletion
<1>3. ASSUME NEW l \in Mapper, MeetTrouble(l) \/ LoseMapper(l)
      PROVE  UNCHANGED coverage
  BY <1>3 DEF MeetTrouble, LoseMapper
<1>4. ASSUME NEW j \in Transform, ComeDue(j) \/ ExpireLease(j) \/ MissExtensions(j)
      PROVE  UNCHANGED coverage
  BY <1>4 DEF ComeDue, ExpireLease, MissExtensions, EndLease
<1> QED BY TransformSteps, <1>1, <1>2, <1>3, <1>4

LEMMA ReadyStays ==
  ASSUME TransformTypeOK, TransformNext, NEW s \in Stream, ReadyStream(s)
  PROVE  ReadyStream(s)'
<1>1. CASE UNCHANGED coverage
  BY <1>1 DEF ReadyStream
<1>2. ASSUME NEW l \in Mapper, NEW j \in Transform, CommitCompletion(l, j)
      PROVE  ReadyStream(s)'
  <2>1. mapper[l].grant \in {"none", "queryable", "superseded"}
    BY DEF TransformTypeOK, MapperState
  <2> QED BY <1>2, <2>1 DEF CommitCompletion, ReadyStream, TransformTypeOK
<1> QED BY CoverageChanges, <1>1, <1>2

LEMMA MastersStay ==
  ASSUME TransformTypeOK, TransformNext, NEW j \in Transform, MastersReady(j)
  PROVE  MastersReady(j)'
<1>1. Master[StreamOf[j]] \subseteq Stream
  BY TransformAssumption DEF TransformAssumption
<1> QED BY <1>1, ReadyStays DEF MastersReady

-------------------------------------------------------------------------------
(* Completions keep apart.                                                  *)

\* A step of a lane that is not a claim leaves the others and its own job alone.
LEMMA OneLaneMoves ==
  ASSUME TransformTypeOK, NEW l \in Mapper, NEW j \in Transform,
         \/ MapPage(l, j) \/ MissReference(l, j) \/ MeetStrangePage(l, j)
         \/ ReplayChunk(l, j) \/ NoticeLapse(l, j)
         \/ ContinueReplay(l, j) \/ RetryOrFail(l, j) \/ DecideCompletion(l, j)
         \/ CommitCompletion(l, j)
  PROVE  /\ mapper[l].job = j /\ mapper[l].at # "idle"
         /\ \A k \in Mapper \ {l} : mapper'[k] = mapper[k]
         /\ mapper'[l].at = "idle" \/ mapper'[l].job = j
         /\ Committing(l)' => DecideCompletion(l, j)
<1> USE DEF TransformTypeOK, MapperState, MapperAt, Committing
<1>1. CASE MapPage(l, j) \/ ReplayChunk(l, j)
  BY <1>1 DEF MapPage, ReplayChunk, Turn
<1>2. CASE MissReference(l, j) \/ MeetStrangePage(l, j) \/ NoticeLapse(l, j)
  BY <1>2 DEF MissReference, MeetStrangePage, NoticeLapse, Fails
<1>3. CASE ContinueReplay(l, j) \/ RetryOrFail(l, j) \/ CommitCompletion(l, j)
  <2>1. mapper[l].job = j /\ mapper[l].at # "idle"
    BY <1>3 DEF ContinueReplay, RetryOrFail, CommitCompletion
  <2>2. mapper' = [mapper EXCEPT ![l] = Idling]
    BY <1>3 DEF ContinueReplay, RetryOrFail, CommitCompletion, Rests
  <2> QED BY <2>1, <2>2 DEF Idling
<1>4. CASE DecideCompletion(l, j)
  BY <1>4 DEF DecideCompletion
<1> QED BY <1>1, <1>2, <1>3, <1>4

\* So does a trouble.
LEMMA OneLaneSuffers ==
  ASSUME TransformTypeOK, NEW l \in Mapper, MeetTrouble(l) \/ LoseMapper(l)
  PROVE  /\ mapper[l].at # "idle" /\ UNCHANGED <<transform, ledger, content>>
         /\ troubled' = troubled + 1
         /\ \A k \in Mapper \ {l} : mapper'[k] = mapper[k]
         /\ mapper'[l].at = "idle" \/ mapper'[l].job = mapper[l].job
         /\ ~Committing(l)'
<1> USE DEF TransformTypeOK, MapperState, Committing, Trouble
<1>1. CASE MeetTrouble(l)
  BY <1>1 DEF MeetTrouble, Fails
<1>2. CASE LoseMapper(l)
  BY <1>2 DEF LoseMapper, Rests, Idling
<1> QED BY <1>1, <1>2

LEMMA ApartInit == TransformInit => CommitsAreApart
BY DEF TransformInit, CommitsAreApart, Committing, Idling

LEMMA ApartStep ==
  ASSUME TransformTypeOK, CommitsAreApart, TransformNext
  PROVE  CommitsAreApart'
<1> USE TransformAssumption DEF TransformAssumption, CommitsAreApart, Committing
<1>1. ASSUME NEW l \in Mapper, NEW j \in Transform, ClaimTransform(l, j)
      PROVE  CommitsAreApart'
  <2>1. mapper'[l].at = "mapping" /\ mapper'[l].job = j
    BY <1>1 DEF ClaimTransform, TransformTypeOK
  <2>2. \A k \in Mapper \ {l} : mapper'[k] = mapper[k]
    BY <1>1 DEF ClaimTransform, TransformTypeOK
  <2>3. \A i \in Transform \ {j} : transform'[i] = transform[i]
    BY <1>1 DEF ClaimTransform, TransformTypeOK
  <2>4. \A k \in Mapper : Committing(k) => mapper[k].job # j
    BY <1>1 DEF ClaimTransform, MapperAt
  <2> QED BY <2>1, <2>2, <2>3, <2>4
<1>2. ASSUME NEW l \in Mapper, NEW j \in Transform,
             \/ MapPage(l, j) \/ MissReference(l, j) \/ MeetStrangePage(l, j) \/ ReplayChunk(l, j)
             \/ NoticeLapse(l, j)
      PROVE  CommitsAreApart'
  <2>1. UNCHANGED transform
    BY <1>2 DEF MapPage, MissReference, MeetStrangePage, ReplayChunk, NoticeLapse
  <2>2. mapper[l].at # "committing" /\ ~DecideCompletion(l, j)
    BY <1>2 DEF MapPage, MissReference, MeetStrangePage, ReplayChunk, NoticeLapse, MapperAt,
                DecideCompletion
  <2> QED BY <1>2, <2>1, <2>2, OneLaneMoves
<1>3. ASSUME NEW l \in Mapper, NEW j \in Transform, ContinueReplay(l, j) \/ RetryOrFail(l, j)
      PROVE  CommitsAreApart'
  <2>1. ~DecideCompletion(l, j)
    BY <1>3 DEF ContinueReplay, RetryOrFail, DecideCompletion, MapperAt
  <2>2. \A i \in Transform \ {j} : transform'[i] = transform[i]
    BY <1>3 DEF ContinueReplay, RetryOrFail, Waits, TransformTypeOK
  <2>3. CASE Holds(l, j)
    <3>1. \A k \in Mapper \ {l} : Committing(k) => mapper[k].job # j
      BY <2>3 DEF Holds
    <3> QED BY <1>3, <2>1, <2>2, <3>1, OneLaneMoves
  <2>4. CASE ~Holds(l, j)
    <3>1. UNCHANGED transform
      BY <1>3, <2>4 DEF ContinueReplay, RetryOrFail
    <3> QED BY <1>3, <2>1, <3>1, OneLaneMoves
  <2> QED BY <2>3, <2>4
<1>4. ASSUME NEW l \in Mapper, NEW j \in Transform, DecideCompletion(l, j)
      PROVE  CommitsAreApart'
  <2>1. UNCHANGED transform /\ transform[j].status = "running" /\ transform[j].holder = l
    BY <1>4 DEF DecideCompletion, Holds
  <2>2. \A k \in Mapper \ {l} : Committing(k) => mapper[k].job # j
    BY <2>1
  <2>3. \A k \in Mapper : Committing(k) /\ j \in Recent /\ mapper[k].job \in Recent =>
          StreamOf[mapper[k].job] # StreamOf[j]
    BY <1>4 DEF DecideCompletion, Behind
  <2>4. /\ \A k \in Mapper \ {l} : mapper'[k] = mapper[k]
        /\ mapper'[l].at = "idle" \/ mapper'[l].job = j
    BY <1>4, OneLaneMoves
  <2> QED BY <2>1, <2>2, <2>3, <2>4
<1>5. ASSUME NEW l \in Mapper, NEW j \in Transform, CommitCompletion(l, j)
      PROVE  CommitsAreApart'
  <2>1. \A i \in Transform \ {j} : transform'[i] = transform[i]
    BY <1>5 DEF CommitCompletion, TransformTypeOK
  <2>2. Committing(l) /\ mapper[l].job = j /\ ~DecideCompletion(l, j)
    BY <1>5 DEF CommitCompletion, DecideCompletion, MapperAt
  <2>3. \A k \in Mapper \ {l} : Committing(k) => mapper[k].job # j
    BY <2>2
  <2> QED BY <1>5, <2>1, <2>2, <2>3, OneLaneMoves
<1>6. ASSUME NEW l \in Mapper, MeetTrouble(l) \/ LoseMapper(l)
      PROVE  CommitsAreApart'
  BY <1>6, OneLaneSuffers
<1>7. ASSUME NEW j \in Transform, ComeDue(j) \/ ExpireLease(j) \/ MissExtensions(j)
      PROVE  CommitsAreApart'
  <2>1. UNCHANGED mapper /\ \A i \in Transform \ {j} : transform'[i] = transform[i]
    BY <1>7 DEF ComeDue, ExpireLease, MissExtensions, EndLease, content, TransformTypeOK
  <2>2. CASE ComeDue(j)
    <3>1. transform[j].status = "retry_wait"
      BY <2>2 DEF ComeDue
    <3> QED BY <2>1, <3>1
  <2>3. CASE ExpireLease(j) \/ MissExtensions(j)
    <3>1. transform'[j].status = transform[j].status /\ transform'[j].holder = NoMapper
      BY <2>3 DEF ExpireLease, MissExtensions, EndLease, TransformTypeOK, TransformRow
    <3> QED BY <2>1, <3>1
  <2> QED BY <1>7, <2>2, <2>3
<1> QED BY TransformSteps, <1>1, <1>2, <1>3, <1>4, <1>5, <1>6, <1>7

-------------------------------------------------------------------------------
(* What a completion has read still holds.                                  *)

LEMMA JustInit == TransformInit => CommitsAreJust
BY DEF TransformInit, CommitsAreJust, Committing, Idling

\* What a failure or a continuation makes of the row.
LEMMA RowOutcomes ==
  ASSUME TransformTypeOK, NEW l \in Mapper, NEW j \in Transform,
         ContinueReplay(l, j) \/ RetryOrFail(l, j)
  PROVE  \/ UNCHANGED transform
         \/ /\ Holds(l, j)
            /\ \/ \E error \in Error, refunded \in BOOLEAN : Waits(j, error, refunded)
               \/ \E error \in Error : transform' = [transform EXCEPT ![j] =
                    [@ EXCEPT !.status = "failed", !.error = error, !.holder = NoMapper]]
<1>1. CASE ContinueReplay(l, j)
  BY <1>1 DEF ContinueReplay, Error
<1>2. CASE RetryOrFail(l, j)
  <2>1. mapper[l].error \in Error
    BY DEF TransformTypeOK, MapperState
  <2> DEFINE backlog == /\ mapper[l].error = "reference"
                        /\ \E i \in Transform \ {j} :
                             StreamOf[i] = StreamOf[j] /\ OrdinarySibling(i)
  <2>2. backlog \in BOOLEAN
    OBVIOUS
  <2>3. \/ UNCHANGED transform
        \/ /\ Holds(l, j)
           /\ \/ Waits(j, mapper[l].error, backlog)
              \/ transform' = [transform EXCEPT ![j] =
                   [@ EXCEPT !.status = "failed", !.error = mapper[l].error,
                             !.holder = NoMapper]]
    BY <1>2 DEF RetryOrFail
  <2> HIDE DEF backlog
  <2> QED BY <2>1, <2>2, <2>3
<1> QED BY <1>1, <1>2

\* A page is done by the commit of its completion only.
LEMMA NewlyDone ==
  ASSUME TransformTypeOK, TransformNext, NEW i \in Transform, Done(i)', ~Done(i)
  PROVE  \E l \in Mapper : CommitCompletion(l, i)
<1> USE DEF TransformTypeOK, TransformRow, Done
<1>1. ASSUME NEW l \in Mapper, NEW j \in Transform, ClaimTransform(l, j)
      PROVE  FALSE
  BY <1>1 DEF ClaimTransform
<1>2. ASSUME NEW l \in Mapper, NEW j \in Transform,
             \/ MapPage(l, j) \/ MissReference(l, j) \/ MeetStrangePage(l, j) \/ ReplayChunk(l, j)
             \/ NoticeLapse(l, j) \/ DecideCompletion(l, j)
      PROVE  FALSE
  BY <1>2 DEF MapPage, MissReference, MeetStrangePage, ReplayChunk, NoticeLapse, DecideCompletion
<1>3. ASSUME NEW l \in Mapper, NEW j \in Transform, ContinueReplay(l, j) \/ RetryOrFail(l, j)
      PROVE  FALSE
  <2>1. \/ UNCHANGED transform
        \/ \E error \in Error, refunded \in BOOLEAN : Waits(j, error, refunded)
        \/ \E error \in Error : transform' = [transform EXCEPT ![j] =
             [@ EXCEPT !.status = "failed", !.error = error, !.holder = NoMapper]]
    BY <1>3, RowOutcomes
  <2>2. ASSUME NEW error \in Error, NEW refunded \in BOOLEAN, Waits(j, error, refunded)
        PROVE  FALSE
    BY <2>2 DEF Waits
  <2>3. ASSUME NEW error \in Error,
               transform' = [transform EXCEPT ![j] =
                 [@ EXCEPT !.status = "failed", !.error = error, !.holder = NoMapper]]
        PROVE  FALSE
    BY <2>3
  <2> QED BY <2>1, <2>2, <2>3
<1>4. ASSUME NEW l \in Mapper, NEW j \in Transform, CommitCompletion(l, j)
      PROVE  i = j
  BY <1>4 DEF CommitCompletion
<1>5. ASSUME NEW l \in Mapper, MeetTrouble(l) \/ LoseMapper(l)
      PROVE  FALSE
  BY <1>5 DEF MeetTrouble, LoseMapper
<1>6. ASSUME NEW j \in Transform, ComeDue(j) \/ ExpireLease(j) \/ MissExtensions(j)
      PROVE  FALSE
  BY <1>6 DEF ComeDue, ExpireLease, MissExtensions, EndLease
<1> QED BY TransformSteps, <1>1, <1>2, <1>3, <1>4, <1>5, <1>6

\* A lane gets a job by a claim only, and waits for its commit by deciding only.
LEMMA LaneChanges ==
  ASSUME TransformTypeOK, TransformNext, NEW k \in Mapper
  PROVE  /\ \/ mapper'[k].at = "idle"
            \/ mapper[k].at # "idle" /\ mapper'[k].job = mapper[k].job
            \/ \E j \in Transform : ClaimTransform(k, j) /\ mapper'[k].job = j
         /\ \/ ~Committing(k)'
            \/ mapper'[k] = mapper[k]
            \/ \E j \in Transform : DecideCompletion(k, j) /\ mapper'[k].job = j
<1>1. ASSUME NEW l \in Mapper, NEW j \in Transform, ClaimTransform(l, j)
      PROVE  /\ mapper'[l].job = j /\ mapper'[l].at = "mapping"
             /\ \A i \in Mapper \ {l} : mapper'[i] = mapper[i]
  BY <1>1 DEF ClaimTransform, TransformTypeOK
<1>2. ASSUME NEW j \in Transform, ComeDue(j) \/ ExpireLease(j) \/ MissExtensions(j)
      PROVE  UNCHANGED mapper
  BY <1>2 DEF ComeDue, ExpireLease, MissExtensions, EndLease
<1>3. ASSUME NEW l \in Mapper, NEW j \in Transform, ClaimTransform(l, j)
      PROVE  /\ \/ mapper'[k].at = "idle"
                \/ mapper[k].at # "idle" /\ mapper'[k].job = mapper[k].job
                \/ \E i \in Transform : ClaimTransform(k, i) /\ mapper'[k].job = i
             /\ \/ ~Committing(k)'
                \/ mapper'[k] = mapper[k]
                \/ \E i \in Transform : DecideCompletion(k, i) /\ mapper'[k].job = i
  BY <1>1, <1>3 DEF Committing
<1>4. ASSUME NEW l \in Mapper, NEW j \in Transform,
         \/ MapPage(l, j) \/ MissReference(l, j) \/ MeetStrangePage(l, j)
         \/ ReplayChunk(l, j) \/ NoticeLapse(l, j)
         \/ ContinueReplay(l, j) \/ RetryOrFail(l, j) \/ DecideCompletion(l, j)
         \/ CommitCompletion(l, j)
      PROVE  /\ \/ mapper'[k].at = "idle"
                \/ mapper[k].at # "idle" /\ mapper'[k].job = mapper[k].job
                \/ \E i \in Transform : ClaimTransform(k, i) /\ mapper'[k].job = i
             /\ \/ ~Committing(k)'
                \/ mapper'[k] = mapper[k]
                \/ \E i \in Transform : DecideCompletion(k, i) /\ mapper'[k].job = i
  BY <1>4, OneLaneMoves DEF Committing
<1>5. ASSUME NEW l \in Mapper, MeetTrouble(l) \/ LoseMapper(l)
      PROVE  /\ \/ mapper'[k].at = "idle"
                \/ mapper[k].at # "idle" /\ mapper'[k].job = mapper[k].job
                \/ \E i \in Transform : ClaimTransform(k, i) /\ mapper'[k].job = i
             /\ \/ ~Committing(k)'
                \/ mapper'[k] = mapper[k]
                \/ \E i \in Transform : DecideCompletion(k, i) /\ mapper'[k].job = i
  BY <1>5, OneLaneSuffers DEF Committing
<1> QED BY TransformSteps, <1>2, <1>3, <1>4, <1>5

LEMMA JustStep ==
  ASSUME TransformTypeOK, CommitsAreApart, CommitsAreJust, TransformNext
  PROVE  CommitsAreJust'
<1>1. ASSUME NEW k \in Mapper, mapper'[k].at # "idle"
      PROVE  MastersReady(mapper[k].job)'
  <2>1. CASE mapper[k].at # "idle" /\ mapper'[k].job = mapper[k].job
    <3>1. mapper[k].job \in Transform /\ MastersReady(mapper[k].job)
      BY <2>1 DEF CommitsAreApart, CommitsAreJust
    <3> QED BY <2>1, <3>1, MastersStay
  <2>2. ASSUME NEW j \in Transform, ClaimTransform(k, j), mapper'[k].job = j
        PROVE  MastersReady(mapper[k].job)'
    <3>1. MastersReady(j)
      BY <2>2 DEF ClaimTransform, Transformable
    <3> QED BY <2>2, <3>1, MastersStay
  <2> QED BY <1>1, <2>1, <2>2, LaneChanges
<1>2. ASSUME NEW k \in Mapper, NEW j \in Transform, Committing(k), mapper[k].job = j,
             mapper'[k] = mapper[k]
      PROVE  /\ mapper[k].grant = "queryable" =>
                  j \in Recent /\ \A i \in RecentOf(StreamOf[j]) \ {j} : Done(i)'
             /\ mapper[k].grant = "superseded" => j \in Final
             /\ mapper[k].grant = "none" /\ j \in Recent =>
                  \/ coverage'[StreamOf[j]] # "pending"
                  \/ \E i \in RecentOf(StreamOf[j]) \ {j} : ~Done(i)'
  <2>1. StreamOf[j] \in Stream /\ RecentOf(StreamOf[j]) \subseteq Transform
    BY TransformAssumption DEF TransformAssumption, RecentOf
  <2>2. coverage[StreamOf[j]] # "pending" => coverage'[StreamOf[j]] # "pending"
    BY <2>1, ReadyStays DEF ReadyStream, TransformTypeOK
  <2>3. ASSUME NEW i \in RecentOf(StreamOf[j]) \ {j}, ~Done(i), j \in Recent
        PROVE  ~Done(i)'
    <3> SUFFICES ASSUME Done(i)' PROVE FALSE
      OBVIOUS
    <3>1. PICK l \in Mapper : CommitCompletion(l, i)
      BY <2>1, <2>3, NewlyDone
    <3>2. Committing(l) /\ mapper[l].job = i
      BY <3>1 DEF CommitCompletion, MapperAt, Committing
    <3>3. i \in Recent /\ StreamOf[i] = StreamOf[j] /\ l # k
      BY <1>2, <2>3, <3>2 DEF RecentOf
    <3> QED BY <1>2, <2>3, <3>2, <3>3 DEF CommitsAreApart
  <2>4. \A i \in RecentOf(StreamOf[j]) \ {j} : Done(i) => Done(i)'
    BY <2>1, DoneStays
  <2> QED BY <1>2, <2>2, <2>3, <2>4 DEF CommitsAreJust
<1>3. ASSUME NEW k \in Mapper, NEW j \in Transform, DecideCompletion(k, j)
      PROVE  /\ mapper'[k].grant = "queryable" =>
                  j \in Recent /\ \A i \in RecentOf(StreamOf[j]) \ {j} : Done(i)'
             /\ mapper'[k].grant = "superseded" => j \in Final
             /\ mapper'[k].grant = "none" /\ j \in Recent =>
                  \/ coverage'[StreamOf[j]] # "pending"
                  \/ \E i \in RecentOf(StreamOf[j]) \ {j} : ~Done(i)'
  <2>1. MastersReady(j)
    BY <1>3 DEF DecideCompletion, MapperAt, CommitsAreJust
  <2>2. UNCHANGED <<transform, coverage>>
    BY <1>3 DEF DecideCompletion, ledger
  <2>3. mapper'[k].grant = CoverageFor(j)
    BY <1>3 DEF DecideCompletion, TransformTypeOK, MapperState
  <2>4. /\ CoverageFor(j) = "queryable" =>
             j \in Recent /\ \A i \in RecentOf(StreamOf[j]) \ {j} : Done(i)
        /\ CoverageFor(j) = "superseded" => j \in Final
        /\ CoverageFor(j) = "none" /\ j \in Recent =>
             \/ coverage[StreamOf[j]] # "pending"
             \/ \E i \in RecentOf(StreamOf[j]) \ {j} : ~Done(i)
    BY <2>1 DEF CoverageFor, Done
  <2> QED BY <2>2, <2>3, <2>4 DEF Done
<1>4. ASSUME NEW k \in Mapper, Committing(k)'
      PROVE  LET j == mapper'[k].job
                 others == RecentOf(StreamOf[j]) \ {j}
             IN
             /\ mapper'[k].grant = "queryable" => j \in Recent /\ \A i \in others : Done(i)'
             /\ mapper'[k].grant = "superseded" => j \in Final
             /\ mapper'[k].grant = "none" /\ j \in Recent =>
                  coverage'[StreamOf[j]] # "pending" \/ \E i \in others : ~Done(i)'
  <2>1. CASE mapper'[k] = mapper[k]
    <3>1. Committing(k) /\ mapper[k].job \in Transform
      BY <1>4, <2>1 DEF Committing, CommitsAreApart
    <3> QED BY <2>1, <3>1, <1>2
  <2>2. ASSUME NEW j \in Transform, DecideCompletion(k, j), mapper'[k].job = j
        PROVE  LET i == mapper'[k].job
                   others == RecentOf(StreamOf[i]) \ {i}
               IN
               /\ mapper'[k].grant = "queryable" => i \in Recent /\ \A o \in others : Done(o)'
               /\ mapper'[k].grant = "superseded" => i \in Final
               /\ mapper'[k].grant = "none" /\ i \in Recent =>
                    coverage'[StreamOf[i]] # "pending" \/ \E o \in others : ~Done(o)'
    <3>1. /\ mapper'[k].grant = "queryable" =>
               j \in Recent /\ \A i \in RecentOf(StreamOf[j]) \ {j} : Done(i)'
          /\ mapper'[k].grant = "superseded" => j \in Final
          /\ mapper'[k].grant = "none" /\ j \in Recent =>
               \/ coverage'[StreamOf[j]] # "pending"
               \/ \E i \in RecentOf(StreamOf[j]) \ {j} : ~Done(i)'
      BY <2>2, <1>3
    <3> QED BY <2>2, <3>1
  <2> QED BY <1>4, <2>1, <2>2, LaneChanges
<1> QED BY <1>1, <1>4 DEF CommitsAreJust, RecentOf

-------------------------------------------------------------------------------
(* What is spent.                                                           *)

LEMMA SpendingInit == TransformInit => SpendingIsExplained
BY DEF TransformInit, SpendingIsExplained

\* Of a row that no step touches, as long as the lane at work on it goes on.
LEMMA SpendingStays ==
  ASSUME TransformTypeOK, SpendingIsExplained, NEW i \in Transform,
         transform'[i] = transform[i], layout' = layout, troubled' = troubled,
         Mappable(i) =>
           \A k \in Mapper : transform[i].status = "running" /\ AtWork(k, i) => AtWork(k, i)'
  PROVE  /\ transform'[i].status = "running" => transform'[i].tries > 0
         /\ Mappable(i)' /\ transform'[i].tries > troubled' =>
              /\ transform'[i].tries = troubled' + 1
              /\ \/ transform'[i].status = "succeeded"
                 \/ transform'[i].status = "running" /\ \E k \in Mapper : AtWork(k, i)'
BY DEF SpendingIsExplained, Mappable

LEMMA SpendingStep ==
  ASSUME TransformTypeOK, CommitsAreApart, SpendingIsExplained, TransformNext
  PROVE  SpendingIsExplained'
<1>0. /\ troubled \in Nat
      /\ \A i \in Transform : transform[i].tries \in Nat
  BY DEF TransformTypeOK, TransformRow
<1>1. ASSUME NEW l \in Mapper, NEW j \in Transform, ClaimTransform(l, j)
      PROVE  SpendingIsExplained'
  <2>1. UNCHANGED <<layout, troubled>>
    BY <1>1 DEF ClaimTransform, content
  <2>2. /\ mapper[l].at = "idle" /\ mapper'[l].at = "mapping" /\ mapper'[l].job = j
        /\ \A k \in Mapper \ {l} : mapper'[k] = mapper[k]
    BY <1>1 DEF ClaimTransform, TransformTypeOK
  <2>3. /\ transform'[j].status = "running"
        /\ transform'[j].tries = Counted(transform[j].tries)
        /\ transform'[j].holder = l
        /\ \A i \in Transform \ {j} : transform'[i] = transform[i]
    BY <1>1 DEF ClaimTransform, TransformTypeOK
  <2>4. Mappable(j) => ~(transform[j].tries > troubled)
    BY <1>1, TransformAssumption
       DEF ClaimTransform, Transformable, SpendingIsExplained, AtWork, TransformAssumption
  <2>5. AtWork(l, j)'
    BY <2>2, <2>3 DEF AtWork
  <2>6. ASSUME NEW i \in Transform \ {j}, NEW k \in Mapper, AtWork(k, i)
        PROVE  AtWork(k, i)'
    BY <2>2, <2>3, <2>6 DEF AtWork
  <2>7. /\ transform'[j].tries \in Nat /\ transform'[j].tries > 0
        /\ transform'[j].tries <= transform[j].tries + 1
    BY <1>0, <2>3, TransformAssumption DEF Counted, TransformAssumption
  <2> QED BY <1>0, <2>1, <2>3, <2>4, <2>5, <2>6, <2>7, SpendingStays
          DEF SpendingIsExplained, Mappable
<1>2. ASSUME NEW l \in Mapper, NEW j \in Transform,
             \/ MapPage(l, j) \/ MissReference(l, j) \/ MeetStrangePage(l, j) \/ ReplayChunk(l, j)
             \/ NoticeLapse(l, j) \/ DecideCompletion(l, j)
      PROVE  SpendingIsExplained'
  <2>1. UNCHANGED <<transform, layout, troubled>>
    BY <1>2 DEF MapPage, MissReference, MeetStrangePage, ReplayChunk, NoticeLapse,
                DecideCompletion, content
  <2>2. mapper[l].job = j /\ \A k \in Mapper \ {l} : mapper'[k] = mapper[k]
    BY <1>2, OneLaneMoves
  <2>3. ASSUME Mappable(j), transform[j].status = "running", AtWork(l, j)
        PROVE  AtWork(l, j)'
    <3>1. ~NoticeLapse(l, j)
      BY <2>2, <2>3 DEF NoticeLapse, Holds, AtWork
    <3>2. ~MissReference(l, j) /\ ~MeetStrangePage(l, j)
      BY <2>3 DEF MissReference, MeetStrangePage, Mappable
    <3>3. CASE MapPage(l, j) \/ ReplayChunk(l, j)
      BY <2>1, <2>3, <3>3 DEF MapPage, ReplayChunk, Turn, AtWork, TransformTypeOK, MapperState
    <3>4. CASE DecideCompletion(l, j)
      BY <2>1, <2>3, <3>4 DEF DecideCompletion, AtWork, TransformTypeOK, MapperState
    <3> QED BY <1>2, <3>1, <3>2, <3>3, <3>4
  <2>4. ASSUME NEW i \in Transform, Mappable(i), transform[i].status = "running",
               NEW k \in Mapper, AtWork(k, i)
        PROVE  AtWork(k, i)'
    <3>1. CASE k = l
      BY <2>2, <2>3, <2>4, <3>1 DEF AtWork
    <3>2. CASE k # l
      BY <2>1, <2>2, <2>4, <3>2 DEF AtWork
    <3> QED BY <3>1, <3>2
  <2> QED BY <2>1, <2>4, SpendingStays DEF SpendingIsExplained, Mappable
<1>3. ASSUME NEW l \in Mapper, NEW j \in Transform,
             ContinueReplay(l, j) \/ RetryOrFail(l, j) \/ CommitCompletion(l, j)
      PROVE  SpendingIsExplained'
  <2>1. UNCHANGED <<layout, troubled>>
    BY <1>3 DEF ContinueReplay, RetryOrFail, CommitCompletion, content
  <2>2. mapper[l].job = j /\ \A k \in Mapper \ {l} : mapper'[k] = mapper[k]
    BY <1>3, OneLaneMoves
  <2>3. \A i \in Transform \ {j} : transform'[i] = transform[i]
    BY <1>3, RowOutcomes DEF CommitCompletion, Waits, TransformTypeOK
  <2>4. ASSUME NEW i \in Transform \ {j}, NEW k \in Mapper, AtWork(k, i)
        PROVE  AtWork(k, i)'
    BY <2>2, <2>3, <2>4 DEF AtWork
  <2>5. ASSUME transform'[j].status # "running", transform'[j].tries <= transform[j].tries,
               \/ transform'[j].status = "succeeded"
               \/ Mappable(j) => transform'[j].tries <= troubled
        PROVE  SpendingIsExplained'
    <3>1. transform'[j].tries \in Nat
      BY TransformTypesStep DEF TransformTypeOK, TransformRow
    <3> QED BY <1>0, <2>1, <2>3, <2>4, <2>5, <3>1, SpendingStays DEF SpendingIsExplained, Mappable
  <2>6. CASE ContinueReplay(l, j)
    <3>1. transform'[j].status = "retry_wait" /\ transform'[j].tries = transform[j].tries - 1
      BY <2>6 DEF ContinueReplay, Waits, TransformTypeOK
    <3> QED BY <1>0, <2>5, <3>1 DEF SpendingIsExplained, Mappable
  <2>7. CASE CommitCompletion(l, j)
    <3>1. transform'[j].status = "succeeded" /\ transform'[j].tries = transform[j].tries
      BY <2>7 DEF CommitCompletion, TransformTypeOK, TransformRow
    <3> QED BY <1>0, <2>5, <3>1
  <2>8. CASE RetryOrFail(l, j) /\ Holds(l, j)
    <3>1. mapper[l].at = "failing" /\ transform[j].holder = l /\ transform[j].status = "running"
      BY <2>8 DEF RetryOrFail, MapperAt, Holds
    <3>2. Mappable(j) => transform[j].tries <= troubled
      BY <1>0, <3>1 DEF SpendingIsExplained, AtWork
    <3>3. \/ \E error \in Error, refunded \in BOOLEAN : Waits(j, error, refunded)
          \/ \E error \in Error : transform' = [transform EXCEPT ![j] =
               [@ EXCEPT !.status = "failed", !.error = error, !.holder = NoMapper]]
          \/ UNCHANGED transform
      BY <2>8, RowOutcomes
    <3>4. ASSUME NEW error \in Error, NEW refunded \in BOOLEAN, Waits(j, error, refunded)
          PROVE  SpendingIsExplained'
      <4>1. /\ transform'[j].status = "retry_wait"
            /\ transform'[j].tries \in {transform[j].tries - 1, transform[j].tries}
        BY <3>4 DEF Waits, TransformTypeOK
      <4> QED BY <1>0, <2>5, <3>2, <4>1
    <3>5. ASSUME NEW error \in Error,
                 transform' = [transform EXCEPT ![j] =
                   [@ EXCEPT !.status = "failed", !.error = error, !.holder = NoMapper]]
          PROVE  SpendingIsExplained'
      <4>1. transform'[j].status = "failed" /\ transform'[j].tries = transform[j].tries
        BY <3>5 DEF TransformTypeOK, TransformRow
      <4> QED BY <1>0, <2>5, <3>2, <4>1
    <3>6. CASE UNCHANGED transform
      BY <1>0, <2>1, <2>4, <3>2, <3>6, SpendingStays DEF SpendingIsExplained, Mappable
    <3> QED BY <3>3, <3>4, <3>5, <3>6
  <2>9. CASE RetryOrFail(l, j) /\ ~Holds(l, j)
    <3>1. UNCHANGED transform /\ mapper[l].at = "failing"
      BY <2>9 DEF RetryOrFail, MapperAt
    <3>2. ASSUME NEW i \in Transform, NEW k \in Mapper, AtWork(k, i)
          PROVE  AtWork(k, i)'
      BY <2>2, <3>1, <3>2 DEF AtWork
    <3> QED BY <2>1, <3>1, <3>2, SpendingStays DEF SpendingIsExplained, Mappable
  <2> QED BY <1>3, <2>6, <2>7, <2>8, <2>9
<1>4. ASSUME NEW l \in Mapper, MeetTrouble(l) \/ LoseMapper(l)
      PROVE  SpendingIsExplained'
  BY <1>0, <1>4, OneLaneSuffers DEF SpendingIsExplained, Mappable, content
<1>5. ASSUME NEW j \in Transform, ComeDue(j) \/ ExpireLease(j) \/ MissExtensions(j)
      PROVE  SpendingIsExplained'
  <2>1. /\ UNCHANGED <<mapper, layout>>
        /\ \A i \in Transform \ {j} : transform'[i] = transform[i]
    BY <1>5 DEF ComeDue, ExpireLease, MissExtensions, EndLease, content, TransformTypeOK
  <2>2. /\ transform'[j].status = transform[j].status
        /\ transform'[j].tries = transform[j].tries
    BY <1>5 DEF ComeDue, ExpireLease, MissExtensions, EndLease, TransformTypeOK, TransformRow
  <2>3. CASE MissExtensions(j)
    <3>1. troubled' = troubled + 1
      BY <2>3 DEF MissExtensions, Trouble
    <3> QED BY <1>0, <2>1, <2>2, <3>1 DEF SpendingIsExplained, Mappable
  <2>4. CASE ComeDue(j) \/ ExpireLease(j)
    <3>1. troubled' = troubled
      BY <2>4 DEF ComeDue, ExpireLease
    <3>2. ASSUME NEW k \in Mapper, transform[j].status = "running" PROVE ~AtWork(k, j)
      BY <2>4, <3>2 DEF ComeDue, ExpireLease, Holds, AtWork
    <3>3. ASSUME NEW i \in Transform \ {j}, NEW k \in Mapper, AtWork(k, i)
          PROVE  AtWork(k, i)'
      BY <2>1, <3>3 DEF AtWork
    <3> QED BY <2>1, <2>2, <3>1, <3>2, <3>3, SpendingStays DEF SpendingIsExplained, Mappable
  <2> QED BY <1>5, <2>3, <2>4
<1> QED BY TransformSteps, <1>1, <1>2, <1>3, <1>4, <1>5

-------------------------------------------------------------------------------
(* Coverage.                                                                *)

LEMMA CoverageInit == TransformInit => CoverageIsExact
<1> SUFFICES ASSUME TransformInit PROVE CoverageIsExact
  OBVIOUS
<1>1. /\ \A s \in Stream : coverage[s] = "pending"
      /\ \A i \in Transform : transform[i].status = "queued"
  BY DEF TransformInit
<1>2. \A s \in Stream : RecentOf(s) \subseteq Transform
  BY TransformAssumption DEF TransformAssumption, RecentOf
<1> QED BY <1>1, <1>2 DEF CoverageIsExact

LEMMA CoverageStep ==
  ASSUME TransformTypeOK, CommitsAreApart, CommitsAreJust, CoverageIsExact, TransformNext
  PROVE  CoverageIsExact'
<1> SUFFICES ASSUME NEW s \in Stream
             PROVE  /\ coverage'[s] = "queryable" =>
                         /\ \A i \in RecentOf(s) : Done(i)'
                         /\ \A m \in Master[s] : ReadyStream(m)'
                    /\ RecentOf(s) # {} /\ (\A i \in RecentOf(s) : Done(i)') =>
                         coverage'[s] # "pending"
  BY DEF CoverageIsExact, Done, RecentOf
<1>0. RecentOf(s) \subseteq Transform /\ Master[s] \subseteq Stream
  BY TransformAssumption DEF TransformAssumption, RecentOf
<1>1. \A i \in RecentOf(s) : Done(i) => Done(i)'
  BY <1>0, DoneStays
<1>2. \A m \in Master[s] : ReadyStream(m) => ReadyStream(m)'
  BY <1>0, ReadyStays
<1>3. /\ coverage[s] = "queryable" =>
           (\A i \in RecentOf(s) : Done(i)) /\ \A m \in Master[s] : ReadyStream(m)
      /\ RecentOf(s) # {} /\ (\A i \in RecentOf(s) : Done(i)) => coverage[s] # "pending"
  BY DEF CoverageIsExact, Done
<1>4. ASSUME NEW l \in Mapper, NEW j \in Transform, CommitCompletion(l, j), StreamOf[j] = s
      PROVE  /\ coverage'[s] = "queryable" =>
                  (\A i \in RecentOf(s) : Done(i)') /\ \A m \in Master[s] : ReadyStream(m)'
             /\ RecentOf(s) # {} /\ (\A i \in RecentOf(s) : Done(i)') =>
                  coverage'[s] # "pending"
  <2>1. /\ Committing(l) /\ mapper[l].job = j /\ mapper[l].at # "idle"
        /\ mapper[l].grant \in {"none", "queryable", "superseded"}
    BY <1>4 DEF CommitCompletion, MapperAt, Committing, TransformTypeOK, MapperState
  <2>2. /\ coverage'[s] = IF mapper[l].grant = "none" THEN coverage[s] ELSE mapper[l].grant
        /\ Done(j)'
    BY <1>4 DEF CommitCompletion, TransformTypeOK, TransformRow, Done
  <2>3. \A m \in Master[s] : ReadyStream(m)
    BY <1>4, <2>1 DEF CommitsAreJust, MastersReady
  <2>4. /\ mapper[l].grant = "queryable" => \A i \in RecentOf(s) \ {j} : Done(i)
        /\ mapper[l].grant = "none" /\ j \in Recent =>
             coverage[s] # "pending" \/ \E i \in RecentOf(s) \ {j} : ~Done(i)
    BY <1>4, <2>1 DEF CommitsAreJust
  <2>5. \A i \in RecentOf(s) \ {j} : Done(i)' => Done(i)
    <3> SUFFICES ASSUME NEW i \in RecentOf(s) \ {j}, Done(i)', ~Done(i)
                 PROVE  FALSE
      OBVIOUS
    <3>1. PICK k \in Mapper : CommitCompletion(k, i)
      BY <1>0, NewlyDone
    <3>2. transform'[i] = transform[i]
      BY <1>0, <1>4 DEF CommitCompletion, TransformTypeOK
    <3> QED BY <3>2 DEF Done
  <2>6. j \in RecentOf(s) <=> j \in Recent
    BY <1>4 DEF RecentOf
  <2>7. CASE mapper[l].grant = "queryable"
    BY <1>1, <1>2, <2>2, <2>3, <2>4, <2>7
  <2>8. CASE mapper[l].grant = "superseded"
    BY <2>2, <2>8
  <2>9. CASE mapper[l].grant = "none"
    BY <1>1, <1>2, <1>3, <2>2, <2>4, <2>5, <2>6, <2>9
  <2> QED BY <2>1, <2>7, <2>8, <2>9
<1>5. CASE \A l \in Mapper, j \in Transform : CommitCompletion(l, j) => StreamOf[j] # s
  <2>1. coverage'[s] = coverage[s]
    BY <1>5, CoverageChanges DEF CommitCompletion, TransformTypeOK
  <2>2. \A i \in RecentOf(s) : Done(i)' => Done(i)
    BY <1>0, <1>5, NewlyDone DEF RecentOf
  <2> QED BY <1>1, <1>2, <1>3, <2>1, <2>2
<1> QED BY <1>4, <1>5

-------------------------------------------------------------------------------
(* The theorems.                                                            *)

\* The invariant holds in every reachable state.
THEOREM TransformInvariant == TransformSpec => []TransformInv
<1>1. TransformInit => TransformInv
  BY TransformTypesInit, ApartInit, JustInit, SpendingInit, CoverageInit DEF TransformInv
<1>2. TransformInv /\ [TransformNext]_transformVars => TransformInv'
  <2> SUFFICES ASSUME TransformInv, [TransformNext]_transformVars
               PROVE  TransformInv'
    OBVIOUS
  <2>1. CASE TransformNext
    BY <2>1, TransformTypesStep, ApartStep, JustStep, SpendingStep, CoverageStep
       DEF TransformInv
  <2>2. CASE UNCHANGED transformVars
    <3>1. TransformTypeOK' /\ CommitsAreApart'
      BY <2>2 DEF transformVars, TransformInv, TransformTypeOK, CommitsAreApart, Committing
    <3>2. CommitsAreJust'
      BY <2>2 DEF transformVars, TransformInv, CommitsAreJust, Committing, Done, RecentOf,
                  MastersReady, ReadyStream
    <3>3. SpendingIsExplained' /\ CoverageIsExact'
      BY <2>2 DEF transformVars, TransformInv, SpendingIsExplained, Mappable, AtWork,
                  CoverageIsExact, RecentOf, ReadyStream
    <3> QED BY <3>1, <3>2, <3>3 DEF TransformInv
  <2> QED BY <2>1, <2>2
<1> QED BY <1>1, <1>2, PTL DEF TransformSpec

\* Rows, coverage and lanes keep to their types.
THEOREM TransformTypes == TransformSpec => []TransformTypeOK
BY TransformInvariant, PTL DEF TransformInv

\* A stream becomes queryable with the last page of its recent phase, neither
\* before nor never, however the completions of its pages overlap.
THEOREM CoverageExact == TransformSpec => []CoverageIsExact
BY TransformInvariant, PTL DEF TransformInv

\* Only troubles cost a page that can be mapped an attempt, however often its replay
\* is continued.
THEOREM BudgetSpentOnFailures == TransformSpec => []BudgetIsSpentOnFailures
<1>1. TransformInv => BudgetIsSpentOnFailures
  <2> SUFFICES ASSUME TransformInv, NEW j \in Transform, Mappable(j)
               PROVE  transform[j].tries <= troubled +
                        (IF transform[j].status \in {"running", "succeeded"} THEN 1 ELSE 0)
    BY DEF BudgetIsSpentOnFailures
  <2>1. transform[j].tries \in Nat /\ troubled \in Nat
    BY DEF TransformInv, TransformTypeOK, TransformRow
  <2>2. transform[j].tries > troubled =>
          /\ transform[j].tries = troubled + 1
          /\ transform[j].status \in {"running", "succeeded"}
    BY DEF TransformInv, SpendingIsExplained
  <2> QED BY <2>1, <2>2
<1> QED BY <1>1, TransformInvariant, PTL

\* A page that was mapped stays mapped and a stream that is ready stays ready.
THEOREM TransformsAreFinal ==
  TransformSpec =>
    [][/\ \A j \in Transform : Done(j) => Done(j)'
       /\ \A s \in Stream : ReadyStream(s) => ReadyStream(s)']_transformVars
<1>1. TransformInv /\ [TransformNext]_transformVars =>
        [/\ \A j \in Transform : Done(j) => Done(j)'
         /\ \A s \in Stream : ReadyStream(s) => ReadyStream(s)']_transformVars
  BY DoneStays, ReadyStays DEF TransformInv
<1> QED BY <1>1, TransformInvariant, PTL DEF TransformSpec
===============================================================================
