----------------------------- MODULE CursorProofs -----------------------------
(***************************************************************************)
(* Theorems about StreamCursor with Deputy's watermark, for any number of  *)
(* records, lanes, jobs, changes and faults.                               *)
(*                                                                         *)
(* A cursor covers a record when a walk that starts there, or the one      *)
(* after it, asks for it.  Landing and committing are separate steps, and  *)
(* a lane that has lost its lease still commits; so the invariant says of  *)
(* every cursor a later step may store, wherever it is, that it covers     *)
(* what has not landed.                                                    *)
(***************************************************************************)
EXTENDS StreamCursor, TLAPS

\* A cursor's times have passed, and a walk in progress has its bound.
Sound(c) ==
  /\ 1 <= c.mark /\ c.mark <= now
  /\ c.bound <= now
  /\ c.bound = 0 => c.after = 0

\* Cursor c may be stored: it covers what has not landed.
Safe(c) == Sound(c) /\ \A r \in Record : Unlanded(r) => Covers(c, r)

\* Cursor c may be stored once page has landed.
SafeAfter(c, page) ==
  Sound(c) /\ \A r \in Record : Unlanded(r) => Covers(c, r) \/ page[r] = ver[r]

StoredSafe == Safe(cursorRow.cursor) /\ cursorRow.mark = cursorRow.cursor.mark

JobsSafe == \A j \in openJobs : j.cursor # NoCursor => Safe(j.cursor)

\* What a lane's record x carries is safe: the cursor it fetches from, the page it
\* is about to land, the cursor it is about to commit or to publish.
CarriesSafe(x) ==
  /\ x.at = "fetch" => Safe(x.from)
  /\ x.at = "land" => SafeAfter(x.next, x.page)
  /\ x.at \in {"commit", "publish"} => Safe(x.next)
  /\ \A r \in Record : x.page[r] <= ver[r]

LaneSafe(l) == CarriesSafe(lane[l])

CursorInv ==
  /\ CursorTypeOK /\ now >= 1
  /\ StoredSafe
  /\ JobsSafe
  /\ \A l \in Lane : LaneSafe(l)

-------------------------------------------------------------------------------
LaneRecord == [at : Step, job : Job, leased : BOOLEAN, from : Cursor,
               page : [Record -> Nat], more : BOOLEAN, next : Cursor]

\* The constants' types that arithmetic needs.
LEMMA Constants ==
  ASSUME CursorAssumption, CursorTypeOK
  PROVE  /\ now \in Nat /\ now <= MaxTime /\ MaxTime \in Nat
         /\ Record \subseteq Nat /\ \A r \in Record : r >= 1
         /\ \A r \in Record : mod[r] \in Nat /\ mod[r] <= now
         /\ \A r \in Record : landed[r] \in Nat /\ ver[r] \in Nat
         /\ \A t \in Time : t \in Nat
         /\ \A c \in Cursor : c.mark \in Nat /\ c.after \in Nat /\ c.bound \in Nat
BY DEF CursorAssumption, CursorTypeOK, Time, Record, Cursor

\* An idle lane's fields are typed.
LEMMA IdleTypes ==
  ASSUME CursorAssumption, now \in Time, 1 <= now
  PROVE  /\ \A t \in Time : Rest(t) \in Cursor
         /\ Blank \in [Record -> Nat]
         /\ IdleLane \in LaneRecord
<1>1. \A t \in Time : Rest(t) \in Cursor
  BY DEF CursorAssumption, Cursor, Rest, Time
<1>2. Blank \in [Record -> Nat]
  BY DEF Blank
<1>3. 0 \in Time
  BY DEF Time, CursorAssumption
<1> QED
  BY <1>1, <1>2, <1>3 DEF IdleLane, LaneRecord, Step, Job

\* A page and the cursor that follows it are typed, and the page is no newer than
\* the vendor's records.
LEMMA PageTypes ==
  ASSUME CursorAssumption, CursorTypeOK, now >= 1, NEW c \in Cursor, NEW answer \in DeputyPages(c)
  PROVE  /\ answer.page \in [Record -> Nat]
         /\ answer.more \in BOOLEAN
         /\ answer.next \in Cursor
         /\ \A r \in Record : answer.page[r] <= ver[r]
<1> DEFINE high == IF c.bound # 0 THEN c.bound ELSE now
           found == {r \in Modified(c.after, c.mark) : mod[r] < high}
<1>1. high \in Time
  BY DEF CursorTypeOK, Cursor
<1>2. ASSUME NEW page \in SUBSET Record, NEW more \in BOOLEAN, NEW next \in Cursor
      PROVE  /\ Answer(page, more, next).page \in [Record -> Nat]
             /\ Answer(page, more, next).more \in BOOLEAN
             /\ Answer(page, more, next).next \in Cursor
             /\ \A r \in Record : Answer(page, more, next).page[r] <= ver[r]
  BY Constants DEF Answer, CursorTypeOK
<1>3. found \in SUBSET Record
  BY DEF Modified
<1>4. CASE answer = Answer(found, FALSE, Rest(high))
  <2>1. Rest(high) \in Cursor
    BY <1>1, IdleTypes DEF CursorTypeOK
  <2> QED
    BY <1>2, <1>3, <1>4, <2>1
<1>5. ASSUME NEW last \in found,
             answer = Answer({r \in found : r <= last}, TRUE,
                             [c EXCEPT !.after = last, !.bound = high])
      PROVE  /\ answer.page \in [Record -> Nat]
             /\ answer.more \in BOOLEAN
             /\ answer.next \in Cursor
             /\ \A r \in Record : answer.page[r] <= ver[r]
  <2>1. last \in 0 .. LastRecord
    BY <1>3 DEF Record, CursorAssumption
  <2>2. [c EXCEPT !.after = last, !.bound = high] \in Cursor
    BY <1>1, <2>1 DEF Cursor
  <2> HIDE DEF found, high
  <2>3. {r \in found : r <= last} \in SUBSET Record
    BY <1>3
  <2> QED
    BY <1>2, <1>5, <2>2, <2>3
<1> QED
  BY <1>4, <1>5 DEF DeputyPages, DeputyWalk, UpTo

\* What a walk fetches from a safe cursor may be landed, and then the cursor that
\* follows it may be stored.
LEMMA PageIsSafe ==
  ASSUME CursorAssumption, CursorTypeOK, now >= 1,
         NEW c \in Cursor, Safe(c), NEW answer \in DeputyPages(c)
  PROVE  SafeAfter(answer.next, answer.page)
<1> DEFINE high == IF c.bound # 0 THEN c.bound ELSE now
           found == {r \in Modified(c.after, c.mark) : mod[r] < high}
<1>1. high \in Nat /\ 1 <= high /\ high <= now
  BY Constants DEF Safe, Sound
<1>2. ASSUME NEW r \in Record, Unlanded(r), mod[r] < high
      PROVE  r \in found
  <2>1. r > c.after /\ mod[r] >= c.mark
    BY <1>2, Constants DEF Safe, Covers
  <2>2. ver[r] > 0
    BY <1>2, Constants DEF Unlanded
  <2> QED
    BY <1>2, <2>1, <2>2 DEF Modified
<1>3. CASE answer = Answer(found, FALSE, Rest(high))
  <2>1. answer.next = Rest(high) /\ \A r \in found : answer.page[r] = ver[r]
    BY <1>3 DEF Answer, Modified
  <2> HIDE DEF found, high
  <2>2. Sound(Rest(high))
    BY <1>1, Constants DEF Sound, Rest
  <2>3. ASSUME NEW r \in Record, Unlanded(r)
        PROVE  Covers(Rest(high), r) \/ answer.page[r] = ver[r]
    <3>1. CASE mod[r] < high
      BY <3>1, <2>3, <1>2, <2>1
    <3>2. CASE mod[r] >= high
      BY <3>2, Constants DEF Covers, Rest
    <3> QED
      BY <3>1, <3>2, <1>1, Constants
  <2> QED
    BY <2>1, <2>2, <2>3 DEF SafeAfter
<1>4. ASSUME NEW last \in found,
             answer = Answer({r \in found : r <= last}, TRUE,
                             [c EXCEPT !.after = last, !.bound = high])
      PROVE  SafeAfter(answer.next, answer.page)
  <2> DEFINE next == [c EXCEPT !.after = last, !.bound = high]
  <2>1. found \subseteq Record /\ \A r \in found : mod[r] >= c.mark
    BY DEF Modified
  <2>2. /\ answer.next = next
        /\ \A r \in found : r <= last => answer.page[r] = ver[r]
    BY <1>4, <2>1 DEF Answer
  <2>3. next.mark = c.mark /\ next.after = last /\ next.bound = high
    BY DEF Cursor
  <2> HIDE DEF found, high, next
  <2>4. Sound(next)
    BY <1>1, <2>3, Constants DEF Sound, Safe
  <2>5. ASSUME NEW r \in Record, Unlanded(r)
        PROVE  Covers(next, r) \/ answer.page[r] = ver[r]
    <3>1. CASE mod[r] >= high
      BY <3>1, <1>1, <2>3 DEF Covers
    <3>2. CASE mod[r] < high /\ r <= last
      BY <3>2, <2>5, <1>2, <2>2
    <3>3. CASE mod[r] < high /\ r > last
      BY <3>3, <2>5, <1>2, <2>1, <2>3 DEF Covers
    <3> QED
      BY <3>1, <3>2, <3>3, <1>1, <2>1, Constants
  <2> QED
    BY <2>2, <2>4, <2>5 DEF SafeAfter
<1> QED
  BY <1>3, <1>4 DEF DeputyPages, DeputyWalk, UpTo

-------------------------------------------------------------------------------
\* The initial cursor covers everything, for everything has landed.
LEMMA InitCursor == ASSUME CursorAssumption, Bounded PROVE CursorInit => CursorInv
<1> SUFFICES ASSUME CursorInit PROVE CursorInv
  OBVIOUS
<1> USE DEF CursorInit
<1>1. now = 1 /\ now \in Time /\ MaxTime \in Nat \ {0}
  BY DEF Time, CursorAssumption
<1>2. /\ cursorRow.cursor = [mark |-> 1, after |-> 0, bound |-> 1, pass |-> 0]
      /\ cursorRow.mark = 1 /\ cursorRow.requested = 1
      /\ cursorRow = [cursor |-> cursorRow.cursor, mark |-> 1, requested |-> 1]
  BY DEF Rest
<1>3. cursorRow.cursor \in Cursor
  BY <1>1, <1>2 DEF Cursor, Time, CursorAssumption
<1>4. PICK n \in 0 .. LastRecord :
        /\ ver = [r \in Record |-> IF r <= n THEN 1 ELSE 0]
        /\ mod = [r \in Record |-> IF r <= n THEN 1 ELSE 0]
        /\ landed = ver
  OBVIOUS
<1>5. lane \in [Lane -> LaneRecord]
  BY <1>1, IdleTypes
<1>6. CursorTypeOK
  <2>1. mod \in [Record -> 0 .. now] /\ ver \in [Record -> Nat] /\ landed \in [Record -> Nat]
    BY <1>1, <1>4
  <2>2. \A r \in Record : landed[r] <= ver[r]
    BY <1>4, <2>1
  <2>3. cursorRow \in [cursor : Cursor, mark : Time, requested : Time]
    BY <1>1, <1>2, <1>3
  <2>4. changes \in 0 .. MaxChanges /\ disturbances \in 0 .. MaxDisturbances
    BY DEF CursorAssumption
  <2> QED
    BY <1>1, <1>5, <2>1, <2>2, <2>3, <2>4 DEF CursorTypeOK, LaneRecord
<1>7. StoredSafe
  <2>1. \A r \in Record : ~Unlanded(r)
    BY <1>4, <1>6 DEF Unlanded, CursorTypeOK
  <2> QED
    BY <1>1, <1>2, <2>1 DEF StoredSafe, Safe, Sound
<1>8. JobsSafe
  BY DEF JobsSafe
<1>9. \A l \in Lane : LaneSafe(l)
  BY <1>6, Constants DEF LaneSafe, CarriesSafe, IdleLane, Blank
<1> QED
  BY <1>1, <1>6, <1>7, <1>8, <1>9 DEF CursorInv

\* Lane l's record is replaced by another of its type.
LEMMA LaneTypes ==
  ASSUME lane \in [Lane -> LaneRecord], NEW l \in Lane, NEW x \in LaneRecord,
         lane' = [lane EXCEPT ![l] = x]
  PROVE  lane' \in [Lane -> LaneRecord] /\ lane'[l] = x /\ \A m \in Lane \ {l} : lane'[m] = lane[m]
OBVIOUS

\* What each step makes of lane l, as one record.
LEMMA LaneMoves ==
  ASSUME CursorAssumption, Bounded, CursorTypeOK, now >= 1, NEW l \in Lane
  PROVE  /\ Claim(l) => \E j \in openJobs : lane' = [lane EXCEPT ![l] = [IdleLane EXCEPT
              !.at = "fetch", !.job = j, !.leased = TRUE,
              !.from = IF j.cursor = NoCursor THEN cursorRow.cursor ELSE j.cursor]]
         /\ Fetch(l) => \E answer \in DeputyPages(lane[l].from) :
              lane' = [lane EXCEPT ![l] = [lane[l] EXCEPT
                !.at = "land", !.from = Rest(0), !.page = answer.page, !.more = answer.more,
                !.next = answer.next]]
         /\ LandPage(l) => lane' = [lane EXCEPT ![l] = [lane[l] EXCEPT !.at = "commit", !.page = Blank]]
         /\ Commit(l) => lane' = [lane EXCEPT ![l] = [lane[l] EXCEPT
              !.at = IF lane[l].more THEN "publish" ELSE "close"]]
         /\ PublishNext(l) => lane' = [lane EXCEPT ![l] = [lane[l] EXCEPT !.at = "close"]]
         /\ LapseClaim(l) => lane' = [lane EXCEPT ![l] = [lane[l] EXCEPT !.leased = FALSE]]
         /\ Close(l) \/ LoseClaim(l) \/ Fail(l) => lane' = [lane EXCEPT ![l] = IdleLane]
<1>1. lane \in [Lane -> LaneRecord]
  BY DEF CursorTypeOK, LaneRecord
<1>2. Claim(l) => \E j \in openJobs : lane' = [lane EXCEPT ![l] = [IdleLane EXCEPT
        !.at = "fetch", !.job = j, !.leased = TRUE,
        !.from = IF j.cursor = NoCursor THEN cursorRow.cursor ELSE j.cursor]]
  BY DEF Claim
<1>3. Fetch(l) => \E answer \in DeputyPages(lane[l].from) :
        lane' = [lane EXCEPT ![l] = [lane[l] EXCEPT
          !.at = "land", !.from = Rest(0), !.page = answer.page, !.more = answer.more,
          !.next = answer.next]]
  BY <1>1 DEF Fetch, Pages, LaneRecord
<1>4. LandPage(l) => lane' = [lane EXCEPT ![l] = [lane[l] EXCEPT !.at = "commit", !.page = Blank]]
  BY <1>1 DEF LandPage, LaneRecord
<1>5. Commit(l) => lane' = [lane EXCEPT ![l] = [lane[l] EXCEPT
        !.at = IF lane[l].more THEN "publish" ELSE "close"]]
  BY <1>1 DEF Commit, LaneRecord
<1>6. PublishNext(l) => lane' = [lane EXCEPT ![l] = [lane[l] EXCEPT !.at = "close"]]
  BY <1>1 DEF PublishNext, LaneRecord
<1>7. LapseClaim(l) => lane' = [lane EXCEPT ![l] = [lane[l] EXCEPT !.leased = FALSE]]
  BY <1>1 DEF LapseClaim, LaneRecord
<1>8. Close(l) \/ LoseClaim(l) \/ Fail(l) => lane' = [lane EXCEPT ![l] = IdleLane]
  BY DEF Close, LoseClaim, Fail
<1> QED
  BY <1>2, <1>3, <1>4, <1>5, <1>6, <1>7, <1>8

LaneStep(l) == Work(l) \/ LapseClaim(l) \/ Fail(l)

\* A lane's step keeps the type of every lane's record and moves no other lane.
LEMMA LaneStepTypes ==
  ASSUME CursorAssumption, Bounded, CursorInv, NEW l \in Lane, LaneStep(l)
  PROVE  lane' \in [Lane -> LaneRecord] /\ \A m \in Lane \ {l} : lane'[m] = lane[m]
<1>1. /\ CursorTypeOK /\ now >= 1 /\ now \in Time
      /\ lane \in [Lane -> LaneRecord] /\ lane[l] \in LaneRecord
      /\ openJobs \subseteq Job /\ cursorRow.cursor \in Cursor
  BY DEF CursorInv, CursorTypeOK, LaneRecord
<1>2. IdleLane \in LaneRecord /\ Rest(0) \in Cursor /\ Blank \in [Record -> Nat]
  <2>1. 0 \in Time
    BY DEF Time, CursorAssumption
  <2> QED
    BY <1>1, <2>1, IdleTypes
<1> SUFFICES \E x \in LaneRecord : lane' = [lane EXCEPT ![l] = x]
  BY <1>1, LaneTypes
<1>3. CASE Claim(l)
  <2>1. PICK j \in openJobs : lane' = [lane EXCEPT ![l] = [IdleLane EXCEPT
          !.at = "fetch", !.job = j, !.leased = TRUE,
          !.from = IF j.cursor = NoCursor THEN cursorRow.cursor ELSE j.cursor]]
    BY <1>1, <1>3, LaneMoves
  <2>2. j \in Job /\ (IF j.cursor = NoCursor THEN cursorRow.cursor ELSE j.cursor) \in Cursor
    BY <1>1 DEF Job
  <2> QED
    BY <1>2, <2>1, <2>2 DEF LaneRecord, Step
<1>4. CASE Fetch(l)
  <2>1. PICK answer \in DeputyPages(lane[l].from) :
          lane' = [lane EXCEPT ![l] = [lane[l] EXCEPT
            !.at = "land", !.from = Rest(0), !.page = answer.page, !.more = answer.more,
            !.next = answer.next]]
    BY <1>1, <1>4, LaneMoves
  <2>2. lane[l].from \in Cursor
    BY <1>1 DEF LaneRecord
  <2>3. answer.page \in [Record -> Nat] /\ answer.more \in BOOLEAN /\ answer.next \in Cursor
    BY <1>1, <2>2, PageTypes
  <2> QED
    BY <1>1, <1>2, <2>1, <2>3 DEF LaneRecord, Step
<1>5. CASE LandPage(l)
  <2>1. lane' = [lane EXCEPT ![l] = [lane[l] EXCEPT !.at = "commit", !.page = Blank]]
    BY <1>1, <1>5, LaneMoves
  <2> QED
    BY <1>1, <1>2, <2>1 DEF LaneRecord, Step
<1>6. CASE Commit(l)
  <2>1. lane' = [lane EXCEPT ![l] = [lane[l] EXCEPT
                   !.at = IF lane[l].more THEN "publish" ELSE "close"]]
    BY <1>1, <1>6, LaneMoves
  <2> QED
    BY <1>1, <2>1 DEF LaneRecord, Step
<1>7. CASE PublishNext(l)
  <2>1. lane' = [lane EXCEPT ![l] = [lane[l] EXCEPT !.at = "close"]]
    BY <1>1, <1>7, LaneMoves
  <2> QED
    BY <1>1, <2>1 DEF LaneRecord, Step
<1>8. CASE LapseClaim(l)
  <2>1. lane' = [lane EXCEPT ![l] = [lane[l] EXCEPT !.leased = FALSE]]
    BY <1>1, <1>8, LaneMoves
  <2>2. [lane[l] EXCEPT !.leased = FALSE] \in LaneRecord
    BY <1>1 DEF LaneRecord
  <2> QED
    BY <2>1, <2>2
<1>9. CASE Close(l) \/ LoseClaim(l) \/ Fail(l)
  BY <1>1, <1>2, <1>9, LaneMoves
<1> QED
  BY <1>3, <1>4, <1>5, <1>6, <1>7, <1>8, <1>9 DEF LaneStep, Work

\* A step leaves the clock, what has landed and the vendor's records as they are,
\* or moves them forward; a record that is changed is changed now.
LEMMA Progress ==
  ASSUME CursorAssumption, CursorInv, [CursorNext]_cursorVars
  PROVE  /\ now' \in Time /\ now <= now'
         /\ mod' \in [Record -> 0 .. now'] /\ ver' \in [Record -> Nat]
         /\ landed' \in [Record -> Nat]
         /\ \A r \in Record : /\ ver[r] <= ver'[r] /\ landed[r] <= landed'[r]
                              /\ landed'[r] <= ver'[r]
                              /\ \/ ver'[r] = ver[r] /\ mod'[r] = mod[r]
                                 \/ mod'[r] = now
<1>1. /\ CursorTypeOK /\ now >= 1 /\ now \in Time /\ now \in Nat /\ MaxTime \in Nat
      /\ mod \in [Record -> 0 .. now] /\ ver \in [Record -> Nat] /\ landed \in [Record -> Nat]
      /\ \A r \in Record : landed[r] <= ver[r]
  BY DEF CursorInv, CursorTypeOK, Time, CursorAssumption
<1>2. CASE UNCHANGED <<now, mod, ver, landed>>
  BY <1>1, <1>2
<1>3. CASE Tick
  BY <1>1, <1>3 DEF Tick, Time
<1>4. ASSUME NEW r \in Record, Change(r)
      PROVE  /\ now' = now /\ landed' = landed
             /\ mod' = [mod EXCEPT ![r] = now] /\ ver' = [ver EXCEPT ![r] = @ + 1]
  BY <1>4 DEF Change
<1>5. CASE \E r \in Record : Change(r)
  BY <1>1, <1>4, <1>5
<1>6. ASSUME NEW l \in Lane, LandPage(l)
      PROVE  /\ UNCHANGED <<now, mod, ver>>
             /\ landed' = [r \in Record |-> Greatest(landed[r], lane[l].page[r])]
             /\ lane[l].page \in [Record -> Nat]
             /\ \A r \in Record : lane[l].page[r] <= ver[r]
  BY <1>6, <1>1 DEF LandPage, vendor, CursorInv, LaneSafe, CarriesSafe, CursorTypeOK
<1>7. CASE \E l \in Lane : LandPage(l)
  <2>1. PICK l \in Lane : LandPage(l)
    BY <1>7
  <2>2. \A r \in Record : /\ Greatest(landed[r], lane[l].page[r]) \in Nat
                          /\ landed[r] <= Greatest(landed[r], lane[l].page[r])
                          /\ Greatest(landed[r], lane[l].page[r]) <= ver[r]
    BY <1>1, <1>6, <2>1 DEF Greatest
  <2> QED
    BY <1>1, <1>6, <2>1, <2>2
<1>8. CASE \E l \in Lane : LaneStep(l) /\ ~LandPage(l)
  BY <1>2, <1>8 DEF LaneStep, Work, Claim, Fetch, Commit, PublishNext, Close, LoseClaim,
                    LapseClaim, Fail, vendor
<1>9. CASE Schedule \/ Signal \/ UNCHANGED cursorVars
  BY <1>2, <1>9 DEF Schedule, Signal, cursorVars, vendor
<1> QED
  BY <1>3, <1>5, <1>7, <1>8, <1>9 DEF CursorNext, LaneStep

\* What a cursor covers, it still covers after any step, or it has landed: a change
\* is never older than a cursor that exists when it is made.
LEMMA SafetyLasts ==
  ASSUME CursorAssumption, CursorInv, [CursorNext]_cursorVars, NEW c \in Cursor
  PROVE  /\ Sound(c) => Sound(c)'
         /\ Safe(c) => Safe(c)'
         /\ \A page \in [Record -> Nat] : SafeAfter(c, page) => SafeAfter(c, page)'
<1>1. /\ CursorTypeOK /\ now \in Nat /\ now' \in Nat /\ now <= now'
      /\ c.mark \in Nat /\ c.bound \in Nat /\ c.after \in Nat
      /\ \A r \in Record : r \in Nat /\ r >= 1
  BY Progress, Constants DEF CursorInv, Time, CursorAssumption
<1>2. Sound(c) => Sound(c)'
  BY <1>1 DEF Sound
<1>3. ASSUME Sound(c), NEW r \in Record, Unlanded(r)'
      PROVE  Covers(c, r)' \/ (ver'[r] = ver[r] /\ Unlanded(r) /\ (Covers(c, r) => Covers(c, r)'))
  <2>1. CASE ver'[r] = ver[r] /\ mod'[r] = mod[r]
    <3>1. Unlanded(r)
      BY <1>1, <1>3, <2>1, Progress, Constants DEF Unlanded
    <3> QED
      BY <2>1, <3>1 DEF Covers
  <2>2. CASE mod'[r] = now
    BY <1>1, <1>3, <2>2 DEF Covers, Sound
  <2> QED
    BY <2>1, <2>2, Progress
<1>4. Safe(c) => Safe(c)'
  BY <1>2, <1>3 DEF Safe
<1>5. ASSUME NEW page \in [Record -> Nat]
      PROVE  SafeAfter(c, page) => SafeAfter(c, page)'
  BY <1>2, <1>3 DEF SafeAfter
<1> QED
  BY <1>2, <1>4, <1>5

\* Who writes what.
LEMMA Writers ==
  ASSUME CursorAssumption, Bounded, CursorInv, [CursorNext]_cursorVars
  PROVE  /\ cursorRow' = cursorRow \/ \E l \in Lane : Commit(l)
         /\ openJobs' \subseteq openJobs \/ Schedule \/ Signal \/ \E l \in Lane : PublishNext(l)
         /\ published' = published \/ \E l \in Lane : PublishNext(l)
         /\ \A l \in Lane : lane'[l] = lane[l] \/ LaneStep(l)
         /\ lane' \in [Lane -> LaneRecord]
         /\ changes' \in 0 .. MaxChanges /\ disturbances' \in 0 .. MaxDisturbances
<1>1. /\ lane \in [Lane -> LaneRecord]
      /\ changes \in 0 .. MaxChanges /\ disturbances \in 0 .. MaxDisturbances
      /\ MaxChanges \in Nat /\ MaxDisturbances \in Nat
  BY DEF CursorInv, CursorTypeOK, LaneRecord, CursorAssumption
<1>2. CASE Tick \/ Schedule \/ Signal \/ (\E r \in Record : Change(r)) \/ UNCHANGED cursorVars
  BY <1>1, <1>2 DEF Tick, Schedule, Signal, Change, cursorVars, vendor
<1>3. ASSUME NEW l \in Lane, LaneStep(l)
      PROVE  /\ cursorRow' = cursorRow \/ Commit(l)
             /\ openJobs' \subseteq openJobs \/ PublishNext(l)
             /\ published' = published \/ PublishNext(l)
             /\ \A m \in Lane : lane'[m] = lane[m] \/ LaneStep(m)
             /\ lane' \in [Lane -> LaneRecord]
             /\ changes' \in 0 .. MaxChanges /\ disturbances' \in 0 .. MaxDisturbances
  <2>1. lane' \in [Lane -> LaneRecord] /\ \A m \in Lane : lane'[m] = lane[m] \/ LaneStep(m)
    BY <1>3, LaneStepTypes
  <2>2. /\ cursorRow' = cursorRow \/ Commit(l)
        /\ openJobs' \subseteq openJobs \/ PublishNext(l)
        /\ published' = published \/ PublishNext(l)
        /\ changes' = changes /\ (disturbances' = disturbances \/ Disturb)
    BY <1>3 DEF LaneStep, Work, Claim, Fetch, LandPage, Commit, PublishNext, Close, LoseClaim,
                LapseClaim, Fail, vendor
  <2>3. disturbances' \in 0 .. MaxDisturbances
    BY <1>1, <2>2 DEF Disturb
  <2> QED
    BY <1>1, <2>1, <2>2, <2>3
<1> QED
  BY <1>2, <1>3 DEF CursorNext, LaneStep

\* Every step keeps the types.
LEMMA TypesStep ==
  ASSUME CursorAssumption, Bounded, CursorInv, [CursorNext]_cursorVars
  PROVE  CursorTypeOK'
<1>1. /\ lane \in [Lane -> LaneRecord] /\ now \in Time
      /\ cursorRow \in [cursor : Cursor, mark : Time, requested : Time]
      /\ openJobs \subseteq Job /\ published \subseteq Cursor
  BY DEF CursorInv, CursorTypeOK, LaneRecord
<1>2. \A l \in Lane : lane[l].next \in Cursor /\ lane[l].job.requested \in Time
  BY <1>1 DEF LaneRecord, Job
<1>3. cursorRow' \in [cursor : Cursor, mark : Time, requested : Time]
  <2>1. ASSUME NEW l \in Lane, Commit(l)
        PROVE  cursorRow' \in [cursor : Cursor, mark : Time, requested : Time]
    <3>1. lane[l].next.mark \in Time
      BY <1>2 DEF Cursor
    <3>2. Greatest(cursorRow.mark, lane[l].next.mark) \in Time
      BY <1>1, <3>1 DEF Greatest
    <3> QED
      BY <1>1, <1>2, <2>1, <3>2 DEF Commit
  <2> QED
    BY <1>1, <2>1, Writers
<1>4. openJobs' \subseteq Job /\ published' \subseteq Cursor
  <2>1. CASE Schedule \/ Signal
    <3>1. \A t \in 1 .. now : t \in Time
      BY <1>1 DEF Time, CursorAssumption
    <3> QED
      BY <1>1, <2>1, <3>1 DEF Schedule, Signal, Job
  <2>2. ASSUME NEW l \in Lane, PublishNext(l)
        PROVE  openJobs' \subseteq Job /\ published' \subseteq Cursor
    BY <1>1, <1>2, <2>2 DEF PublishNext, Job
  <2> QED
    BY <2>1, <2>2, <1>1, Writers
<1> QED
  BY <1>3, <1>4, Progress, Writers DEF CursorTypeOK, LaneRecord

\* A commit leaves the stored cursor's watermark where it is or moves it up, and
\* stores a cursor that covers what has not landed.
LEMMA CommitIsSafe ==
  ASSUME CursorAssumption, Bounded, CursorInv, NEW l \in Lane, Commit(l)
  PROVE  /\ cursorRow'.cursor \in {cursorRow.cursor, lane[l].next}
         /\ cursorRow'.mark = cursorRow'.cursor.mark
         /\ cursorRow'.cursor.mark >= cursorRow.cursor.mark
<1> DEFINE c == lane[l].next
           t == lane[l].job.requested
<1>1. /\ lane[l] \in LaneRecord
      /\ cursorRow \in [cursor : Cursor, mark : Time, requested : Time]
  BY DEF CursorInv, CursorTypeOK, LaneRecord
<1>2. Sound(c)
  BY DEF CursorInv, LaneSafe, CarriesSafe, Commit, Safe
<1>3. cursorRow.mark = cursorRow.cursor.mark /\ Sound(cursorRow.cursor)
  BY DEF CursorInv, StoredSafe, Safe
<1>4. c.mark \in Nat /\ cursorRow.mark \in Nat /\ c.mark >= 1 /\ cursorRow.mark >= 1
  BY <1>1, <1>2, <1>3, Constants DEF LaneRecord, CursorInv, Sound
<1>5. cursorRow' = [cursor    |-> IF Newer(c, t) THEN c ELSE cursorRow.cursor,
                 mark      |-> Greatest(cursorRow.mark, c.mark),
                 requested |-> IF Newer(c, t) THEN t ELSE cursorRow.requested]
  BY DEF Commit
<1> HIDE DEF c, t
<1>6. CASE Newer(c, t)
  <2>1. c.mark >= cursorRow.mark
    BY <1>4, <1>6 DEF Newer
  <2>2. cursorRow'.cursor = c /\ cursorRow'.mark = c.mark
    BY <1>4, <1>5, <1>6, <2>1 DEF Greatest
  <2> QED
    BY <1>3, <2>1, <2>2 DEF c
<1>7. CASE ~Newer(c, t)
  <2>1. c.mark <= cursorRow.mark
    BY <1>4, <1>7 DEF Newer
  <2>2. cursorRow'.cursor = cursorRow.cursor /\ cursorRow'.mark = cursorRow.mark
    BY <1>4, <1>5, <1>7, <2>1 DEF Greatest
  <2> QED
    BY <1>3, <1>4, <2>2
<1> QED
  BY <1>6, <1>7

\* What a lane carries stays safe while it stands.
LEMMA CarriedSafetyLasts ==
  ASSUME CursorAssumption, CursorInv, [CursorNext]_cursorVars, NEW x \in LaneRecord, CarriesSafe(x)
  PROVE  CarriesSafe(x)'
<1>1. x.from \in Cursor /\ x.next \in Cursor /\ x.page \in [Record -> Nat]
  BY DEF LaneRecord
<1>2. \A r \in Record : x.page[r] <= ver'[r]
  BY <1>1, Progress, Constants DEF CarriesSafe, CursorInv
<1> QED
  BY <1>1, <1>2, SafetyLasts DEF CarriesSafe

\* What lane l carries after its own step is safe: at once, or, when it has landed
\* a page, because the page has landed.
LEMMA LaneStepIsSafe ==
  ASSUME CursorAssumption, Bounded, CursorInv, [CursorNext]_cursorVars, NEW l \in Lane, LaneStep(l)
  PROVE  LaneSafe(l)'
<1>1. /\ CursorTypeOK /\ now >= 1 /\ CarriesSafe(lane[l]) /\ lane[l] \in LaneRecord
      /\ lane \in [Lane -> LaneRecord] /\ lane'[l] \in LaneRecord
      /\ cursorRow.cursor \in Cursor /\ Safe(cursorRow.cursor) /\ JobsSafe
      /\ \A r \in Record : ver[r] \in Nat
  BY Writers DEF CursorInv, LaneSafe, StoredSafe, CursorTypeOK, LaneRecord
<1>2. ASSUME NEW x \in LaneRecord, x = lane'[l], CarriesSafe(x)
      PROVE  LaneSafe(l)'
  <2>1. CarriesSafe(x)'
    BY <1>2, CarriedSafetyLasts
  <2> QED
    BY <1>2, <2>1 DEF LaneSafe, CarriesSafe
<1>3. CASE Claim(l)
  <2>1. PICK j \in openJobs : lane' = [lane EXCEPT ![l] = [IdleLane EXCEPT
          !.at = "fetch", !.job = j, !.leased = TRUE,
          !.from = IF j.cursor = NoCursor THEN cursorRow.cursor ELSE j.cursor]]
    BY <1>1, <1>3, LaneMoves
  <2>2. /\ lane'[l].at = "fetch" /\ lane'[l].page = Blank
        /\ lane'[l].from = IF j.cursor = NoCursor THEN cursorRow.cursor ELSE j.cursor
    BY <1>1, <2>1 DEF IdleLane
  <2>3. Safe(lane'[l].from)
    BY <1>1, <2>2 DEF JobsSafe
  <2> QED
    BY <1>1, <1>2, <2>2, <2>3 DEF CarriesSafe, Blank
<1>4. CASE Fetch(l)
  <2>1. PICK answer \in DeputyPages(lane[l].from) :
          lane' = [lane EXCEPT ![l] = [lane[l] EXCEPT
            !.at = "land", !.from = Rest(0), !.page = answer.page, !.more = answer.more,
            !.next = answer.next]]
    BY <1>1, <1>4, LaneMoves
  <2>2. lane'[l].at = "land" /\ lane'[l].page = answer.page /\ lane'[l].next = answer.next
    BY <1>1, <2>1 DEF LaneRecord
  <2>3. lane[l].from \in Cursor /\ Safe(lane[l].from)
    BY <1>1, <1>4 DEF Fetch, CarriesSafe, LaneRecord
  <2>4. SafeAfter(answer.next, answer.page) /\ \A r \in Record : answer.page[r] <= ver[r]
    BY <1>1, <2>3, PageIsSafe, PageTypes
  <2> QED
    BY <1>1, <1>2, <2>2, <2>4 DEF CarriesSafe
<1>5. CASE LandPage(l)
  <2>1. lane'[l].at = "commit" /\ lane'[l].page = Blank /\ lane'[l].next = lane[l].next
    <3>1. lane' = [lane EXCEPT ![l] = [lane[l] EXCEPT !.at = "commit", !.page = Blank]]
      BY <1>1, <1>5, LaneMoves
    <3> QED
      BY <1>1, <3>1 DEF LaneRecord
  <2>2. /\ lane[l].next \in Cursor /\ lane[l].page \in [Record -> Nat]
        /\ SafeAfter(lane[l].next, lane[l].page)
    BY <1>1, <1>5 DEF LandPage, CarriesSafe, LaneRecord
  <2>3. UNCHANGED <<now, mod, ver>>
        /\ \A r \in Record : lane[l].page[r] <= landed'[r] /\ landed[r] <= landed'[r]
    BY <1>1, <1>5, <2>2, Constants DEF LandPage, vendor, Greatest
  <2>4. ASSUME NEW c \in Cursor, c = lane'[l].next, SafeAfter(c, lane[l].page)
        PROVE  LaneSafe(l)'
    <3>1. Sound(c)'
      BY <2>4, SafetyLasts DEF SafeAfter
    <3>2. ASSUME NEW r \in Record, Unlanded(r)'
          PROVE  Covers(c, r)'
      <4>1. Unlanded(r) /\ lane[l].page[r] # ver[r]
        BY <1>1, <2>2, <2>3, <3>2, Constants, Progress DEF Unlanded
      <4>2. Covers(c, r)
        BY <2>4, <4>1 DEF SafeAfter
      <4> QED
        BY <2>3, <4>2 DEF Covers
    <3>3. Safe(c)'
      BY <3>1, <3>2 DEF Safe
    <3> QED
      BY <1>1, <2>1, <2>3, <2>4, <3>3 DEF LaneSafe, CarriesSafe, Blank
  <2> QED
    BY <2>1, <2>2, <2>4
<1>6. CASE Commit(l)
  <2>1. lane'[l].at \in {"publish", "close"}
        /\ lane'[l].page = lane[l].page /\ lane'[l].next = lane[l].next
    <3>1. lane' = [lane EXCEPT ![l] = [lane[l] EXCEPT
                     !.at = IF lane[l].more THEN "publish" ELSE "close"]]
      BY <1>1, <1>6, LaneMoves
    <3> QED
      BY <1>1, <3>1 DEF LaneRecord
  <2> QED
    BY <1>1, <1>2, <1>6, <2>1 DEF Commit, CarriesSafe
<1>7. CASE PublishNext(l)
  <2>1. lane'[l].at = "close" /\ lane'[l].page = lane[l].page
    <3>1. lane' = [lane EXCEPT ![l] = [lane[l] EXCEPT !.at = "close"]]
      BY <1>1, <1>7, LaneMoves
    <3> QED
      BY <1>1, <3>1 DEF LaneRecord
  <2> QED
    BY <1>1, <1>2, <2>1 DEF CarriesSafe
<1>8. CASE LapseClaim(l)
  <2>1. /\ lane'[l].at = lane[l].at /\ lane'[l].page = lane[l].page
        /\ lane'[l].from = lane[l].from /\ lane'[l].next = lane[l].next
    <3>1. lane' = [lane EXCEPT ![l] = [lane[l] EXCEPT !.leased = FALSE]]
      BY <1>1, <1>8, LaneMoves
    <3> QED
      BY <1>1, <3>1 DEF LaneRecord
  <2> QED
    BY <1>1, <1>2, <2>1 DEF CarriesSafe
<1>9. CASE Close(l) \/ LoseClaim(l) \/ Fail(l)
  <2>1. lane'[l] = IdleLane
    BY <1>1, <1>9, LaneMoves
  <2> QED
    BY <1>1, <1>2, <2>1 DEF CarriesSafe, IdleLane, Blank
<1> QED
  BY <1>3, <1>4, <1>5, <1>6, <1>7, <1>8, <1>9 DEF LaneStep, Work

\* Every step keeps the invariant.
LEMMA CursorStep ==
  ASSUME CursorAssumption, Bounded, CursorInv, [CursorNext]_cursorVars
  PROVE  CursorInv'
<1>1. /\ CursorTypeOK /\ now >= 1 /\ now \in Nat /\ now' \in Nat /\ now <= now'
      /\ lane \in [Lane -> LaneRecord] /\ openJobs \subseteq Job /\ cursorRow.cursor \in Cursor
  BY Progress DEF CursorInv, CursorTypeOK, LaneRecord, Time, CursorAssumption
<1>2. CursorTypeOK' /\ now' >= 1
  BY <1>1, TypesStep
<1>3. \A c \in Cursor : Safe(c) => Safe(c)'
  BY SafetyLasts
<1>4. StoredSafe'
  <2>1. CASE cursorRow' = cursorRow
    BY <1>1, <1>3, <2>1 DEF CursorInv, StoredSafe
  <2>2. ASSUME NEW l \in Lane, Commit(l)
        PROVE  StoredSafe'
    <3>1. lane[l].next \in Cursor /\ Safe(lane[l].next) /\ Safe(cursorRow.cursor)
      BY <1>1, <2>2 DEF CursorInv, LaneSafe, CarriesSafe, StoredSafe, Commit, LaneRecord
    <3>2. ASSUME NEW c \in Cursor, cursorRow'.cursor = c, Safe(c)
          PROVE  StoredSafe'
      BY <1>3, <2>2, <3>2, CommitIsSafe DEF StoredSafe
    <3> QED
      BY <1>1, <2>2, <3>1, <3>2, CommitIsSafe
  <2> QED
    BY <2>1, <2>2, Writers
<1>5. JobsSafe'
  <2>1. \A j \in openJobs : j.cursor # NoCursor => j.cursor \in Cursor /\ Safe(j.cursor)
    BY <1>1 DEF CursorInv, JobsSafe, Job
  <2>2. ASSUME \A j \in openJobs' : j.cursor # NoCursor => j.cursor \in Cursor /\ Safe(j.cursor)
        PROVE  JobsSafe'
    BY <1>3, <2>2 DEF JobsSafe
  <2>3. CASE openJobs' \subseteq openJobs
    BY <2>1, <2>2, <2>3
  <2>4. CASE Schedule
    BY <1>1, <2>1, <2>2, <2>4 DEF Schedule, CursorInv, StoredSafe
  <2>5. CASE Signal
    BY <2>1, <2>2, <2>5 DEF Signal
  <2>6. ASSUME NEW l \in Lane, PublishNext(l)
        PROVE  JobsSafe'
    <3>1. lane[l].next \in Cursor /\ Safe(lane[l].next)
      BY <1>1, <2>6 DEF PublishNext, CursorInv, LaneSafe, CarriesSafe, LaneRecord
    <3> QED
      BY <2>1, <2>2, <2>6, <3>1 DEF PublishNext
  <2> QED
    BY <2>3, <2>4, <2>5, <2>6, Writers
<1>6. ASSUME NEW l \in Lane
      PROVE  LaneSafe(l)'
  <2>1. LaneSafe(l) /\ lane[l] \in LaneRecord
    BY <1>1 DEF CursorInv
  <2>2. CASE lane'[l] = lane[l]
    <3>1. ASSUME NEW x \in LaneRecord, x = lane'[l], CarriesSafe(x)
          PROVE  LaneSafe(l)'
      <4>1. CarriesSafe(x)'
        BY <3>1, CarriedSafetyLasts
      <4> QED
        BY <3>1, <4>1 DEF LaneSafe, CarriesSafe
    <3> QED
      BY <2>1, <2>2, <3>1 DEF LaneSafe
  <2>3. CASE LaneStep(l)
    BY <2>3, LaneStepIsSafe DEF LaneSafe
  <2> QED
    BY <2>2, <2>3, Writers
<1> QED
  BY <1>2, <1>4, <1>5, <1>6 DEF CursorInv

-------------------------------------------------------------------------------
(* Theorems. *)

\* The invariant of the Deputy instance, for every value of the constants.
THEOREM CursorInvariant == ASSUME CursorAssumption, Bounded PROVE CursorSpec => []CursorInv
<1>1. CursorInit => CursorInv
  BY InitCursor
<1>2. CursorInv /\ [CursorNext]_cursorVars => CursorInv'
  BY CursorStep
<1> QED
  BY <1>1, <1>2, PTL DEF CursorSpec

\* The cursor's columns, the jobs and what every lane carries have their types, and
\* the store is never ahead of the vendor.
THEOREM CursorTypes == ASSUME CursorAssumption, Bounded PROVE CursorSpec => []CursorTypeOK
<1>1. CursorInv => CursorTypeOK
  BY DEF CursorInv
<1> QED
  BY <1>1, CursorInvariant, PTL

\* Whatever order pages are fetched, landed and committed in, by lanes with or
\* without their leases, no change is left behind the stored cursor.
THEOREM NoChangeIsSkipped ==
  ASSUME CursorAssumption, Bounded PROVE CursorSpec => []NothingSkipped
<1>1. CursorInv => NothingSkipped
  BY DEF CursorInv, StoredSafe, Safe, NothingSkipped
<1> QED
  BY <1>1, CursorInvariant, PTL

\* Pages committed late, again or out of order never move the watermark back.
THEOREM WatermarkStays == ASSUME CursorAssumption, Bounded PROVE CursorSpec => CursorNeverMovesBack
<1>1. CursorInv /\ [CursorNext]_cursorVars => [cursorRow'.cursor.mark >= cursorRow.cursor.mark]_cursorVars
  <2> SUFFICES ASSUME CursorInv, [CursorNext]_cursorVars
               PROVE  cursorRow'.cursor.mark >= cursorRow.cursor.mark
    OBVIOUS
  <2>1. cursorRow.cursor.mark \in Nat
    BY Constants DEF CursorInv, CursorTypeOK
  <2> QED
    BY <2>1, Writers, CommitIsSafe
<1> QED
  BY <1>1, CursorInvariant, PTL DEF CursorSpec, CursorNeverMovesBack

\* With Deputy's watermark incremental sync is what the product's specification
\* says of it, at-least-once: it is Lightspeed's watermark that is not.
THEOREM DeputyIsAtLeastOnce ==
  ASSUME CursorAssumption, Bounded PROVE CursorSpec => []AtLeastOnce
<1>1. CursorInv => AtLeastOnce
  <2> SUFFICES ASSUME CursorInv, cursorRow.cursor = Rest(cursorRow.cursor.mark),
                      NEW r \in Record, Unlanded(r)
               PROVE  mod[r] >= cursorRow.cursor.mark
    BY DEF AtLeastOnce
  <2>1. Covers(cursorRow.cursor, r)
    BY DEF CursorInv, StoredSafe, Safe
  <2>2. cursorRow.cursor.bound = 0
    BY DEF Rest
  <2> QED
    BY <2>1, <2>2 DEF Covers
<1> QED
  BY <1>1, CursorInvariant, PTL
===============================================================================
