------------------------------ MODULE StreamCursor ------------------------------
(***************************************************************************)
(* The incremental copy of one stream whose backfill is complete.  A job   *)
(* asks the vendor for the records modified since a cursor, one page at a  *)
(* time; each page is landed in the analytical store and its cursor merged *)
(* into the stream's row in the control plane, from which later jobs       *)
(* start.  Jobs of the scheduler, of webhooks and of earlier walks overlap *)
(* and are delivered at least once.                                        *)
(*                                                                         *)
(* Deputy fixes an upper bound when a walk starts and moves the watermark  *)
(* there when it ends.  Lightspeed moves it to the latest record seen.     *)
(* Both list records by ascending id.                                      *)
(***************************************************************************)
EXTENDS Naturals, FiniteSets

CONSTANTS
  LastRecord,   \* records are 1 .. LastRecord, their ids as the vendor issues them
  Hidden,       \* the records of the archived population, a pass of their own
  Bounded,      \* TRUE: Deputy's watermark; FALSE: Lightspeed's
  Lane,
  NoCursor,     \* the payload of a webhook's job has no cursor
  MaxTime,      \* bound: the clock, which the vendor and the workers share
  MaxChanges,   \* bound: changes of records
  MaxJobs,      \* bound: open jobs when another is published from outside
  MaxDisturbances     \* bound: lapsed leases, crashes, failures

Record == 1 .. LastRecord
Time == 0 .. MaxTime     \* 0 is "none": no watermark, no bound

\* What a cursor encodes: the watermark; the id after which the walk goes on, 0
\* between walks; the bound the walk started with (Deputy's rangeTo, or the filter
\* Lightspeed bakes into its continuation); the pass.
Cursor == [mark : Time, after : 0 .. LastRecord, bound : Time, pass : {0, 1}]

ASSUME CursorAssumption ==
  /\ LastRecord \in Nat
  /\ Hidden \subseteq Record
  /\ Bounded \in BOOLEAN
  /\ Bounded => Hidden = {}
  /\ MaxTime \in Nat \ {0}
  /\ MaxChanges \in Nat /\ MaxJobs \in Nat /\ MaxDisturbances \in Nat
  /\ NoCursor \notin Cursor

Job == [cursor : Cursor \cup {NoCursor}, requested : Time]

VARIABLES
  now,
  mod, ver,     \* the vendor's records: time and number of the last change
  landed,       \* the version of each record in the analytical store
  cursorRow,    \* the row of stream_cursors: cursor, source_watermark, requested_at
  openJobs,     \* open IncrementalSync jobs
  published,    \* cursors a continuation was published for: its idempotency keys
  lane,         \* lane[l]: its job and where the walk of its page is
  changes, disturbances

vendor == <<now, mod, ver, changes>>
cursorVars == <<now, mod, ver, landed, cursorRow, openJobs, published, lane, changes,
                disturbances>>

Rest(mark) == [mark |-> mark, after |-> 0, bound |-> 0, pass |-> 0]
Blank == [r \in Record |-> 0]
Step == {"idle", "fetch", "land", "commit", "publish", "close"}

IdleLane == [at |-> "idle", job |-> [cursor |-> NoCursor, requested |-> 0], leased |-> FALSE,
         from |-> Rest(0), page |-> Blank, more |-> FALSE, next |-> Rest(0)]

CursorTypeOK ==
  /\ now \in Time
  /\ mod \in [Record -> 0 .. now]
  /\ ver \in [Record -> Nat] /\ landed \in [Record -> Nat]
  /\ \A r \in Record : landed[r] <= ver[r]
  /\ cursorRow \in [cursor : Cursor, mark : Time, requested : Time]
  /\ openJobs \subseteq Job
  /\ published \subseteq Cursor
  /\ lane \in [Lane -> [at : Step, job : Job, leased : BOOLEAN, from : Cursor,
                        page : [Record -> Nat], more : BOOLEAN, next : Cursor]]
  /\ changes \in 0 .. MaxChanges /\ disturbances \in 0 .. MaxDisturbances

\* The backfill has landed what exists.  Deputy's leaves its range's end in the
\* cursor twice, as the watermark and as rangeTo.
CursorInit ==
  /\ now = 1
  /\ \E n \in 0 .. LastRecord :
       /\ ver = [r \in Record |-> IF r <= n THEN 1 ELSE 0]
       /\ mod = [r \in Record |-> IF r <= n THEN 1 ELSE 0]
       /\ landed = ver
       /\ \E mark \in IF Bounded \/ n > 0 THEN {1} ELSE {0} :
            cursorRow = [cursor |-> [Rest(mark) EXCEPT !.bound = IF Bounded THEN 1 ELSE 0],
                         mark |-> mark, requested |-> 1]
  /\ openJobs = {}
  /\ published = {}
  /\ lane = [l \in Lane |-> IdleLane]
  /\ changes = 0 /\ disturbances = 0

Disturb == disturbances < MaxDisturbances /\ disturbances' = disturbances + 1

-------------------------------------------------------------------------------
(* The vendor. *)

Tick ==
  /\ now < MaxTime
  /\ now' = now + 1
  /\ UNCHANGED <<mod, ver, landed, cursorRow, openJobs, published, lane, changes, disturbances>>

\* A record is changed, or the next one created.  Changes stop before the
\* clock does.
Change(r) ==
  /\ changes < MaxChanges /\ now < MaxTime
  /\ \A s \in 1 .. r - 1 : ver[s] > 0
  /\ mod' = [mod EXCEPT ![r] = now]
  /\ ver' = [ver EXCEPT ![r] = @ + 1]
  /\ changes' = changes + 1
  /\ UNCHANGED <<now, landed, cursorRow, openJobs, published, lane, disturbances>>

\* The records modified in a period, after an id.
Modified(after, low) == {r \in Record : ver[r] > 0 /\ r > after /\ mod[r] >= low}

Greatest(a, b) == IF a > b THEN a ELSE b

Answer(page, more, next) ==
  [page |-> [r \in Record |-> IF r \in page THEN ver[r] ELSE 0], more |-> more, next |-> next]

\* The bound of a Deputy walk at c, fixed when the walk starts.
UpTo(c) == IF c.bound # 0 THEN c.bound ELSE now

\* The records from c's watermark up to high, after which the walk rests at end, or
\* a full page of them.  A full page may be the last one.
DeputyWalk(c, high, end) ==
  LET found == {r \in Modified(c.after, c.mark) : mod[r] < high}
  IN {Answer(found, FALSE, end)}
     \cup {Answer({r \in found : r <= last}, TRUE, [c EXCEPT !.after = last, !.bound = high]) :
             last \in found}

\* Mutants of DeputyPages: the watermark moves to the time the walk ended; the last
\* page keeps its rangeTo.
DeputyPagesLate(c) == DeputyWalk(c, UpTo(c), Rest(now))
DeputyPagesStuck(c) == DeputyWalk(c, UpTo(c), [Rest(UpTo(c)) EXCEPT !.bound = UpTo(c)])

\* Deputy's answers to a request from cursor c.
DeputyPages(c) == DeputyWalk(c, UpTo(c), Rest(UpTo(c)))

\* Lightspeed's answers: the first request of a pass filters by the watermark of
\* its cursor, the following ones by what the first has asked for.
LightspeedPages(c) ==
  LET low == IF c.after = 0 THEN c.mark ELSE c.bound
      found == {r \in Modified(c.after, low) : (r \in Hidden) <=> (c.pass = 1)}
      seen(page) == CHOOSE t \in {c.mark} \cup {mod[r] : r \in page} :
                      \A u \in {c.mark} \cup {mod[r] : r \in page} : u <= t
      end == IF Hidden # {} /\ c.pass = 0
             THEN Answer(found, TRUE, [Rest(seen(found)) EXCEPT !.pass = 1])
             ELSE Answer(found, FALSE, Rest(seen(found)))
  IN {end}
     \cup {Answer({r \in found : r <= last}, TRUE,
                  [mark |-> seen({r \in found : r <= last}), after |-> last,
                   bound |-> low, pass |-> c.pass]) :
             last \in {r \in found : \E s \in found : s > r}}

Pages(c) == IF Bounded THEN DeputyPages(c) ELSE LightspeedPages(c)

-------------------------------------------------------------------------------
(* Jobs. *)

\* The scheduler puts the stored cursor into the payload.
Schedule ==
  /\ Cardinality(openJobs) < MaxJobs
  /\ openJobs' = openJobs \cup {[cursor |-> cursorRow.cursor, requested |-> now]}
  /\ UNCHANGED <<vendor, landed, cursorRow, published, lane, disturbances>>

\* A webhook's job reads the stored cursor when it is claimed.  It is as old as the
\* receipt of the webhook.
Signal ==
  /\ Cardinality(openJobs) < MaxJobs
  /\ \E received \in 1 .. now :
       openJobs' = openJobs \cup {[cursor |-> NoCursor, requested |-> received]}
  /\ UNCHANGED <<vendor, landed, cursorRow, published, lane, disturbances>>

Held(j) == \E l \in Lane : lane[l].at # "idle" /\ lane[l].job = j /\ lane[l].leased

Claim(l) ==
  /\ lane[l].at = "idle"
  /\ \E j \in openJobs :
       /\ ~Held(j)
       /\ lane' = [lane EXCEPT ![l] = [IdleLane EXCEPT
            !.at = "fetch", !.job = j, !.leased = TRUE,
            !.from = IF j.cursor = NoCursor THEN cursorRow.cursor ELSE j.cursor]]
  /\ UNCHANGED <<vendor, landed, cursorRow, openJobs, published, disturbances>>

-------------------------------------------------------------------------------
(* The walk of one page. *)

Fetch(l) ==
  /\ lane[l].at = "fetch"
  /\ \E answer \in Pages(lane[l].from) :
       lane' = [lane EXCEPT ![l].at = "land", ![l].from = Rest(0), ![l].page = answer.page,
                            ![l].more = answer.more, ![l].next = answer.next]
  /\ UNCHANGED <<vendor, landed, cursorRow, openJobs, published, disturbances>>

\* The newer version of a record is kept.  Landing needs the lease, and so does
\* the extension that precedes the commit.
LandPage(l) ==
  /\ lane[l].at = "land" /\ lane[l].leased
  /\ landed' = [r \in Record |-> Greatest(landed[r], lane[l].page[r])]
  /\ lane' = [lane EXCEPT ![l].at = "commit", ![l].page = Blank]
  /\ UNCHANGED <<vendor, cursorRow, openJobs, published, disturbances>>

\* Mutant of Newer: the last request wins.
NewerRequest(c, t) == t >= cursorRow.requested

\* The ON CONFLICT rule of commitPage within a generation: the later watermark
\* wins, and among equal ones, or without one, the later request.
Newer(c, t) ==
  IF c.mark = 0 THEN t >= cursorRow.requested
  ELSE \/ cursorRow.mark = 0
       \/ c.mark > cursorRow.mark
       \/ c.mark = cursorRow.mark /\ t >= cursorRow.requested

\* The commit itself asks for no lease.
Commit(l) ==
  /\ lane[l].at = "commit"
  /\ LET c == lane[l].next
         t == lane[l].job.requested
     IN cursorRow' = [cursor    |-> IF Newer(c, t) THEN c ELSE cursorRow.cursor,
                      mark      |-> Greatest(cursorRow.mark, c.mark),
                      requested |-> IF Newer(c, t) THEN t ELSE cursorRow.requested]
  /\ lane' = [lane EXCEPT ![l].at = IF lane[l].more THEN "publish" ELSE "close"]
  /\ UNCHANGED <<vendor, landed, openJobs, published, disturbances>>

\* The continuation's idempotency key is a digest of its cursor: what was continued
\* before is not continued again.  The digest also takes in the timestamps the walk
\* has seen, so two cursors that are equal here may still have different keys.
PublishNext(l) ==
  /\ lane[l].at = "publish"
  /\ LET c == lane[l].next
     IN /\ \/ openJobs' = openJobs \cup {[cursor |-> c, requested |-> now]}
           \/ c \in published /\ openJobs' = openJobs
        /\ published' = published \cup {c}
  /\ lane' = [lane EXCEPT ![l].at = "close"]
  /\ UNCHANGED <<vendor, landed, cursorRow, disturbances>>

Close(l) ==
  /\ lane[l].at = "close" /\ lane[l].leased
  /\ openJobs' = openJobs \ {lane[l].job}
  /\ lane' = [lane EXCEPT ![l] = IdleLane]
  /\ UNCHANGED <<vendor, landed, cursorRow, published, disturbances>>

\* A call that needs the lease is refused.
LoseClaim(l) ==
  /\ lane[l].at \in {"land", "close"} /\ ~lane[l].leased
  /\ lane' = [lane EXCEPT ![l] = IdleLane]
  /\ UNCHANGED <<vendor, landed, cursorRow, openJobs, published, disturbances>>

\* The visibility window passes: the job may be claimed again.
LapseClaim(l) ==
  /\ lane[l].at # "idle" /\ lane[l].leased
  /\ Disturb
  /\ lane' = [lane EXCEPT ![l].leased = FALSE]
  /\ UNCHANGED <<vendor, landed, cursorRow, openJobs, published>>

\* A step fails or the process dies.  The job is delivered again, or its
\* attempts are spent and it is dead-lettered.
Fail(l) ==
  /\ lane[l].at # "idle"
  /\ Disturb
  /\ lane' = [lane EXCEPT ![l] = IdleLane]
  /\ \/ openJobs' = openJobs
     \/ lane[l].leased /\ openJobs' = openJobs \ {lane[l].job}
  /\ UNCHANGED <<vendor, landed, cursorRow, published>>

-------------------------------------------------------------------------------
Work(l) ==
  \/ Claim(l) \/ Fetch(l) \/ LandPage(l) \/ Commit(l) \/ PublishNext(l) \/ Close(l)
  \/ LoseClaim(l)

CursorNext ==
  \/ Tick \/ Schedule \/ Signal
  \/ \E r \in Record : Change(r)
  \/ \E l \in Lane : Work(l) \/ LapseClaim(l) \/ Fail(l)

CursorSpec == CursorInit /\ [][CursorNext]_cursorVars

\* Time passes, the scheduler runs every five minutes and the lanes for ever.  It is
\* the bound MaxJobs, not the code, that makes the scheduler wait for other jobs.
CursorFairness ==
  /\ WF_cursorVars(Tick)
  /\ SF_cursorVars(Schedule)
  /\ \A l \in Lane : WF_cursorVars(Work(l))

CursorFairSpec == CursorSpec /\ CursorFairness

-------------------------------------------------------------------------------
(* Correctness. *)

Unlanded(r) == landed[r] < ver[r]

\* A Deputy walk that resumes at c, or the one after it, asks for record r.
Covers(c, r) ==
  \/ c.bound # 0 /\ mod[r] >= c.bound
  \/ r > c.after /\ mod[r] >= c.mark

\* Whatever order pages are fetched, landed and committed in, no change is left
\* behind the stored cursor before it has landed (commitPage and Deputy's sync).
NothingSkipped == \A r \in Record : Unlanded(r) => Covers(cursorRow.cursor, r)

\* The watermark incremental jobs start from never moves back (the merge in
\* commitPage, with pages committed out of order and again).
CursorNeverMovesBack == [][cursorRow'.cursor.mark >= cursorRow.cursor.mark]_cursorVars

\* The copy catches up with the vendor again and again, by polling alone if need
\* be: no change stays uncopied.
EveryChangeLands == []<>(\A r \in Record : ~Unlanded(r))

\* docs/albert-v1-spec.md: incremental sync with per-stream cursors is
\* at-least-once; cursor.ts: the watermark is the last fully committed lower bound.
\* Between walks, what has not landed is not older than the watermark.
AtLeastOnce ==
  cursorRow.cursor = Rest(cursorRow.cursor.mark) =>
    \A r \in Record : Unlanded(r) => mod[r] >= cursorRow.cursor.mark
===============================================================================
