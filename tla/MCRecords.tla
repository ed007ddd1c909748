------------------------------- MODULE MCRecords --------------------------------
(* Small instances of the incremental copy of a stream and of its               *)
(* reconciliation sweep, side by side.  A behaviour is one of one part while    *)
(* the other rests: as no action reads the variables of the other, their        *)
(* product would show nothing more.                                             *)
EXTENDS StreamCursor, ReconciliationSweep, TLC

CONSTANTS l1, l2

Lanes == Permutations({l1, l2})

\* The vendor lists one of two records: an upset of the workers, the listed record not
\* copied yet; a change at the vendor, both copied.  It lists both, and changes one.
SomeMargins == {[listed |-> {1}, copied |-> {2}, changes |-> 0, upsets |-> 1],
                [listed |-> {1}, copied |-> {1, 2}, changes |-> 1, upsets |-> 0],
                [listed |-> {1, 2}, copied |-> {1, 2}, changes |-> 1, upsets |-> 0]}

VARIABLE on

recordsVars == <<on, cursorVars, sweepVars>>

\* Of the records that the incremental copy is about one is there at first, the other
\* one may be created.
RecordsInit ==
  /\ on \in {"cursor", "sweep"}
  /\ CursorInit /\ \A r \in Record : ver[r] = 1 <=> r = 1
  /\ SweepInit /\ (on # "sweep" => margin = CHOOSE m \in Margins : TRUE)

RecordsNext ==
  \/ on = "cursor" /\ CursorNext /\ UNCHANGED <<on, sweepVars>>
  \/ on = "sweep" /\ SweepNext /\ UNCHANGED <<on, cursorVars>>

RecordsSpec == RecordsInit /\ [][RecordsNext]_recordsVars
===============================================================================
