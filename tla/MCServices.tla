------------------------------- MODULE MCServices -------------------------------
(* Small instances of the deletion of a connection, of the refresh of a         *)
(* credential and of a reconciliation sweep, side by side.  A behaviour is one  *)
(* of one part while the others rest: as no action reads the variables of       *)
(* another, their product would show nothing more.                              *)
EXTENDS DeletionLifecycle, CredentialRefresh, ReconciliationSweep

CONSTANTS k1, k2, w1, c1, c2, c3, l1

\* Mishaps of a deletion worker; a page being written and a mishap of that; an
\* outage without an end.
SomeSpares == {[writes |-> 0, mishaps |-> 1, losses |-> 0, outage |-> FALSE],
               [writes |-> 1, mishaps |-> 0, losses |-> 1, outage |-> FALSE],
               [writes |-> 0, mishaps |-> 0, losses |-> 0, outage |-> TRUE]}

\* Nothing goes wrong.
NoMishap == {[writes |-> 0, mishaps |-> 0, losses |-> 0, outage |-> FALSE]}

\* The vendor lists one of two records.  An upset of the workers, the listed record not
\* copied yet; a change at the vendor, both copied.
SomeMargins == {[listed |-> {1}, copied |-> {2}, changes |-> 0, upsets |-> 1],
                [listed |-> {1}, copied |-> {1, 2}, changes |-> 1, upsets |-> 0]}

\* Nothing happens besides the sweep.
NoMargin == {[listed |-> {}, copied |-> {}, changes |-> 0, upsets |-> 0]}

VARIABLE on

servicesVars == <<on, deletionVars, refreshVars, sweepVars>>

\* A sweep that is over, of a stream without records.
SweepRests ==
  /\ margin = (CHOOSE m \in Margins : TRUE) /\ changed = 0 /\ upset = 0
  /\ edition = [r \in Source |-> 0] /\ listed = {} /\ clock = 2
  /\ copy = [r \in Source |-> [stamp |-> 0, gone |-> FALSE, old |-> FALSE]]
  /\ scan = [p \in Scan |-> [NoScan EXCEPT !.status = "complete"]]
  /\ applied = {} /\ reconciled = TRUE
  /\ sweep = [phase |-> Complete, status |-> "complete", owner |-> NoOwner]
  /\ errand = [j \in Errand |-> NoErrand] /\ batch = [j \in Errand |-> NoBatch]
  /\ sweeper = [l \in Sweeper |-> AtRest]
  /\ missing = [p \in Scan |-> {}]

ServicesInit ==
  /\ on \in {"deletion", "credential", "sweep"}
  /\ DeletionInit /\ (on # "deletion" => spare = CHOOSE s \in Spares : TRUE)
  /\ RefreshInit
  /\ IF on = "sweep" THEN SweepInit ELSE SweepRests

ServicesNext ==
  \/ on = "deletion" /\ DeletionNext /\ UNCHANGED <<on, refreshVars, sweepVars>>
  \/ on = "credential" /\ RefreshNext /\ UNCHANGED <<on, deletionVars, sweepVars>>
  \/ on = "sweep" /\ SweepNext /\ UNCHANGED <<on, deletionVars, refreshVars>>

\* Of the part that is on, what its own specification says is fair.
ServicesFairness ==
  /\ \A k \in Eraser : WF_deletionVars(on = "deletion" /\ Erase(k))
  /\ \A m \in Message : WF_deletionVars(on = "deletion" /\ Reappear(m))
  /\ \A w \in Writer : /\ WF_deletionVars(on = "deletion" /\ WritePage(w))
                       /\ WF_deletionVars(on = "deletion" /\ ExpirePermit(w))
  /\ WF_deletionVars(on = "deletion" /\ Requeue)
  /\ WF_deletionVars(on = "deletion" /\ ForceDestruction)
  /\ \A c \in Call : /\ WF_refreshVars(on = "credential" /\ Coordinate(c))
                     /\ WF_refreshVars(on = "credential" /\ Operate(c))
  /\ WF_refreshVars(on = "credential" /\ Expire)
  /\ \A l \in Sweeper : WF_sweepVars(on = "sweep" /\ Sweeps(l))
  /\ WF_sweepVars(on = "sweep" /\ \E j \in Errand : RetryComesDue(j))
  /\ WF_sweepVars(on = "sweep" /\ \E j \in Errand : WindowPasses(j))
  /\ WF_sweepVars(on = "sweep" /\ \E l \in Sweeper, j \in Errand : ClaimErrand(l, j))

ServicesSpec == ServicesInit /\ [][ServicesNext]_servicesVars /\ ServicesFairness
===============================================================================
