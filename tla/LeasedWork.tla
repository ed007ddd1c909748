------------------------------ MODULE LeasedWork ------------------------------
(***************************************************************************)
(* What the durable sync queue promises to the code that uses it.          *)
(*                                                                         *)
(* A job that was submitted stays pending until it is resolved, it is      *)
(* resolved exactly once, and only by the lane that holds its lease at     *)
(* that moment.  A lease may be granted, taken over or lost at any time: a *)
(* holder can crash, and its visibility window can close while it works.   *)
(* SyncQueue implements this specification; BackfillLifecycle is built on  *)
(* it.                                                                     *)
(***************************************************************************)
CONSTANTS Job, Lane, NoLane

VARIABLES
  stage,     \* stage[j]: "absent", "pending", "done" or "dead"
  holder,    \* holder[j]: the lane whose lease on j is active, or NoLane
  envelopes  \* the jobs with an envelope in the dead-letter queue

workVars == <<stage, holder, envelopes>>

WorkTypeOK ==
  /\ stage \in [Job -> {"absent", "pending", "done", "dead"}]
  /\ holder \in [Job -> Lane \cup {NoLane}]
  /\ envelopes \subseteq Job

WorkInit ==
  /\ stage = [j \in Job |-> "absent"]
  /\ holder = [j \in Job |-> NoLane]
  /\ envelopes = {}

Submit(j) ==
  /\ stage[j] = "absent"
  /\ stage' = [stage EXCEPT ![j] = "pending"]
  /\ UNCHANGED <<holder, envelopes>>

\* The job is handed to a lane; an earlier holder is superseded.
Grant(j, l) ==
  /\ stage[j] = "pending"
  /\ holder' = [holder EXCEPT ![j] = l]
  /\ UNCHANGED <<stage, envelopes>>

\* The holder gives the job back, crashes, or its window closes.
Revoke(j) ==
  /\ stage[j] = "pending"
  /\ holder' = [holder EXCEPT ![j] = NoLane]
  /\ UNCHANGED <<stage, envelopes>>

Finish(j) ==
  /\ stage[j] = "pending"
  /\ holder[j] # NoLane
  /\ stage' = [stage EXCEPT ![j] = "done"]
  /\ holder' = [holder EXCEPT ![j] = NoLane]
  /\ UNCHANGED envelopes

Abandon(j) ==
  /\ stage[j] = "pending"
  /\ holder[j] # NoLane
  /\ stage' = [stage EXCEPT ![j] = "dead"]
  /\ holder' = [holder EXCEPT ![j] = NoLane]
  /\ envelopes' = envelopes \cup {j}

WorkNext ==
  \E j \in Job :
    \/ Submit(j)
    \/ \E l \in Lane : Grant(j, l)
    \/ Revoke(j)
    \/ Finish(j)
    \/ Abandon(j)

WorkSpec == WorkInit /\ [][WorkNext]_workVars
===============================================================================
