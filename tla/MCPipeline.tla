------------------------------- MODULE MCPipeline -------------------------------
(* Small instances of the incremental copy of a stream and of the queue of      *)
(* transforms, side by side.  A behaviour is one of one part while the other    *)
(* rests: as no action reads the variables of the other, their product would    *)
(* show nothing more.                                                           *)
EXTENDS StreamCursor, TransformQueue

CONSTANTS l1, s1, s2, p1, p2, p3, p4, t1, t2

\* The stream s2 depends on s1, of which p1 and p2 are pages.
SomeMasters == [s \in Stream |-> IF s = s2 THEN {s1} ELSE {}]
SomeStreams == [j \in Transform |-> IF j \in {p1, p2} THEN s1 ELSE s2]

NoNeeds == [j \in Transform |-> {}]
NoReplays == [j \in Transform |-> 0]
OneReplay == [j \in Transform |-> IF j = p1 THEN 1 ELSE 0]

\* A replay, and two troubles; a page that refers to the next one; two pages that
\* refer to a record that is nowhere; a strange page and one that refers to it.
SomeLayouts ==
  {[needs |-> NoNeeds, strange |-> {}, replays |-> OneReplay, troubles |-> 2],
   [needs |-> [NoNeeds EXCEPT ![p1] = {p2}], strange |-> {}, replays |-> OneReplay,
    troubles |-> 0],
   [needs |-> [NoNeeds EXCEPT ![p1] = {Absent}, ![p2] = {Absent}], strange |-> {},
    replays |-> NoReplays, troubles |-> 0],
   [needs |-> [NoNeeds EXCEPT ![p2] = {p1}], strange |-> {p1}, replays |-> NoReplays,
    troubles |-> 1]}

VARIABLE on

pipelineVars == <<on, cursorVars, transformVars>>

\* The queue of transforms when there is nothing left to do.
TransformRests ==
  /\ layout = CHOOSE y \in Layouts : TRUE
  /\ transform = [j \in Transform |-> [status |-> "succeeded", tries |-> 1, error |-> "none",
                                       holder |-> NoMapper, due |-> TRUE]]
  /\ coverage = [s \in Stream |-> "queryable"] /\ reconciliation = TRUE
  /\ mapper = [l \in Mapper |-> Idling]
  /\ canonical = Transform /\ replay = NoReplays /\ troubled = 0

PipelineInit ==
  /\ on \in {"cursor", "transform"}
  /\ CursorInit /\ (on # "cursor" => \A r \in Record : ver[r] = 1)
  /\ IF on = "transform" THEN TransformInit ELSE TransformRests

PipelineNext ==
  \/ on = "cursor" /\ CursorNext /\ UNCHANGED <<on, transformVars>>
  \/ on = "transform" /\ TransformNext /\ UNCHANGED <<on, cursorVars>>

\* Of the part that is on, what its own specification says is fair.
PipelineFairness ==
  /\ WF_cursorVars(on = "cursor" /\ Tick)
  /\ SF_cursorVars(on = "cursor" /\ Schedule)
  /\ \A l \in Lane : WF_cursorVars(on = "cursor" /\ Work(l))
  /\ \A l \in Mapper : WF_transformVars(on = "transform" /\ ProcessTransform(l))
  /\ \A j \in Transform :
       /\ WF_transformVars(on = "transform" /\ ComeDue(j))
       /\ WF_transformVars(on = "transform" /\ ExpireLease(j))
       /\ SF_transformVars(on = "transform" /\ \E l \in Mapper : ClaimTransform(l, j))

PipelineSpec == PipelineInit /\ [][PipelineNext]_pipelineVars /\ PipelineFairness
===============================================================================
