-------------------------- MODULE ConversationProofs --------------------------
(***************************************************************************)
(* Theorems about ConversationTurns, for any number of turns, retries,     *)
(* progress events and faults.                                             *)
(*                                                                         *)
(* Most steps move one runner and leave the rows of the turns alone; so    *)
(* each action is a lemma that gives its step to one of a few lemmas about *)
(* kinds of steps: a runner that acts, a runner that goes from one place   *)
(* to another, a step in which all runners rest, a binding.                *)
(***************************************************************************)
EXTENDS ConversationTurns, TLAPS

\* A turn that has not begun has a runner that has done nothing.
Unbegun(t) == turn[t].status = "absent" => runner[t] = Idle /\ context[t] = {}

\* A turn that is hidden has ended, and so has every turn before a later one,
\* or it is hidden.
Ended(t) == turn[t].status \in {"completed", "failed"}
EndedBefore(t) == \A u \in Turn : t < u /\ turn[u].status # "absent" => Ended(t) \/ turn[t].hidden

\* The final event is given out once, after the agent has run, and nobody is
\* shown or asks to bind an answer before.
FinalOnce(t) ==
  /\ trace[t].final # 0 => runner[t].pc \notin {"idle", "context", "agent"}
  /\ trace[t].final # 0
       \/ runner[t].pc \in {"answered", "finalizing", "bound", "unbound", "fallback"} =>
     trace[t].kind \in Kind

\* Until the finalization has been tried no outcome is put down, and without
\* metered usage it is not tried.
OutcomePending == {"context", "agent", "answered", "thrown", "finalizing", "bound", "unbound"}
OnRoad(r) ==
  /\ r.pc \in OutcomePending => r.outcome = "none" /\ ~r.durable
  /\ r.pc \in {"finalizing", "bound", "unbound"} => r.metered
  /\ r.pc = "fallback" => r.outcome = "artifact_finalization_failed"

\* What is told to be bound is bound.
ToldBound(t) == runner[t].pc = "bound" \/ request[t].state = "bound" => artifact[t] # NoKind

\* The turns of the conversation in their order.
Standing == \A t \in Turn : Unbegun(t) /\ EndedBefore(t) /\ (turn[t].hidden => Ended(t))

\* Each runner between its answer and the answer's artifact.
Answering == \A t \in Turn : FinalOnce(t) /\ OnRoad(runner[t]) /\ ToldBound(t)

\* The inductive invariant.
TurnInv ==
  /\ TurnTypeOK
  /\ Standing
  /\ Answering
  /\ AnswerIsBacked
  /\ ContextIsVisible
  /\ ShownAnswerIsBound

-------------------------------------------------------------------------------
(* What the helpers of the model do to one row.                            *)

TurnRow == [status : {"absent", "running", "completed", "failed"}, lapsed : BOOLEAN,
            hidden : BOOLEAN]
RunnerRow == [pc : Pc, metered : BOOLEAN, attempted : BOOLEAN, outcome : Outcome \cup {"none"},
              durable : BOOLEAN]
TraceRow == [emitted : Nat, settled : Nat, final : Nat, kind : Kind \cup {NoKind}]
UsageRow == [provider : BOOLEAN, terminal : Outcome \cup {"none"}]
BrowserRow == [open : BOOLEAN, got : SUBSET (Kind \cup {"error"})]
RequestRow == [state : {"none", "sent", "bound", "refused"}, retries : 0 .. MaxRetries]

\* What any step but the opening of the turn may do to its row r.
Later(r, s) ==
  /\ s.status = "absent" <=> r.status = "absent"
  /\ r.status \in {"completed", "failed"} => s.status = r.status
  /\ r.hidden => s.hidden
  /\ s.hidden => r.hidden \/ s.status \in {"completed", "failed"}

\* What a step may do to it that neither completes nor hides the turn.
Kept(r, s) ==
  /\ Later(r, s)
  /\ s.hidden = r.hidden
  /\ s.status = "completed" <=> r.status = "completed"

\* Failing a running turn, and reaping a turn.
LEMMA RowKept ==
  ASSUME NEW r \in TurnRow
  PROVE  /\ r.status = "running" =>
              Settled(r, "failed") \in TurnRow /\ Kept(r, Settled(r, "failed"))
         /\ Reaped(r) \in TurnRow /\ Kept(r, Reaped(r))
         /\ Kept(r, r)
         /\ Reaped(r).status = "running" => r.status = "running"
<1> USE DEF Kept, Later, TurnRow
<1>1. ASSUME r.status = "running"
      PROVE  /\ Settled(r, "failed") \in TurnRow /\ Kept(r, Settled(r, "failed"))
             /\ Settled(r, "failed").status = "failed"
  BY <1>1 DEF Settled
<1>2. Kept(r, r)
  OBVIOUS
<1>3. CASE r.status = "running" /\ r.lapsed
  <2>1. Reaped(r) = Settled(r, "failed")
    BY <1>3 DEF Reaped
  <2> QED
    BY <1>1, <1>2, <1>3, <2>1
<1>4. CASE ~(r.status = "running" /\ r.lapsed)
  <2>1. Reaped(r) = r
    BY <1>4 DEF Reaped
  <2> QED
    BY <1>1, <1>2, <2>1
<1> QED
  BY <1>3, <1>4

\* fail_albert_turn neither completes nor hides a turn.
LEMMA FailKeeps ==
  ASSUME turn \in [Turn -> TurnRow], NEW t \in Turn, FailTurn(t)
  PROVE  turn' \in [Turn -> TurnRow] /\ \A u \in Turn : Kept(turn[u], turn'[u])
<1>1. CASE turn[t].status = "running"
  <2>1. turn' = [turn EXCEPT ![t] = Settled(turn[t], "failed")]
    BY <1>1 DEF FailTurn
  <2>2. Settled(turn[t], "failed") \in TurnRow /\ Kept(turn[t], Settled(turn[t], "failed"))
    BY <1>1, RowKept
  <2>3. \A u \in Turn : Kept(turn[u], turn[u])
    BY RowKept
  <2> QED
    BY <2>1, <2>2, <2>3
<1>2. CASE turn[t].status # "running"
  <2>1. turn' = turn
    BY <1>2 DEF FailTurn
  <2> QED
    BY <2>1, RowKept
<1> QED
  BY <1>1, <1>2

\* The reaper does the same to every turn.
LEMMA ReapKeeps ==
  ASSUME turn \in [Turn -> TurnRow], ReapTurns
  PROVE  turn' \in [Turn -> TurnRow] /\ \A u \in Turn : Kept(turn[u], turn'[u])
BY RowKept DEF ReapTurns

\* Binding a running turn completes it.
LEMMA BindStep ==
  ASSUME turn \in [Turn -> TurnRow], artifact \in [Turn -> Kind \cup {NoKind}],
         trace \in [Turn -> TraceRow],
         NEW t \in Turn, Bindable(t), Bind(t)
  PROVE  /\ turn' \in [Turn -> TurnRow]
         /\ artifact' \in [Turn -> Kind \cup {NoKind}]
         /\ \A u \in Turn : Later(turn[u], turn'[u]) /\ turn'[u].hidden = turn[u].hidden
         /\ \A u \in Turn \ {t} : turn'[u] = turn[u] /\ artifact'[u] = artifact[u]
         /\ turn[t].status = "running"
         /\ turn'[t].status = "completed" /\ artifact'[t] = trace[t].kind
<1>1. turn[t].status = "running"
  BY DEF Bindable
<1>2. turn' = [turn EXCEPT ![t] = Settled(turn[t], "completed")]
  BY DEF Bind
<1>3. /\ Settled(turn[t], "completed") \in TurnRow
      /\ Settled(turn[t], "completed").status = "completed"
      /\ Settled(turn[t], "completed").hidden = turn[t].hidden
  BY DEF Settled, TurnRow
<1>4. \A u \in Turn : Kept(turn[u], turn[u])
  BY RowKept
<1>5. \A u \in Turn : Later(turn[u], turn'[u]) /\ turn'[u].hidden = turn[u].hidden
  BY <1>1, <1>2, <1>3, <1>4 DEF Later, Kept, TurnRow
<1>6. artifact' = [artifact EXCEPT ![t] = trace[t].kind] /\ trace[t].kind \in Kind \cup {NoKind}
  BY DEF Bind, TraceRow
<1> QED
  BY <1>1, <1>2, <1>3, <1>5, <1>6

\* A runner moves to another place.
LEMMA GoToStep ==
  ASSUME runner \in [Turn -> RunnerRow], NEW t \in Turn, NEW pc \in Pc, GoTo(t, pc)
  PROVE  /\ runner' \in [Turn -> RunnerRow]
         /\ \A u \in Turn \ {t} : runner'[u] = runner[u]
         /\ runner'[t].pc = pc /\ runner'[t].outcome = runner[t].outcome
         /\ pc \notin Halted => /\ runner'[t].metered = runner[t].metered
                                /\ runner'[t].durable = runner[t].durable
<1> DEFINE r == Moved(runner[t], pc)
<1>1. runner' = [runner EXCEPT ![t] = r]
  BY DEF GoTo
<1>2. /\ r \in RunnerRow
      /\ r.pc = pc /\ r.outcome = runner[t].outcome
      /\ pc \notin Halted => r.metered = runner[t].metered /\ r.durable = runner[t].durable
  <2>1. CASE pc \in Halted
    BY <2>1 DEF Moved, Idle, RunnerRow, Halted
  <2>2. CASE pc \notin Halted
    BY <2>2 DEF Moved, RunnerRow
  <2> QED
    BY <2>1, <2>2
<1> QED
  BY <1>1, <1>2

\* An event is delivered to the browser, or it is not.
LEMMA DeliverStep ==
  ASSUME browser \in [Turn -> BrowserRow], NEW t \in Turn, NEW event \in Kind \cup {"error"},
         Deliver(t, event)
  PROVE  /\ browser' \in [Turn -> BrowserRow]
         /\ \A u \in Turn \ {t} : browser'[u] = browser[u]
         /\ browser'[t].got \subseteq browser[t].got \cup {event}
<1>1. browser' = [browser EXCEPT ![t].got =
                    IF browser[t].open THEN browser[t].got \cup {event} ELSE browser[t].got]
  BY DEF Deliver
<1> QED
  BY <1>1 DEF BrowserRow

\* An event is given out.
LEMMA EmittedStep ==
  ASSUME trace \in [Turn -> TraceRow], NEW t \in Turn
  PROVE  /\ Emitted(t) \in [Turn -> TraceRow]
         /\ \A u \in Turn : /\ Emitted(t)[u].final = trace[u].final
                            /\ Emitted(t)[u].kind = trace[u].kind
BY DEF Emitted, TraceRow

\* The outcome is recorded, or it is not; the runner moves on either way, and
\* remembers the first outcome it has put down.
LEMMA OutcomeStep ==
  ASSUME runner \in [Turn -> RunnerRow], usage \in [Turn -> UsageRow],
         allowance \in Allowance,
         NEW t \in Turn, NEW outcome \in Outcome, NEW pc \in Pc, RecordOutcome(t, outcome, pc)
  PROVE  /\ runner' \in [Turn -> RunnerRow]
         /\ usage' \in [Turn -> UsageRow]
         /\ allowance' \in Allowance
         /\ \A u \in Turn \ {t} : runner'[u] = runner[u]
         /\ runner'[t].pc = pc
         /\ runner'[t].outcome \in {runner[t].outcome, outcome}
         /\ runner[t].outcome # "none" => runner'[t].outcome = runner[t].outcome
         /\ runner[t].outcome = "none" /\ runner[t].metered /\ ~runner[t].durable =>
              runner'[t].outcome = outcome
<1> DEFINE first == runner[t].outcome = "none"
           settled(durable) == [runner[t] EXCEPT !.durable = durable,
                                  !.outcome = IF first THEN outcome ELSE runner[t].outcome]
           row == [provider |-> TRUE, terminal |-> outcome]
<1>1. [usage EXCEPT ![t] = row] \in [Turn -> UsageRow]
  BY DEF UsageRow
<1>2. Faulty(1) => allowance' \in Allowance
  BY DEF Faulty, Allowance
<1>3. ASSUME NEW durable \in BOOLEAN, runner' = [runner EXCEPT ![t] = Moved(settled(durable), pc)]
      PROVE  /\ runner' \in [Turn -> RunnerRow]
             /\ \A u \in Turn \ {t} : runner'[u] = runner[u]
             /\ runner'[t].pc = pc
             /\ runner'[t].outcome = IF first THEN outcome ELSE runner[t].outcome
  <2>1. /\ settled(durable) \in RunnerRow
        /\ settled(durable).outcome = IF first THEN outcome ELSE runner[t].outcome
    BY DEF RunnerRow
  <2>2. /\ Moved(settled(durable), pc) \in RunnerRow
        /\ Moved(settled(durable), pc).pc = pc
        /\ Moved(settled(durable), pc).outcome = settled(durable).outcome
    <3> HIDE DEF settled
    <3>1. CASE pc \in Halted
      BY <2>1, <3>1 DEF Moved, Idle, RunnerRow, Halted
    <3>2. CASE pc \notin Halted
      BY <2>1, <3>2 DEF Moved, RunnerRow
    <3> QED
      BY <3>1, <3>2
  <2> HIDE DEF settled
  <2> QED
    BY <1>3, <2>1, <2>2
<1>4. CASE \/ ~runner[t].metered \/ runner[t].durable
           \/ ~first /\ runner[t].outcome # outcome
  <2>1. GoTo(t, pc) /\ UNCHANGED <<usage, allowance>>
    BY <1>4 DEF RecordOutcome
  <2> QED
    BY <1>4, <2>1, GoToStep
<1>5. CASE ~(\/ ~runner[t].metered \/ runner[t].durable
             \/ ~first /\ runner[t].outcome # outcome)
  <2>1. /\ \/ runner' = [runner EXCEPT ![t] = Moved(settled(TRUE), pc)]
           \/ runner' = [runner EXCEPT ![t] = Moved(settled(FALSE), pc)]
        /\ usage' \in {usage, [usage EXCEPT ![t] = row]}
        /\ Faulty(1) \/ UNCHANGED allowance
    BY <1>5, Zenon DEF RecordOutcome
  <2> HIDE DEF settled
  <2> QED
    BY <1>1, <1>2, <1>3, <2>1
<1> QED
  BY <1>4, <1>5

-------------------------------------------------------------------------------
(* What each part of the invariant asks of a step.                         *)

\* The types, in the names used here.
Typed ==
  /\ turn \in [Turn -> TurnRow]
  /\ artifact \in [Turn -> Kind \cup {NoKind}]
  /\ recorded \in [Turn -> Nat]
  /\ consumed \in [Turn -> Turn \cup {0}]
  /\ usage \in [Turn -> UsageRow]
  /\ trace \in [Turn -> TraceRow]
  /\ runner \in [Turn -> RunnerRow]
  /\ context \in [Turn -> SUBSET Turn]
  /\ request \in [Turn -> RequestRow]
  /\ browser \in [Turn -> BrowserRow]
  /\ allowance \in Allowance

\* The type invariant, row by row.
LEMMA TypesNamed == (TurnTypeOK <=> Typed) /\ (TurnTypeOK' <=> Typed')
BY DEF Typed, TurnTypeOK, TurnRow, UsageRow, TraceRow, RunnerRow, RequestRow, BrowserRow

\* The allowance of faults keeps its type.
LEMMA FaultyStep ==
  ASSUME allowance \in Allowance, NEW n \in Nat, Faulty(n)
  PROVE  allowance' \in Allowance
BY DEF Faulty, Allowance

\* The order of the turns survives a step that moves the rows on and no runner
\* whose turn has not begun.
LEMMA StandingKept ==
  ASSUME Standing,
         \A u \in Turn : Later(turn[u], turn'[u]),
         \A u \in Turn : turn[u].status # "absent"
                         \/ (runner'[u] = runner[u] /\ context'[u] = context[u])
  PROVE  Standing'
BY DEF Standing, Unbegun, EndedBefore, Ended, Later

\* Artifacts stay backed while none is bound, rows are only appended to the trace
\* and a final event that has been given out stays the final one.
LEMMA BackedKept ==
  ASSUME AnswerIsBacked, artifact' = artifact,
         recorded \in [Turn -> Nat], trace \in [Turn -> TraceRow],
         \A u \in Turn : turn'[u].status = "completed" <=> turn[u].status = "completed",
         \A u \in Turn : recorded'[u] \in Nat /\ recorded'[u] >= recorded[u],
         \A u \in Turn : trace[u].final = 0 \/
           (trace'[u].final = trace[u].final /\ trace'[u].kind = trace[u].kind)
  PROVE  AnswerIsBacked'
BY DEF AnswerIsBacked, FinalEventRecorded, TraceRow

\* Contexts stay visible while nothing is hidden and no completed turn changes.
LEMMA VisibleKept ==
  ASSUME ContextIsVisible, context' = context,
         context \in [Turn -> SUBSET Turn], turn \in [Turn -> TurnRow],
         turn' \in [Turn -> TurnRow],
         \A u \in Turn : Later(turn[u], turn'[u]) /\ turn'[u].hidden = turn[u].hidden
  PROVE  ContextIsVisible'
BY DEF ContextIsVisible, Later, TurnRow

\* Answers on the screen stay accounted for while none is shown.
LEMMA ShownKept ==
  ASSUME ShownAnswerIsBound,
         \A u \in Turn : artifact[u] = NoKind \/ artifact'[u] # NoKind,
         \A u \in Turn : runner'[u].outcome = runner[u].outcome \/ runner[u].outcome = "none",
         \A u \in Turn : browser'[u].got \cap Kind \subseteq browser[u].got
  PROVE  ShownAnswerIsBound'
BY DEF ShownAnswerIsBound

\* Who runs has a turn.
LEMMA Begun ==
  ASSUME Standing, NEW t \in Turn, runner[t].pc # "idle"
  PROVE  turn[t].status # "absent"
BY DEF Standing, Unbegun, Idle

\* No other event becomes the final one.
FinalSame(u) == trace'[u].final = trace[u].final /\ trace'[u].kind = trace[u].kind

\* The runner of turn t moves, its final event may be given out, and no answer
\* is bound.
LEMMA RunnerActs ==
  ASSUME TurnInv, Typed, Typed', NEW t \in Turn,
         \A u \in Turn : Kept(turn[u], turn'[u]),
         artifact' = artifact,
         \A u \in Turn : recorded'[u] >= recorded[u],
         runner[t].pc # "idle",
         \A u \in Turn \ {t} : /\ runner'[u] = runner[u] /\ context'[u] = context[u]
                               /\ request'[u] = request[u] /\ FinalSame(u),
         trace[t].final = 0 \/ FinalSame(t),
         FinalOnce(t)', OnRoad(runner'[t]), ToldBound(t)'
  PROVE  Standing' /\ Answering' /\ AnswerIsBacked'
<1>0. Standing /\ Answering /\ AnswerIsBacked
  BY DEF TurnInv
<1>1. Standing'
  <2>1. \A u \in Turn : Later(turn[u], turn'[u])
    BY DEF Kept
  <2>2. turn[t].status # "absent"
    BY <1>0, Begun
  <2>3. \A u \in Turn : turn[u].status # "absent"
                        \/ (runner'[u] = runner[u] /\ context'[u] = context[u])
    <3> TAKE u \in Turn
    <3>1. CASE u = t
      BY <2>2, <3>1
    <3>2. CASE u # t
      BY <3>2
    <3> QED
      BY <3>1, <3>2
  <2> QED
    BY <1>0, <2>1, <2>3, StandingKept
<1>2. Answering'
  BY <1>0 DEF Answering, FinalOnce, ToldBound, FinalSame
<1>3. AnswerIsBacked'
  <2>1. \A u \in Turn : turn'[u].status = "completed" <=> turn[u].status = "completed"
    BY DEF Kept
  <2>2. \A u \in Turn : recorded'[u] \in Nat /\ recorded'[u] >= recorded[u]
    BY DEF Typed
  <2>3. \A u \in Turn : trace[u].final = 0 \/ FinalSame(u)
    OBVIOUS
  <2>4. recorded \in [Turn -> Nat] /\ trace \in [Turn -> TraceRow]
    BY DEF Typed
  <2>5. \A u \in Turn : trace[u].final = 0 \/
          (trace'[u].final = trace[u].final /\ trace'[u].kind = trace[u].kind)
    BY <2>3 DEF FinalSame
  <2> QED
    BY <1>0, <2>1, <2>2, <2>4, <2>5, BackedKept
<1> QED
  BY <1>1, <1>2, <1>3

\* It shows no answer either, and loads no context.
LEMMA RunnerActsQuietly ==
  ASSUME TurnInv, Typed, Typed', NEW t \in Turn,
         \A u \in Turn : Kept(turn[u], turn'[u]),
         artifact' = artifact, context' = context,
         \A u \in Turn : recorded'[u] >= recorded[u],
         runner[t].pc # "idle",
         \A u \in Turn \ {t} : /\ runner'[u] = runner[u]
                               /\ request'[u] = request[u] /\ FinalSame(u),
         trace[t].final = 0 \/ FinalSame(t),
         runner'[t].outcome = runner[t].outcome \/ runner[t].outcome = "none",
         \A u \in Turn : browser'[u].got \cap Kind \subseteq browser[u].got,
         FinalOnce(t)', OnRoad(runner'[t]), ToldBound(t)'
  PROVE  TurnInv'
<1>1. Standing' /\ Answering' /\ AnswerIsBacked'
  BY RunnerActs
<1>2. ContextIsVisible'
  BY VisibleKept DEF TurnInv, Kept, Typed
<1>3. ShownAnswerIsBound'
  BY ShownKept DEF TurnInv
<1> QED
  BY <1>1, <1>2, <1>3, TypesNamed DEF TurnInv

\* It goes to another place, past the agent's run, and does nothing else that matters.
LEMMA RunnerGoes ==
  ASSUME TurnInv, Typed, Typed', NEW t \in Turn, NEW pc \in Pc, GoTo(t, pc),
         \A u \in Turn : Kept(turn[u], turn'[u]),
         artifact' = artifact, context' = context, recorded' = recorded, trace' = trace,
         \A u \in Turn : browser'[u].got \cap Kind \subseteq browser[u].got,
         \A u \in Turn \ {t} : request'[u] = request[u],
         runner[t].pc # "idle", pc \notin {"idle", "context", "agent", "answered", "fallback"},
         pc \in OutcomePending => runner[t].pc \in OutcomePending,
         pc \in {"bound", "unbound"} => runner[t].pc = "finalizing",
         pc # "finalizing",
         pc = "bound" \/ request'[t].state = "bound" => artifact[t] # NoKind
  PROVE  TurnInv'
<1>1. /\ \A u \in Turn \ {t} : runner'[u] = runner[u]
      /\ runner'[t].pc = pc /\ runner'[t].outcome = runner[t].outcome
      /\ pc \notin Halted => /\ runner'[t].metered = runner[t].metered
                             /\ runner'[t].durable = runner[t].durable
  BY GoToStep DEF Typed
<1>2. FinalOnce(t) /\ OnRoad(runner[t])
  BY DEF TurnInv, Answering
<1>3. FinalOnce(t)'
  BY <1>1, <1>2 DEF FinalOnce
<1>4. OnRoad(runner'[t])
  BY <1>1, <1>2 DEF OnRoad, OutcomePending, Halted
<1>5. ToldBound(t)'
  BY <1>1 DEF ToldBound
<1>6. \A u \in Turn : recorded'[u] >= recorded[u] /\ FinalSame(u)
  BY DEF Typed, FinalSame
<1> HIDE DEF OnRoad
<1> QED
  BY <1>1, <1>3, <1>4, <1>5, <1>6, RunnerActsQuietly

\* Nothing happens to the row of any turn.
LEMMA RowsSame == ASSUME Typed, turn' = turn PROVE \A u \in Turn : Kept(turn[u], turn'[u])
BY RowKept DEF Typed

\* The steps of a runner, one by one: the agent's run ends without an answer ...
LEMMA AgentThrowsKeeps ==
  ASSUME TurnInv, NEW t \in Turn, AgentThrows(t)
  PROVE  TurnInv'
<1>1. Typed
  BY TypesNamed DEF TurnInv
<1>2. /\ runner[t].pc = "agent" /\ GoTo(t, "thrown") /\ "thrown" \in Pc
      /\ UNCHANGED <<turn, artifact, recorded, consumed, usage, trace, context, request,
                     browser, allowance>>
  BY DEF AgentThrows, At, Pc, Halted
<1>3. runner' \in [Turn -> RunnerRow]
  BY <1>1, <1>2, GoToStep DEF Typed
<1>5. Typed'
  BY <1>1, <1>2, <1>3 DEF Typed
<1>6. request'[t].state = "bound" => artifact[t] # NoKind
  BY <1>2 DEF TurnInv, Answering, ToldBound
<1> QED
  BY <1>1, <1>2, <1>5, <1>6, RowsSame, RunnerGoes DEF OutcomePending, Halted

\* ... the handler catches that once the trace is flushed ...
LEMMA CatchThrownKeeps ==
  ASSUME TurnInv, NEW t \in Turn, CatchThrown(t)
  PROVE  TurnInv'
<1>1. Typed
  BY TypesNamed DEF TurnInv
<1>2. /\ runner[t].pc = "thrown" /\ GoTo(t, "caught") /\ "caught" \in Pc
      /\ UNCHANGED <<turn, artifact, recorded, consumed, usage, trace, context, request,
                     browser, allowance>>
  BY DEF CatchThrown, At, Pc, Halted
<1>3. runner' \in [Turn -> RunnerRow]
  BY <1>1, <1>2, GoToStep DEF Typed
<1>5. Typed'
  BY <1>1, <1>2, <1>3 DEF Typed
<1>6. request'[t].state = "bound" => artifact[t] # NoKind
  BY <1>2 DEF TurnInv, Answering, ToldBound
<1> QED
  BY <1>1, <1>2, <1>5, <1>6, RowsSame, RunnerGoes DEF OutcomePending, Halted

\* ... the context cannot be loaded and the turn is failed, or is left open ...
LEMMA ContextUnavailableKeeps ==
  ASSUME TurnInv, NEW t \in Turn, ContextUnavailable(t)
  PROVE  TurnInv'
<1>1. Typed
  BY TypesNamed DEF TurnInv
<1>2. /\ runner[t].pc = "context" /\ GoTo(t, "done") /\ "done" \in Pc
      /\ UNCHANGED <<artifact, recorded, consumed, usage, trace, context, request, browser>>
      /\ FailTurn(t) \/ UNCHANGED turn
      /\ Faulty(1) \/ Faulty(2)
  BY DEF ContextUnavailable, At, Pc, Halted
<1>3. runner' \in [Turn -> RunnerRow]
  BY <1>1, <1>2, GoToStep DEF Typed
<1>4. /\ turn' \in [Turn -> TurnRow] /\ \A u \in Turn : Kept(turn[u], turn'[u])
      /\ allowance' \in Allowance
  BY <1>1, <1>2, FailKeeps, RowsSame, FaultyStep DEF Typed
<1>5. Typed'
  BY <1>1, <1>2, <1>3, <1>4 DEF Typed
<1>6. request'[t].state = "bound" => artifact[t] # NoKind
  BY <1>2 DEF TurnInv, Answering, ToldBound
<1> QED
  BY <1>1, <1>2, <1>5, <1>6, <1>4, RunnerGoes DEF OutcomePending, Halted

\* ... the error path ends by failing the turn ...
LEMMA FailAfterFlushKeeps ==
  ASSUME TurnInv, NEW t \in Turn, FailAfterFlush(t)
  PROVE  TurnInv'
<1>1. Typed
  BY TypesNamed DEF TurnInv
<1>2. /\ runner[t].pc = "flush" /\ GoTo(t, "done") /\ "done" \in Pc
      /\ UNCHANGED <<artifact, recorded, consumed, usage, trace, context, request, browser>>
      /\ FailTurn(t) \/ UNCHANGED turn
      /\ Faulty(1) \/ UNCHANGED allowance
  BY DEF FailAfterFlush, At, Pc, Halted
<1>3. runner' \in [Turn -> RunnerRow]
  BY <1>1, <1>2, GoToStep DEF Typed
<1>4. /\ turn' \in [Turn -> TurnRow] /\ \A u \in Turn : Kept(turn[u], turn'[u])
      /\ allowance' \in Allowance
  BY <1>1, <1>2, FailKeeps, RowsSame, FaultyStep DEF Typed
<1>5. Typed'
  BY <1>1, <1>2, <1>3, <1>4 DEF Typed
<1>6. request'[t].state = "bound" => artifact[t] # NoKind
  BY <1>2 DEF TurnInv, Answering, ToldBound
<1> QED
  BY <1>1, <1>2, <1>5, <1>6, <1>4, RunnerGoes DEF OutcomePending, Halted

\* ... no answer to the finalization comes, though it may still be carried out ...
LEMMA FinalizationUnreachableKeeps ==
  ASSUME TurnInv, NEW t \in Turn, FinalizationUnreachable(t)
  PROVE  TurnInv'
<1>1. Typed
  BY TypesNamed DEF TurnInv
<1>2. /\ runner[t].pc = "finalizing" /\ GoTo(t, "unbound") /\ "unbound" \in Pc
      /\ UNCHANGED <<turn, artifact, recorded, consumed, usage, trace, context, browser>>
      /\ Faulty(1)
      /\ \/ UNCHANGED request
         \/ request' = [request EXCEPT ![t].state = "none"]
  BY DEF FinalizationUnreachable, At, Pc, Halted
<1>3. runner' \in [Turn -> RunnerRow]
  BY <1>1, <1>2, GoToStep DEF Typed
<1>4. /\ request' \in [Turn -> RequestRow] /\ \A u \in Turn \ {t} : request'[u] = request[u]
      /\ request'[t].state \in {request[t].state, "none"}
      /\ allowance' \in Allowance
  BY <1>1, <1>2, FaultyStep DEF Typed, RequestRow
<1>5. Typed'
  BY <1>1, <1>2, <1>3, <1>4 DEF Typed
<1>6. request'[t].state = "bound" => artifact[t] # NoKind
  BY <1>4 DEF TurnInv, Answering, ToldBound
<1> QED
  BY <1>1, <1>2, <1>5, <1>6, <1>4, RowsSame, RunnerGoes DEF OutcomePending, Halted

\* ... the process dies and keeps nothing ...
LEMMA CrashRunnerKeeps ==
  ASSUME TurnInv, NEW t \in Turn, CrashRunner(t)
  PROVE  TurnInv'
<1>1. Typed
  BY TypesNamed DEF TurnInv
<1>2. /\ runner[t].pc \notin {"idle", "done", "dead"} /\ GoTo(t, "dead") /\ "dead" \in Pc
      /\ UNCHANGED <<turn, artifact, recorded, consumed, usage, trace, context, request>>
      /\ Faulty(1) /\ browser' = [browser EXCEPT ![t].open = FALSE]
  BY DEF CrashRunner, At, Pc, Halted
<1>3. runner' \in [Turn -> RunnerRow]
  BY <1>1, <1>2, GoToStep DEF Typed
<1>4. /\ browser' \in [Turn -> BrowserRow]
      /\ \A u \in Turn : browser'[u].got \cap Kind \subseteq browser[u].got
      /\ allowance' \in Allowance
  BY <1>1, <1>2, FaultyStep DEF Typed, BrowserRow
<1>5. Typed'
  BY <1>1, <1>2, <1>3, <1>4 DEF Typed
<1>6. request'[t].state = "bound" => artifact[t] # NoKind
  BY <1>2 DEF TurnInv, Answering, ToldBound
<1> QED
  BY <1>1, <1>2, <1>5, <1>6, <1>4, RowsSame, RunnerGoes DEF OutcomePending, Halted

\* ... or the finalization is answered, and told to be bound only when it is.
LEMMA FinalizationAnsweredKeeps ==
  ASSUME TurnAssumption, TurnInv, NEW t \in Turn, FinalizationAnswered(t)
  PROVE  TurnInv'
<1>1. Typed
  BY TypesNamed DEF TurnInv
<1>2. /\ runner[t].pc = "finalizing"
      /\ UNCHANGED <<turn, artifact, recorded, consumed, usage, trace, context, browser,
                     allowance>>
      /\ request' = [request EXCEPT ![t] = NoRequest]
  BY DEF FinalizationAnswered, At
<1>3. /\ request' \in [Turn -> RequestRow] /\ \A u \in Turn \ {t} : request'[u] = request[u]
      /\ request'[t].state = "none"
  BY <1>1, <1>2 DEF Typed, RequestRow, NoRequest, TurnAssumption
<1>4. /\ request[t].state = "bound" => artifact[t] # NoKind
      /\ {"bound", "caught"} \subseteq Pc
  BY DEF TurnInv, Answering, ToldBound, Pc
<1>5. ASSUME NEW pc \in {"bound", "caught"}, GoTo(t, pc),
             pc = "bound" => request[t].state = "bound"
      PROVE  TurnInv'
  <2>1. runner' \in [Turn -> RunnerRow]
    BY <1>1, <1>4, <1>5, GoToStep DEF Typed
  <2>2. Typed'
    BY <1>1, <1>2, <1>3, <2>1 DEF Typed
  <2> QED
    BY <1>1, <1>2, <1>3, <1>4, <1>5, <2>2, RowsSame, RunnerGoes DEF OutcomePending
<1> QED
  BY <1>5 DEF FinalizationAnswered

\* The model is given the answers of turns that are completed and visible.
LEMMA LoadContextKeeps ==
  ASSUME TurnInv, NEW t \in Turn, LoadContext(t)
  PROVE  TurnInv'
<1>1. Typed
  BY TypesNamed DEF TurnInv
<1>2. /\ runner[t].pc = "context" /\ GoTo(t, "agent") /\ "agent" \in Pc \ Halted
      /\ context' = [context EXCEPT ![t] = ModelContext]
      /\ browser' = [browser EXCEPT ![t].open = TRUE]
      /\ UNCHANGED <<turn, artifact, recorded, consumed, usage, trace, request, allowance>>
  BY DEF LoadContext, At, Pc, Halted
<1>3. /\ runner' \in [Turn -> RunnerRow]
      /\ \A u \in Turn \ {t} : runner'[u] = runner[u]
      /\ runner'[t].pc = "agent" /\ runner'[t].outcome = runner[t].outcome
      /\ runner'[t].durable = runner[t].durable
  BY <1>1, <1>2, GoToStep DEF Typed
<1>4. /\ browser' \in [Turn -> BrowserRow]
      /\ \A u \in Turn : browser'[u].got \cap Kind \subseteq browser[u].got
  BY <1>1, <1>2 DEF Typed, BrowserRow
<1>5. ModelContext \in SUBSET Turn
  BY DEF ModelContext
<1>6. Typed'
  BY <1>1, <1>2, <1>3, <1>4, <1>5 DEF Typed
<1>7. /\ trace[t].final = 0
      /\ runner[t].outcome = "none" /\ ~runner[t].durable
      /\ request[t].state = "bound" => artifact[t] # NoKind
  BY <1>2 DEF TurnInv, Answering, FinalOnce, OnRoad, OutcomePending, ToldBound
<1>8. FinalOnce(t)' /\ OnRoad(runner'[t]) /\ ToldBound(t)'
  BY <1>2, <1>3, <1>7 DEF FinalOnce, OnRoad, ToldBound
<1>9. \A u \in Turn : recorded'[u] >= recorded[u] /\ FinalSame(u)
  BY <1>1, <1>2 DEF Typed, FinalSame
<1>10. Standing' /\ Answering' /\ AnswerIsBacked'
  BY <1>1, <1>2, <1>3, <1>6, <1>8, <1>9, RowsSame, RunnerActs
<1>11. ContextIsVisible'
  <2> SUFFICES ASSUME NEW u \in Turn, NEW c \in context'[u],
                      turn[u].status \in {"running", "completed"}, ~turn[u].hidden
               PROVE  turn[c].status = "completed" /\ ~turn[c].hidden /\ c < u
    BY <1>2 DEF ContextIsVisible
  <2>1. CASE u # t
    BY <1>1, <1>2, <2>1 DEF TurnInv, ContextIsVisible, Typed
  <2>2. CASE u = t
    <3>1. c \in Turn /\ turn[c].status = "completed" /\ ~turn[c].hidden
      BY <1>1, <1>2, <2>2 DEF Typed, ModelContext
    <3>2. turn[t].status = "running"
      BY <1>7, <2>2 DEF TurnInv, AnswerIsBacked, FinalEventRecorded
    <3>3. ~(t < c)
      BY <2>2, <3>1, <3>2 DEF TurnInv, Standing, EndedBefore, Ended
    <3>4. c # t
      BY <3>1, <3>2
    <3> QED
      BY <2>2, <3>1, <3>3, <3>4 DEF Turn
  <2> QED
    BY <2>1, <2>2
<1>12. ShownAnswerIsBound'
  BY <1>2, <1>3, <1>4, ShownKept DEF TurnInv
<1> QED
  BY <1>6, <1>10, <1>11, <1>12, TypesNamed DEF TurnInv

\* No runner moves and no answer is bound or shown.
LEMMA RunnersRest ==
  ASSUME TurnInv, Typed, Typed',
         \A u \in Turn : Kept(turn[u], turn'[u]),
         UNCHANGED <<artifact, runner, context, request>>,
         \A u \in Turn : recorded'[u] >= recorded[u] /\ FinalSame(u),
         \A u \in Turn : browser'[u].got \cap Kind \subseteq browser[u].got
  PROVE  TurnInv'
<1>1. \A u \in Turn : Later(turn[u], turn'[u]) /\ turn'[u].hidden = turn[u].hidden
  BY DEF Kept
<1>2. Standing'
  BY <1>1, StandingKept DEF TurnInv
<1>3. Answering'
  BY DEF TurnInv, Answering, FinalOnce, ToldBound, FinalSame
<1>4. AnswerIsBacked'
  <2>1. \A u \in Turn : turn'[u].status = "completed" <=> turn[u].status = "completed"
    BY DEF Kept
  <2>2. \A u \in Turn : trace[u].final = 0 \/
          (trace'[u].final = trace[u].final /\ trace'[u].kind = trace[u].kind)
    BY DEF FinalSame
  <2>3. \A u \in Turn : recorded'[u] \in Nat /\ recorded'[u] >= recorded[u]
    BY DEF Typed
  <2> QED
    BY <2>1, <2>2, <2>3, BackedKept DEF TurnInv, Typed
<1>5. ContextIsVisible'
  BY <1>1, VisibleKept DEF TurnInv, Typed
<1>6. ShownAnswerIsBound'
  BY ShownKept DEF TurnInv
<1> QED
  BY <1>2, <1>3, <1>4, <1>5, <1>6, TypesNamed DEF TurnInv

\* A progress event is given out before the final one.
LEMMA EmitStepKeeps ==
  ASSUME TurnInv, NEW t \in Turn, EmitStep(t)
  PROVE  TurnInv'
<1>1. Typed
  BY TypesNamed DEF TurnInv
<1>2. /\ trace' = Emitted(t)
      /\ allowance.steps > 0 /\ allowance' = [allowance EXCEPT !.steps = allowance.steps - 1]
      /\ UNCHANGED <<turn, artifact, recorded, consumed, usage, runner, context, request,
                     browser>>
  BY DEF EmitStep
<1>3. trace' \in [Turn -> TraceRow] /\ \A u \in Turn : FinalSame(u)
  BY <1>1, <1>2, EmittedStep DEF Typed, FinalSame
<1>4. allowance' \in Allowance
  BY <1>1, <1>2 DEF Typed, Allowance
<1>5. Typed'
  BY <1>1, <1>2, <1>3, <1>4 DEF Typed
<1>6. \A u \in Turn : recorded'[u] >= recorded[u]
  BY <1>1, <1>2 DEF Typed
<1> QED
  BY <1>1, <1>2, <1>3, <1>5, <1>6, RowsSame, RunnersRest

\* The queue appends one row to the trace, or loses it; no row goes.
LEMMA WriteEventKeeps ==
  ASSUME TurnInv, NEW t \in Turn, WriteEvent(t)
  PROVE  TurnInv'
<1> DEFINE next == trace[t].settled + 1
<1>1. Typed
  BY TypesNamed DEF TurnInv
<1>2. /\ trace' = [trace EXCEPT ![t].settled = next]
      /\ recorded' = recorded
           \/ (recorded' = [recorded EXCEPT ![t] = next] /\ recorded[t] + 1 = next)
      /\ Faulty(1) \/ UNCHANGED allowance
      /\ UNCHANGED <<turn, artifact, consumed, usage, runner, context, request, browser>>
  <2>1. CASE turn[t].status = "running" /\ recorded[t] + 1 = next
    BY <2>1 DEF WriteEvent
  <2>2. CASE ~(turn[t].status = "running" /\ recorded[t] + 1 = next)
    <3>1. [recorded EXCEPT ![t] = recorded[t]] = recorded
      BY <1>1 DEF Typed
    <3> QED
      BY <2>2, <3>1 DEF WriteEvent
  <2> QED
    BY <2>1, <2>2
<1>3. trace' \in [Turn -> TraceRow] /\ \A u \in Turn : FinalSame(u)
  BY <1>1, <1>2 DEF Typed, FinalSame, TraceRow
<1>4. recorded' \in [Turn -> Nat] /\ \A u \in Turn : recorded'[u] >= recorded[u]
  <2>1. next \in Nat
    BY <1>1 DEF Typed, TraceRow
  <2> HIDE DEF next
  <2> QED
    BY <1>1, <1>2, <2>1 DEF Typed
<1>5. allowance' \in Allowance
  BY <1>1, <1>2, FaultyStep DEF Typed
<1> HIDE DEF next
<1>6. Typed'
  BY <1>1, <1>2, <1>3, <1>4, <1>5 DEF Typed
<1> QED
  BY <1>1, <1>2, <1>3, <1>4, <1>6, RowsSame, RunnersRest

\* A reader who leaves has seen what was shown.
LEMMA DisconnectKeeps ==
  ASSUME TurnInv, NEW t \in Turn, Disconnect(t)
  PROVE  TurnInv'
<1>1. Typed
  BY TypesNamed DEF TurnInv
<1>2. /\ browser' = [browser EXCEPT ![t].open = FALSE]
      /\ UNCHANGED <<turn, artifact, recorded, consumed, usage, trace, runner, context,
                     request, allowance>>
  BY DEF Disconnect
<1>3. /\ browser' \in [Turn -> BrowserRow]
      /\ \A u \in Turn : browser'[u].got \cap Kind \subseteq browser[u].got
  BY <1>1, <1>2 DEF Typed, BrowserRow
<1>4. Typed'
  BY <1>1, <1>2, <1>3 DEF Typed
<1>5. \A u \in Turn : recorded'[u] >= recorded[u] /\ FinalSame(u)
  BY <1>1, <1>2 DEF Typed, FinalSame
<1> QED
  BY <1>1, <1>2, <1>3, <1>4, <1>5, RowsSame, RunnersRest

\* A lapsed lease is seen by the reaper only ...
LEMMA LeaseLapsesKeeps ==
  ASSUME TurnInv, NEW t \in Turn, LeaseLapses(t)
  PROVE  TurnInv'
<1>1. Typed
  BY TypesNamed DEF TurnInv
<1>2. /\ turn' = [turn EXCEPT ![t].lapsed = TRUE]
      /\ UNCHANGED <<artifact, recorded, consumed, usage, trace, runner, context, request,
                     browser, allowance>>
  BY DEF LeaseLapses
<1>3. turn' \in [Turn -> TurnRow] /\ \A u \in Turn : Kept(turn[u], turn'[u])
  BY <1>1, <1>2 DEF Typed, TurnRow, Kept, Later
<1>4. Typed'
  BY <1>1, <1>2, <1>3 DEF Typed
<1>5. \A u \in Turn : recorded'[u] >= recorded[u] /\ FinalSame(u)
  BY <1>1, <1>2 DEF Typed, FinalSame
<1> QED
  BY <1>1, <1>2, <1>3, <1>4, <1>5, RunnersRest

\* ... which fails turns that run.
LEMMA ReapTurnsKeeps ==
  ASSUME TurnInv, ReapTurns
  PROVE  TurnInv'
<1>1. Typed
  BY TypesNamed DEF TurnInv
<1>2. UNCHANGED <<artifact, recorded, consumed, usage, trace, runner, context, request,
                  browser, allowance>>
  BY DEF ReapTurns
<1>3. turn' \in [Turn -> TurnRow] /\ \A u \in Turn : Kept(turn[u], turn'[u])
  BY <1>1, ReapKeeps DEF Typed
<1>4. Typed'
  BY <1>1, <1>2, <1>3 DEF Typed
<1>5. \A u \in Turn : recorded'[u] >= recorded[u] /\ FinalSame(u)
  BY <1>1, <1>2 DEF Typed, FinalSame
<1> QED
  BY <1>1, <1>2, <1>3, <1>4, <1>5, RunnersRest

\* The final event is given out once: the runner leaves the agent's run for good.
LEMMA FinishAgentKeeps ==
  ASSUME TurnInv, NEW t \in Turn, FinishAgent(t)
  PROVE  TurnInv'
<1>1. Typed
  BY TypesNamed DEF TurnInv
<1>2. PICK kind \in Kind :
        trace' = [trace EXCEPT ![t] = [trace[t] EXCEPT !.emitted = trace[t].emitted + 1,
                                         !.final = trace[t].emitted + 1, !.kind = kind]]
  BY DEF FinishAgent, Answered
<1>3. /\ runner[t].pc = "agent" /\ GoTo(t, "answered") /\ "answered" \in Pc \ Halted
      /\ UNCHANGED <<turn, artifact, recorded, consumed, usage, context, request, browser,
                     allowance>>
  BY DEF FinishAgent, At, Pc, Halted
<1>4. /\ runner' \in [Turn -> RunnerRow]
      /\ \A u \in Turn \ {t} : runner'[u] = runner[u]
      /\ runner'[t].pc = "answered" /\ runner'[t].outcome = runner[t].outcome
      /\ runner'[t].durable = runner[t].durable
  BY <1>1, <1>3, GoToStep DEF Typed
<1>5. /\ trace' \in [Turn -> TraceRow]
      /\ \A u \in Turn \ {t} : FinalSame(u)
      /\ trace'[t].kind \in Kind
  <2> DEFINE number == trace[t].emitted + 1
             row == [trace[t] EXCEPT !.emitted = number, !.final = number, !.kind = kind]
  <2>1. trace[t] \in TraceRow /\ number \in Nat
    BY <1>1 DEF Typed, TraceRow
  <2>2. trace' = [trace EXCEPT ![t] = row]
    BY <1>2
  <2> HIDE DEF number
  <2>3. row \in TraceRow /\ row.kind \in Kind
    BY <2>1 DEF TraceRow
  <2> HIDE DEF row
  <2> QED
    BY <1>1, <2>2, <2>3 DEF Typed, FinalSame
<1>6. Typed'
  BY <1>1, <1>3, <1>4, <1>5 DEF Typed
<1>7. /\ trace[t].final = 0
      /\ runner[t].outcome = "none" /\ ~runner[t].durable
      /\ request[t].state = "bound" => artifact[t] # NoKind
  BY <1>3 DEF TurnInv, Answering, FinalOnce, OnRoad, OutcomePending, ToldBound
<1>8. FinalOnce(t)' /\ OnRoad(runner'[t]) /\ ToldBound(t)'
  BY <1>3, <1>4, <1>5, <1>7 DEF FinalOnce, OnRoad, ToldBound
<1>9. \A u \in Turn : recorded'[u] >= recorded[u]
  BY <1>1, <1>3 DEF Typed
<1> QED
  BY <1>1, <1>3, <1>4, <1>5, <1>6, <1>7, <1>8, <1>9, RowsSame, RunnerActsQuietly

\* The usage of the model is metered while the agent runs.
LEMMA RecordProviderKeeps ==
  ASSUME TurnInv, NEW t \in Turn, RecordProvider(t)
  PROVE  TurnInv'
<1>1. Typed
  BY TypesNamed DEF TurnInv
<1>2. PICK pc \in {"agent", "thrown"} :
        runner' = [runner EXCEPT ![t] = [runner[t] EXCEPT !.metered = TRUE, !.pc = pc]]
  BY DEF RecordProvider
<1>3. /\ runner[t].pc = "agent" /\ {"agent", "thrown"} \subseteq Pc
      /\ usage' \in {usage, [usage EXCEPT ![t].provider = TRUE]}
      /\ Faulty(1) \/ UNCHANGED allowance
      /\ UNCHANGED <<turn, artifact, recorded, consumed, trace, context, request, browser>>
  BY DEF RecordProvider, At, Pc
<1>4. /\ runner' \in [Turn -> RunnerRow]
      /\ \A u \in Turn \ {t} : runner'[u] = runner[u]
      /\ runner'[t].pc = pc /\ runner'[t].outcome = runner[t].outcome
      /\ runner'[t].durable = runner[t].durable
  <2> DEFINE row == [runner[t] EXCEPT !.metered = TRUE, !.pc = pc]
  <2>0. pc \in Pc /\ runner[t] \in RunnerRow
    BY <1>1, <1>3 DEF Typed
  <2>1. /\ row \in RunnerRow
        /\ row.pc = pc /\ row.outcome = runner[t].outcome /\ row.durable = runner[t].durable
    BY <2>0 DEF RunnerRow
  <2>2. runner' = [runner EXCEPT ![t] = row]
    BY <1>2
  <2> HIDE DEF row
  <2> QED
    BY <1>1, <2>1, <2>2 DEF Typed
<1>5. usage' \in [Turn -> UsageRow] /\ allowance' \in Allowance
  BY <1>1, <1>3, FaultyStep DEF Typed, UsageRow
<1>6. Typed'
  BY <1>1, <1>3, <1>4, <1>5 DEF Typed
<1>7. /\ trace[t].final = 0
      /\ runner[t].outcome = "none" /\ ~runner[t].durable
      /\ request[t].state = "bound" => artifact[t] # NoKind
  BY <1>3 DEF TurnInv, Answering, FinalOnce, OnRoad, OutcomePending, ToldBound
<1>8. FinalOnce(t)' /\ OnRoad(runner'[t]) /\ ToldBound(t)'
  BY <1>3, <1>4, <1>7 DEF FinalOnce, OnRoad, ToldBound
<1>9. \A u \in Turn : recorded'[u] >= recorded[u] /\ FinalSame(u)
  BY <1>1, <1>3 DEF Typed, FinalSame
<1> QED
  BY <1>1, <1>3, <1>4, <1>6, <1>7, <1>8, <1>9, RowsSame, RunnerActsQuietly

\* The finalization is requested by a metered runner only.
LEMMA RequestFinalizationKeeps ==
  ASSUME TurnInv, NEW t \in Turn, RequestFinalization(t)
  PROVE  TurnInv'
<1>1. Typed
  BY TypesNamed DEF TurnInv
<1>2. /\ runner[t].pc = "answered"
      /\ UNCHANGED <<turn, artifact, recorded, consumed, usage, trace, context, browser,
                     allowance>>
  BY DEF RequestFinalization, At
<1>3. request[t].state = "bound" => artifact[t] # NoKind
  BY DEF TurnInv, Answering, ToldBound
<1>4. CASE runner[t].metered
  <2>1. /\ request' = [request EXCEPT ![t].state = "sent"]
        /\ runner' = [runner EXCEPT ![t] = [runner[t] EXCEPT !.pc = "finalizing",
                                                             !.attempted = TRUE]]
    BY <1>4 DEF RequestFinalization
  <2>2. "finalizing" \in Pc
    BY DEF Pc
  <2>3. /\ runner' \in [Turn -> RunnerRow]
        /\ \A u \in Turn \ {t} : runner'[u] = runner[u]
        /\ runner'[t].pc = "finalizing" /\ runner'[t].outcome = runner[t].outcome
        /\ runner'[t].durable = runner[t].durable /\ runner'[t].metered
    BY <1>1, <1>4, <2>1, <2>2 DEF Typed, RunnerRow
  <2>4. /\ request' \in [Turn -> RequestRow] /\ request'[t].state = "sent"
        /\ \A u \in Turn \ {t} : request'[u] = request[u]
    BY <1>1, <2>1 DEF Typed, RequestRow
  <2>5. Typed'
    BY <1>1, <1>2, <2>3, <2>4 DEF Typed
  <2>6. OnRoad(runner[t]) /\ FinalOnce(t)
    BY DEF TurnInv, Answering
  <2>7. FinalOnce(t)' /\ OnRoad(runner'[t]) /\ ToldBound(t)'
    BY <1>2, <2>3, <2>4, <2>6 DEF FinalOnce, OnRoad, OutcomePending, ToldBound
  <2>8. \A u \in Turn : recorded'[u] >= recorded[u] /\ FinalSame(u)
    BY <1>1, <1>2 DEF Typed, FinalSame
  <2> QED
    BY <1>1, <1>2, <2>3, <2>4, <2>5, <2>7, <2>8, RowsSame, RunnerActsQuietly
<1>5. CASE ~runner[t].metered
  <2>1. GoTo(t, "caught") /\ UNCHANGED request /\ "caught" \in Pc
    BY <1>5 DEF RequestFinalization, Pc
  <2>2. runner' \in [Turn -> RunnerRow]
    BY <1>1, <2>1, GoToStep DEF Typed
  <2>3. Typed'
    BY <1>1, <1>2, <2>1, <2>2 DEF Typed
  <2> QED
    BY <1>1, <1>2, <1>3, <2>1, <2>3, RowsSame, RunnerGoes DEF OutcomePending
<1> QED
  BY <1>4, <1>5

\* A runner without a binding puts down that the finalization failed ...
LEMMA RecordUnboundKeeps ==
  ASSUME TurnInv, NEW t \in Turn, RecordUnbound(t)
  PROVE  TurnInv'
<1>1. Typed
  BY TypesNamed DEF TurnInv
<1>2. /\ runner[t].pc = "unbound"
      /\ RecordOutcome(t, "artifact_finalization_failed", "fallback")
      /\ UNCHANGED <<turn, artifact, recorded, consumed, trace, context, request, browser>>
  BY DEF RecordUnbound, At
<1>3. "artifact_finalization_failed" \in Outcome /\ "fallback" \in Pc
  BY DEF Outcome, Failure, Pc
<1>4. OnRoad(runner[t]) /\ FinalOnce(t) /\ ToldBound(t)
  BY DEF TurnInv, Answering
<1>5. /\ runner' \in [Turn -> RunnerRow] /\ usage' \in [Turn -> UsageRow]
      /\ allowance' \in Allowance
      /\ \A u \in Turn \ {t} : runner'[u] = runner[u]
      /\ runner'[t].pc = "fallback"
      /\ runner[t].outcome = "none"
      /\ runner'[t].outcome = "artifact_finalization_failed"
  BY <1>1, <1>2, <1>3, <1>4, OutcomeStep DEF Typed, OnRoad, OutcomePending
<1>6. Typed'
  BY <1>1, <1>2, <1>5 DEF Typed
<1>7. FinalOnce(t)' /\ OnRoad(runner'[t]) /\ ToldBound(t)'
  BY <1>2, <1>4, <1>5 DEF FinalOnce, OnRoad, OutcomePending, ToldBound
<1>8. \A u \in Turn : recorded'[u] >= recorded[u] /\ FinalSame(u)
  BY <1>1, <1>2 DEF Typed, FinalSame
<1> QED
  BY <1>1, <1>2, <1>5, <1>6, <1>7, <1>8, RowsSame, RunnerActsQuietly

\* ... and one on the error path the outcome it has chosen.
LEMMA RecordFailureKeeps ==
  ASSUME TurnInv, NEW t \in Turn, RecordFailure(t)
  PROVE  TurnInv'
<1>1. Typed
  BY TypesNamed DEF TurnInv
<1>2. PICK outcome \in ErrorOutcomes(t) :
        RecordOutcome(t, outcome, "flush") /\ TellFailure(t, outcome)
  BY DEF RecordFailure
<1>3. /\ runner[t].pc = "caught"
      /\ UNCHANGED <<turn, artifact, recorded, consumed, context, request>>
  BY DEF RecordFailure, At
<1>4. outcome \in Outcome /\ "flush" \in Pc /\ "error" \notin Kind
  BY DEF ErrorOutcomes, Outcome, Failure, Pc, Kind
<1>5. OnRoad(runner[t]) /\ FinalOnce(t) /\ ToldBound(t)
  BY DEF TurnInv, Answering
<1>6. /\ runner' \in [Turn -> RunnerRow] /\ usage' \in [Turn -> UsageRow]
      /\ allowance' \in Allowance
      /\ \A u \in Turn \ {t} : runner'[u] = runner[u]
      /\ runner'[t].pc = "flush"
      /\ runner'[t].outcome = runner[t].outcome \/ runner[t].outcome = "none"
  BY <1>1, <1>2, <1>4, OutcomeStep DEF Typed
<1>7. /\ trace' \in [Turn -> TraceRow] /\ \A u \in Turn : FinalSame(u)
      /\ browser' \in [Turn -> BrowserRow]
      /\ \A u \in Turn : browser'[u].got \cap Kind \subseteq browser[u].got
  <2>1. CASE outcome = "client_disconnected"
    <3>1. UNCHANGED <<trace, browser>>
      BY <1>2, <2>1 DEF TellFailure
    <3> QED
      BY <1>1, <3>1 DEF Typed, FinalSame
  <2>2. CASE outcome # "client_disconnected"
    <3>1. trace' = Emitted(t) /\ Deliver(t, "error")
      BY <1>2, <2>2 DEF TellFailure
    <3>2. /\ browser' \in [Turn -> BrowserRow]
          /\ \A u \in Turn \ {t} : browser'[u] = browser[u]
          /\ browser'[t].got \subseteq browser[t].got \cup {"error"}
      BY <1>1, <3>1, DeliverStep DEF Typed
    <3>3. trace' \in [Turn -> TraceRow] /\ \A u \in Turn : FinalSame(u)
      BY <1>1, <3>1, EmittedStep DEF Typed, FinalSame
    <3> QED
      BY <1>4, <3>2, <3>3
  <2> QED
    BY <2>1, <2>2
<1>8. Typed'
  BY <1>1, <1>3, <1>6, <1>7 DEF Typed
<1>9. FinalOnce(t)' /\ OnRoad(runner'[t]) /\ ToldBound(t)'
  BY <1>3, <1>5, <1>6, <1>7 DEF FinalOnce, FinalSame, OnRoad, OutcomePending, ToldBound
<1>10. \A u \in Turn : recorded'[u] >= recorded[u]
  BY <1>1, <1>3 DEF Typed
<1> QED
  BY <1>1, <1>3, <1>6, <1>7, <1>8, <1>9, <1>10, RowsSame, RunnerActsQuietly

\* An answer that is bound is put down as finalized and shown.
LEMMA RecordFinalizedKeeps ==
  ASSUME TurnInv, NEW t \in Turn, RecordFinalized(t)
  PROVE  TurnInv'
<1>1. Typed
  BY TypesNamed DEF TurnInv
<1>2. /\ runner[t].pc = "bound"
      /\ RecordOutcome(t, "answer_finalized", "done")
      /\ Deliver(t, trace[t].kind)
      /\ UNCHANGED <<turn, artifact, recorded, consumed, trace, context, request>>
  BY DEF RecordFinalized, At
<1>3. "answer_finalized" \in Outcome /\ "done" \in Pc
  BY DEF Outcome, Pc, Halted
<1>4. OnRoad(runner[t]) /\ FinalOnce(t) /\ ToldBound(t)
  BY DEF TurnInv, Answering
<1>5. artifact[t] # NoKind /\ trace[t].kind \in Kind
  BY <1>2, <1>4 DEF TurnInv, ToldBound, FinalOnce, AnswerIsBacked, FinalEventRecorded
<1>6. /\ runner' \in [Turn -> RunnerRow] /\ usage' \in [Turn -> UsageRow]
      /\ allowance' \in Allowance
      /\ \A u \in Turn \ {t} : runner'[u] = runner[u]
      /\ runner'[t].pc = "done"
      /\ runner'[t].outcome = runner[t].outcome \/ runner[t].outcome = "none"
  BY <1>1, <1>2, <1>3, OutcomeStep DEF Typed
<1>7. /\ browser' \in [Turn -> BrowserRow]
      /\ \A u \in Turn \ {t} : browser'[u] = browser[u]
  BY <1>1, <1>2, <1>5, DeliverStep DEF Typed
<1>8. Typed'
  BY <1>1, <1>2, <1>6, <1>7 DEF Typed
<1>9. FinalOnce(t)' /\ OnRoad(runner'[t]) /\ ToldBound(t)'
  BY <1>2, <1>4, <1>6 DEF FinalOnce, OnRoad, OutcomePending, ToldBound
<1>10. \A u \in Turn : recorded'[u] >= recorded[u] /\ FinalSame(u)
  BY <1>1, <1>2 DEF Typed, FinalSame
<1>11. Standing' /\ Answering' /\ AnswerIsBacked'
  BY <1>1, <1>2, <1>6, <1>8, <1>9, <1>10, RowsSame, RunnerActs
<1>12. ContextIsVisible'
  BY <1>1, <1>2, <1>8, RowsSame, VisibleKept DEF TurnInv, Typed, Kept
<1>13. ShownAnswerIsBound'
  BY <1>2, <1>5, <1>6, <1>7 DEF TurnInv, ShownAnswerIsBound
<1> QED
  BY <1>8, <1>11, <1>12, <1>13, TypesNamed DEF TurnInv

\* An answer that is not bound is shown after its finalization was put down as failed.
LEMMA DeliverUnboundKeeps ==
  ASSUME TurnInv, NEW t \in Turn, DeliverUnbound(t)
  PROVE  TurnInv'
<1>1. Typed
  BY TypesNamed DEF TurnInv
<1>2. PICK pc \in {"done", "caught"} : GoTo(t, pc)
  BY DEF DeliverUnbound
<1>3. /\ runner[t].pc = "fallback" /\ {"done", "caught"} \subseteq Pc
      /\ Deliver(t, trace[t].kind)
      /\ FailTurn(t) \/ UNCHANGED turn
      /\ Faulty(1) \/ UNCHANGED allowance
      /\ UNCHANGED <<artifact, recorded, consumed, usage, trace, context, request>>
  BY DEF DeliverUnbound, At, Pc, Halted
<1>4. OnRoad(runner[t]) /\ FinalOnce(t) /\ ToldBound(t)
  BY DEF TurnInv, Answering
<1>5. /\ runner' \in [Turn -> RunnerRow]
      /\ \A u \in Turn \ {t} : runner'[u] = runner[u]
      /\ runner'[t].pc = pc /\ runner'[t].outcome = "artifact_finalization_failed"
  BY <1>1, <1>2, <1>3, <1>4, GoToStep DEF Typed, OnRoad
<1>6. /\ turn' \in [Turn -> TurnRow] /\ \A u \in Turn : Kept(turn[u], turn'[u])
      /\ allowance' \in Allowance
  BY <1>1, <1>3, FailKeeps, RowsSame, FaultyStep DEF Typed
<1>7. trace[t].kind \in Kind
  BY <1>3, <1>4 DEF FinalOnce
<1>8. /\ browser' \in [Turn -> BrowserRow]
      /\ \A u \in Turn \ {t} : browser'[u] = browser[u]
  BY <1>1, <1>3, <1>7, DeliverStep DEF Typed
<1>9. Typed'
  BY <1>1, <1>3, <1>5, <1>6, <1>8 DEF Typed
<1>10. FinalOnce(t)' /\ OnRoad(runner'[t]) /\ ToldBound(t)'
  BY <1>3, <1>4, <1>5 DEF FinalOnce, OnRoad, OutcomePending, ToldBound
<1>11. \A u \in Turn : recorded'[u] >= recorded[u] /\ FinalSame(u)
  BY <1>1, <1>3 DEF Typed, FinalSame
<1>12. Standing' /\ Answering' /\ AnswerIsBacked'
  BY <1>1, <1>3, <1>5, <1>6, <1>9, <1>10, <1>11, RunnerActs
<1>13. ContextIsVisible'
  BY <1>1, <1>3, <1>6, <1>9, VisibleKept DEF TurnInv, Typed, Kept
<1>14. ShownAnswerIsBound'
  BY <1>3, <1>5, <1>8 DEF TurnInv, ShownAnswerIsBound
<1> QED
  BY <1>9, <1>12, <1>13, <1>14, TypesNamed DEF TurnInv

\* The answer of a running turn is bound, its final event having been written.
LEMMA BindingKeeps ==
  ASSUME TurnAssumption, TurnInv, Typed, Typed', NEW t \in Turn, Bindable(t), Bind(t),
         UNCHANGED <<recorded, trace, runner, context, browser>>,
         \A u \in Turn \ {t} : request'[u] = request[u]
  PROVE  TurnInv'
<1>1. /\ \A u \in Turn : Later(turn[u], turn'[u]) /\ turn'[u].hidden = turn[u].hidden
      /\ \A u \in Turn \ {t} : turn'[u] = turn[u] /\ artifact'[u] = artifact[u]
      /\ turn'[t].status = "completed" /\ artifact'[t] = trace[t].kind
  BY BindStep DEF Typed
<1>2. FinalEventRecorded(t) /\ trace[t].kind \in Kind /\ trace[t].kind # NoKind
  BY DEF Bindable, FinalEventRecorded, TurnInv, Answering, FinalOnce, TurnAssumption, Kind
<1>3. Standing'
  BY <1>1, StandingKept DEF TurnInv
<1>4. Answering'
  BY <1>1, <1>2 DEF TurnInv, Answering, FinalOnce, ToldBound
<1>5. AnswerIsBacked'
  BY <1>1, <1>2 DEF TurnInv, AnswerIsBacked, FinalEventRecorded
<1>6. ContextIsVisible'
  BY <1>1, VisibleKept DEF TurnInv, Typed
<1>7. ShownAnswerIsBound'
  BY <1>1, <1>2, ShownKept DEF TurnInv
<1> QED
  BY <1>3, <1>4, <1>5, <1>6, <1>7, TypesNamed DEF TurnInv

\* Without that only the request goes on; it is told to be bound when it is.
LEMMA RequestGoes ==
  ASSUME TurnInv, Typed, Typed', NEW t \in Turn,
         UNCHANGED <<turn, artifact, recorded, trace, runner, context, browser>>,
         \A u \in Turn \ {t} : request'[u] = request[u],
         request'[t].state = "bound" => artifact[t] # NoKind
  PROVE  TurnInv'
<1>1. Standing'
  BY DEF TurnInv, Standing, Unbegun, EndedBefore, Ended
<1>2. Answering'
  BY DEF TurnInv, Answering, FinalOnce, ToldBound
<1>3. AnswerIsBacked' /\ ContextIsVisible' /\ ShownAnswerIsBound'
  BY DEF TurnInv, AnswerIsBacked, FinalEventRecorded, ContextIsVisible, ShownAnswerIsBound
<1> QED
  BY <1>1, <1>2, <1>3, TypesNamed DEF TurnInv

\* An attempt of the finalizer binds the answer, replays the binding or is refused.
LEMMA FinalizeKeeps ==
  ASSUME TurnAssumption, TurnInv, NEW t \in Turn, Finalize(t)
  PROVE  TurnInv'
<1>1. Typed
  BY TypesNamed DEF TurnInv
<1>2. PICK state \in {"bound", "refused"} : request' = [request EXCEPT ![t].state = state]
  BY DEF Finalize
<1>3. UNCHANGED <<recorded, consumed, usage, trace, runner, context, browser, allowance>>
  BY DEF Finalize
<1>4. /\ request' \in [Turn -> RequestRow] /\ request'[t].state = state
      /\ \A u \in Turn \ {t} : request'[u] = request[u]
  BY <1>1, <1>2 DEF Typed, RequestRow
<1>5. CASE Bindable(t) /\ Bind(t)
  <2>1. /\ turn' \in [Turn -> TurnRow]
        /\ artifact' \in [Turn -> Kind \cup {NoKind}]
    BY <1>1, <1>5, BindStep DEF Typed
  <2>2. Typed'
    BY <1>1, <1>3, <1>4, <2>1 DEF Typed
  <2> QED
    BY <1>1, <1>3, <1>4, <1>5, <2>2, BindingKeeps
<1>6. CASE ~(Bindable(t) /\ Bind(t))
  <2>1. /\ UNCHANGED <<turn, artifact>>
        /\ \/ Replayed(t) /\ request' = [request EXCEPT ![t].state = "bound"]
           \/ request' = [request EXCEPT ![t].state = "refused"]
    BY <1>6 DEF Finalize
  <2>2. request'[t].state = "bound" => artifact[t] # NoKind
    BY <1>1, <2>1 DEF Replayed, Typed, RequestRow
  <2>3. Typed'
    BY <1>1, <1>3, <1>4, <2>1 DEF Typed
  <2> QED
    BY <1>1, <1>3, <1>4, <2>1, <2>2, <2>3, RequestGoes
<1> QED
  BY <1>5, <1>6

\* A dropped connection hides whether the attempt has bound the answer.
LEMMA DropConnectionKeeps ==
  ASSUME TurnAssumption, TurnInv, NEW t \in Turn, DropConnection(t)
  PROVE  TurnInv'
<1>1. Typed
  BY TypesNamed DEF TurnInv
<1>2. /\ request[t].state = "sent" /\ Faulty(1)
      /\ UNCHANGED <<recorded, consumed, usage, trace, runner, context, browser>>
  BY DEF DropConnection
<1>3. /\ request' \in [Turn -> RequestRow] /\ request'[t].state # "bound"
      /\ \A u \in Turn \ {t} : request'[u] = request[u]
  <2>1. request[t] \in RequestRow
    BY <1>1 DEF Typed
  <2>2. CASE Spent(t)
    <3>1. request' = [request EXCEPT ![t].state = "refused"]
      BY <2>2 DEF DropConnection
    <3> QED
      BY <1>1, <3>1 DEF Typed, RequestRow
  <2>3. CASE ~Spent(t)
    <3> DEFINE next == request[t].retries + 1
    <3>1. request' = [request EXCEPT ![t].retries = next]
      BY <2>3 DEF DropConnection
    <3>2. next \in 0 .. MaxRetries
      BY <2>1, <2>3 DEF Spent, RequestRow, TurnAssumption
    <3> HIDE DEF next
    <3> QED
      BY <1>1, <1>2, <3>1, <3>2 DEF Typed, RequestRow
  <2> QED
    BY <2>2, <2>3
<1>4. allowance' \in Allowance
  BY <1>1, <1>2, FaultyStep DEF Typed
<1>5. CASE Bindable(t) /\ Bind(t)
  <2>1. /\ turn' \in [Turn -> TurnRow]
        /\ artifact' \in [Turn -> Kind \cup {NoKind}]
    BY <1>1, <1>5, BindStep DEF Typed
  <2>2. Typed'
    BY <1>1, <1>2, <1>3, <1>4, <2>1 DEF Typed
  <2> QED
    BY <1>1, <1>2, <1>3, <1>5, <2>2, BindingKeeps
<1>6. CASE UNCHANGED <<turn, artifact>>
  <2>1. Typed'
    BY <1>1, <1>2, <1>3, <1>4, <1>6 DEF Typed
  <2> QED
    BY <1>1, <1>2, <1>3, <1>6, <2>1, RequestGoes
<1> QED
  BY <1>5, <1>6 DEF DropConnection

\* A rewind hides the named turn and all later ones, so what stays visible was
\* told of earlier turns only.
LEMMA RewindRows ==
  ASSUME Typed, NEW t \in Turn, Rewind(t)
  PROVE  \A u \in Turn :
           /\ turn'[u] \in TurnRow /\ Later(turn[u], turn'[u])
           /\ turn'[u].status = "completed" <=> turn[u].status = "completed"
           /\ u < t => turn'[u].hidden = turn[u].hidden
           /\ u >= t => turn'[u].hidden \/ turn'[u].status = "absent"
<1>1. Typed
  OBVIOUS
<1> DEFINE rewound(row) ==
             IF row.status = "absent" \/ row.hidden THEN row
             ELSE [Settled(row, IF row.status = "running" THEN "failed" ELSE row.status)
                     EXCEPT !.hidden = TRUE]
<1>3. turn' = [u \in Turn |-> IF u \in RewoundBy(t) THEN rewound(Reaped(turn[u]))
                                                   ELSE Reaped(turn[u])]
  BY DEF Rewind
<1>4. ASSUME NEW r \in TurnRow
      PROVE  /\ rewound(r) \in TurnRow /\ Later(r, rewound(r))
             /\ rewound(r).status = "completed" <=> r.status = "completed"
             /\ rewound(r).hidden \/ r.status = "absent"
  <2>1. CASE r.status = "absent" \/ r.hidden
    BY <2>1, RowKept DEF Kept
  <2>2. CASE ~(r.status = "absent" \/ r.hidden)
    <3> DEFINE status == IF r.status = "running" THEN "failed" ELSE r.status
    <3>1. /\ Settled(r, status) \in TurnRow
          /\ Settled(r, status).status = status
      BY <2>2 DEF Settled, TurnRow
    <3>2. rewound(r) = [Settled(r, status) EXCEPT !.hidden = TRUE]
      BY <2>2
    <3>3. rewound(r) \in TurnRow /\ rewound(r).status = status /\ rewound(r).hidden
      BY <3>1, <3>2 DEF TurnRow
    <3> QED
      BY <2>2, <3>3 DEF Later, TurnRow
  <2> QED
    BY <2>1, <2>2
<1> HIDE DEF rewound
<1> SUFFICES ASSUME NEW u \in Turn
             PROVE  /\ turn'[u] \in TurnRow /\ Later(turn[u], turn'[u])
                    /\ turn'[u].status = "completed" <=> turn[u].status = "completed"
                    /\ u < t => turn'[u].hidden = turn[u].hidden
                    /\ u >= t => turn'[u].hidden \/ turn'[u].status = "absent"
  OBVIOUS
<1>5. turn[u] \in TurnRow
  BY <1>1 DEF Typed
<1>6. Reaped(turn[u]) \in TurnRow /\ Kept(turn[u], Reaped(turn[u]))
  BY <1>5, RowKept
<1>7. CASE u < t
  <2>1. turn'[u] = Reaped(turn[u])
    BY <1>3, <1>7 DEF RewoundBy, Turn
  <2> QED
    BY <1>6, <1>7, <2>1 DEF Kept, Turn
<1>8. CASE u >= t
  <2>1. turn'[u] = rewound(Reaped(turn[u]))
    BY <1>3, <1>8 DEF RewoundBy
  <2> QED
    BY <1>4, <1>6, <1>8, <2>1 DEF Kept, Later, Turn
<1> QED
  BY <1>7, <1>8 DEF Turn

\* What a rewind fails and hides keeps the invariant.
LEMMA RewindKeeps ==
  ASSUME TurnInv, NEW t \in Turn, Rewind(t)
  PROVE  TurnInv'
<1>1. Typed
  BY TypesNamed DEF TurnInv
<1>2. UNCHANGED <<artifact, recorded, consumed, usage, trace, runner, context, request,
                  browser, allowance>>
  BY DEF Rewind
<1>3. turn' \in [Turn -> TurnRow]
  BY <1>1, RewindRows DEF Rewind
<1>5. ASSUME NEW u \in Turn
      PROVE  /\ turn'[u] \in TurnRow /\ Later(turn[u], turn'[u])
             /\ turn'[u].status = "completed" <=> turn[u].status = "completed"
             /\ u < t => turn'[u].hidden = turn[u].hidden
             /\ u >= t => turn'[u].hidden \/ turn'[u].status = "absent"
  BY <1>1, RewindRows
<1>6. Typed'
  BY <1>1, <1>2, <1>3, <1>5 DEF Typed
<1>7. Standing'
  BY <1>2, <1>5, StandingKept DEF TurnInv
<1>8. Answering'
  BY <1>2 DEF TurnInv, Answering, FinalOnce, ToldBound
<1>9. AnswerIsBacked'
  BY <1>2, <1>5 DEF TurnInv, AnswerIsBacked, FinalEventRecorded
<1>10. ContextIsVisible'
  <2> SUFFICES ASSUME NEW u \in Turn, NEW c \in context[u],
                      turn'[u].status \in {"running", "completed"}, ~turn'[u].hidden
               PROVE  turn'[c].status = "completed" /\ ~turn'[c].hidden /\ c < u
    BY <1>2 DEF ContextIsVisible
  <2>1. u < t /\ c \in Turn
    BY <1>1, <1>5 DEF Typed, Turn
  <2>2. turn[u].status \in {"running", "completed"} /\ ~turn[u].hidden
    BY <1>5, <2>1, <1>1 DEF Later, Typed, TurnRow
  <2>3. turn[c].status = "completed" /\ ~turn[c].hidden /\ c < u
    BY <2>2 DEF TurnInv, ContextIsVisible
  <2>4. c < t
    BY <2>1, <2>3 DEF Turn
  <2> QED
    BY <1>5, <2>1, <2>3, <2>4
<1>11. ShownAnswerIsBound'
  BY <1>2 DEF TurnInv, ShownAnswerIsBound
<1> QED
  BY <1>6, <1>7, <1>8, <1>9, <1>10, <1>11, TypesNamed DEF TurnInv

\* A turn opens when no visible turn runs, and with nothing behind it.
LEMMA BeginTurnKeeps ==
  ASSUME TurnInv, NEW t \in Turn, BeginTurn(t)
  PROVE  TurnInv'
<1>1. Typed
  BY TypesNamed DEF TurnInv
<1>2. /\ allowance.turns > 0 /\ allowance' = [allowance EXCEPT !.turns = allowance.turns - 1]
      /\ GoTo(t, "context") /\ "context" \in Pc \ Halted
      /\ UNCHANGED <<artifact, recorded, usage, trace, context, request, browser>>
  BY DEF BeginTurn, Pc, Halted
<1>3. /\ turn[t].status = "absent" /\ \A u \in 1 .. t - 1 : turn[u].status # "absent"
      /\ \A u \in Turn : ~(Reaped(turn[u]).status = "running" /\ ~Reaped(turn[u]).hidden)
      /\ turn' = [[u \in Turn |-> Reaped(turn[u])] EXCEPT ![t] = NewRow]
  BY DEF BeginTurn
<1>4. consumed' \in [Turn -> Turn \cup {0}]
  BY <1>1 DEF BeginTurn, Typed
<1>5. allowance' \in Allowance
  BY <1>1, <1>2 DEF Typed, Allowance
<1>6. runner[t] = Idle /\ context[t] = {} /\ artifact[t] = NoKind
  BY <1>3 DEF TurnInv, Standing, Unbegun, AnswerIsBacked
<1>7. /\ runner' \in [Turn -> RunnerRow]
      /\ \A u \in Turn \ {t} : runner'[u] = runner[u]
      /\ runner'[t].pc = "context" /\ runner'[t].outcome = "none" /\ ~runner'[t].durable
  BY <1>1, <1>2, <1>6, GoToStep DEF Typed, Idle
<1>8. /\ turn'[t] = NewRow /\ NewRow \in TurnRow
      /\ NewRow.status = "running" /\ ~NewRow.hidden
  BY <1>3 DEF NewRow, NoRow, TurnRow
<1>9. ASSUME NEW u \in Turn \ {t}
      PROVE  turn'[u] \in TurnRow /\ Kept(turn[u], turn'[u])
  BY <1>1, <1>3, RowKept DEF Typed
<1>10. Typed'
  BY <1>1, <1>2, <1>3, <1>4, <1>5, <1>7, <1>8, <1>9 DEF Typed
<1>11. \A u \in Turn : u < t => Ended(u)' \/ turn'[u].hidden
  <2> TAKE u \in Turn
  <2> HAVE u < t
  <2>1. u # t /\ turn[u].status # "absent"
    BY <1>3 DEF Turn
  <2>2. turn'[u] = Reaped(turn[u]) /\ turn'[u] \in TurnRow /\ Kept(turn[u], turn'[u])
    BY <1>3, <1>9, <2>1
  <2> QED
    BY <1>3, <2>1, <2>2 DEF Ended, Kept, Later, TurnRow
<1>12. \A u \in Turn : t < u => turn[u].status = "absent" /\ turn'[u].status = "absent"
  <2> TAKE u \in Turn
  <2> HAVE t < u
  <2>1. u # t
    BY DEF Turn
  <2>2. turn[u].status = "absent"
    BY <1>3 DEF TurnInv, Standing, EndedBefore, Ended
  <2> QED
    BY <1>9, <2>1, <2>2 DEF Kept, Later
<1>13. Standing'
  <2>1. ASSUME NEW u \in Turn
        PROVE  Unbegun(u)' /\ (turn'[u].hidden => Ended(u)')
    <3>1. CASE u = t
      BY <1>8, <3>1 DEF Unbegun
    <3>2. CASE u # t
      BY <1>2, <1>7, <1>9, <3>2 DEF TurnInv, Standing, Unbegun, Ended, Kept, Later
    <3> QED
      BY <3>1, <3>2
  <2>2. ASSUME NEW u \in Turn, NEW v \in Turn, u < v, turn'[v].status # "absent"
        PROVE  Ended(u)' \/ turn'[u].hidden
    <3>1. CASE u < t
      BY <1>11, <3>1
    <3>2. CASE u >= t
      <4>1. t < v
        BY <2>2, <3>2 DEF Turn
      <4> QED
        BY <1>12, <2>2, <4>1
    <3> QED
      BY <3>1, <3>2 DEF Turn
  <2> QED
    BY <2>1, <2>2 DEF Standing, EndedBefore
<1>14. Answering'
  <2>1. FinalOnce(t) /\ ToldBound(t)
    BY DEF TurnInv, Answering
  <2>2. FinalOnce(t)' /\ OnRoad(runner'[t]) /\ ToldBound(t)'
    BY <1>2, <1>6, <1>7, <2>1 DEF FinalOnce, OnRoad, ToldBound, Idle
  <2>3. ASSUME NEW u \in Turn \ {t}
        PROVE  FinalOnce(u)' /\ OnRoad(runner'[u]) /\ ToldBound(u)'
    BY <1>2, <1>7 DEF TurnInv, Answering, FinalOnce, ToldBound
  <2> QED
    BY <2>2, <2>3 DEF Answering
<1>15. AnswerIsBacked'
  <2>1. AnswerIsBacked
    BY DEF TurnInv
  <2>2. \A u \in Turn : turn'[u].status = "completed" <=> turn[u].status = "completed"
    BY <1>3, <1>8, <1>9 DEF Kept
  <2> QED
    BY <1>2, <2>1, <2>2 DEF AnswerIsBacked, FinalEventRecorded
<1>16. ContextIsVisible'
  <2> SUFFICES ASSUME NEW u \in Turn, NEW c \in context[u],
                      turn'[u].status \in {"running", "completed"}, ~turn'[u].hidden
               PROVE  turn'[c].status = "completed" /\ ~turn'[c].hidden /\ c < u
    BY <1>2 DEF ContextIsVisible
  <2>1. u # t /\ c \in Turn
    BY <1>1, <1>6 DEF Typed
  <2>2. turn[u].status \in {"running", "completed"} /\ ~turn[u].hidden
    BY <1>1, <1>9, <2>1 DEF Kept, Later, Typed, TurnRow
  <2>3. turn[c].status = "completed" /\ ~turn[c].hidden /\ c < u
    BY <2>2 DEF TurnInv, ContextIsVisible
  <2>4. c # t
    BY <1>3, <2>3
  <2> QED
    BY <1>9, <2>1, <2>3, <2>4 DEF Kept
<1>17. ShownAnswerIsBound'
  BY <1>2, <1>6, <1>7, ShownKept DEF TurnInv, Idle
<1> QED
  BY <1>10, <1>13, <1>14, <1>15, <1>16, <1>17, TypesNamed DEF TurnInv

-------------------------------------------------------------------------------
(* The theorems.                                                           *)

\* The initial states satisfy the invariant.
LEMMA InitTurns == ASSUME TurnAssumption PROVE TurnInit => TurnInv
<1> SUFFICES ASSUME TurnInit PROVE TurnInv
  OBVIOUS
<1> USE DEF TurnInit
<1>1. allowance \in Allowance
  BY DEF TurnAssumption
<1>2. Typed
  BY <1>1 DEF Typed, TurnRow, UsageRow, TraceRow, RunnerRow, RequestRow, BrowserRow, NoRow,
              NoRequest, Idle, Pc, Halted, TurnAssumption
<1>3. Standing
  BY DEF Standing, Unbegun, EndedBefore, NoRow
<1>4. Answering
  BY DEF Answering, FinalOnce, OnRoad, OutcomePending, ToldBound, Idle, NoRequest
<1>5. AnswerIsBacked /\ ContextIsVisible /\ ShownAnswerIsBound
  BY DEF AnswerIsBacked, ContextIsVisible, ShownAnswerIsBound, NoRow
<1> QED
  BY <1>2, <1>3, <1>4, <1>5, TypesNamed DEF TurnInv

\* Every step keeps the invariant.
LEMMA StepTurns ==
  ASSUME TurnAssumption, TurnInv, [TurnNext]_turnVars
  PROVE  TurnInv'
<1>1. CASE UNCHANGED turnVars
  BY <1>1 DEF turnVars, TurnInv, TurnTypeOK, Standing, Unbegun, EndedBefore, Ended, Answering,
       FinalOnce, ToldBound, AnswerIsBacked, FinalEventRecorded, ContextIsVisible,
       ShownAnswerIsBound
<1>2. ASSUME NEW t \in Turn, RunnerStep(t)
      PROVE  TurnInv'
  BY <1>2, BeginTurnKeeps, LoadContextKeeps, ContextUnavailableKeeps, EmitStepKeeps,
     RecordProviderKeeps, FinishAgentKeeps, AgentThrowsKeeps, RequestFinalizationKeeps,
     CatchThrownKeeps, FinalizationAnsweredKeeps, FinalizationUnreachableKeeps,
     RecordFinalizedKeeps, RecordUnboundKeeps, DeliverUnboundKeeps, RecordFailureKeeps,
     FailAfterFlushKeeps DEF RunnerStep
<1>3. ASSUME NEW t \in Turn,
             \/ WriteEvent(t) \/ Finalize(t) \/ DropConnection(t)
             \/ Disconnect(t) \/ CrashRunner(t) \/ LeaseLapses(t) \/ Rewind(t)
      PROVE  TurnInv'
  BY <1>3, WriteEventKeeps, FinalizeKeeps, DropConnectionKeeps, DisconnectKeeps,
     CrashRunnerKeeps, LeaseLapsesKeeps, RewindKeeps
<1>4. CASE ReapTurns
  BY <1>4, ReapTurnsKeeps
<1> QED
  BY <1>1, <1>2, <1>3, <1>4 DEF TurnNext

\* TurnInv is an invariant, for any number of turns, retries, events and faults.
THEOREM TurnInvariant == TurnSpec => []TurnInv
<1>1. TurnInit => TurnInv
  BY InitTurns, TurnAssumption
<1>2. TurnInv /\ [TurnNext]_turnVars => TurnInv'
  BY StepTurns, TurnAssumption
<1> QED
  BY <1>1, <1>2, PTL DEF TurnSpec

\* Every variable of the conversation keeps its type; in particular the finalizer
\* makes no more attempts than it is given.
THEOREM TurnTypes == TurnSpec => []TurnTypeOK
<1>1. TurnInv => TurnTypeOK
  BY DEF TurnInv
<1> QED
  BY <1>1, TurnInvariant, PTL

\* A completed turn has an artifact of the very event the trace table holds
\* (finalize_answer_artifact), however many writes, calls and requests were lost.
THEOREM AnswersAreBacked == TurnSpec => []AnswerIsBacked
<1>1. TurnInv => AnswerIsBacked
  BY DEF TurnInv
<1> QED
  BY <1>1, TurnInvariant, PTL

\* The model is told of visible answers of earlier turns only, also when a rewind
\* comes while it runs (albert_model_context, albert_rewind_conversation_from_turn).
THEOREM ContextsAreVisible == TurnSpec => []ContextIsVisible
<1>1. TurnInv => ContextIsVisible
  BY DEF TurnInv
<1> QED
  BY <1>1, TurnInvariant, PTL

\* An answer on the screen is bound, or its finalization is on record as failed
\* (route.ts:466).
THEOREM ShownAnswersAreBound == TurnSpec => []ShownAnswerIsBound
<1>1. TurnInv => ShownAnswerIsBound
  BY DEF TurnInv
<1> QED
  BY <1>1, TurnInvariant, PTL

\* What has ended is left alone, and what is hidden stays hidden.
LeftAlone == /\ \A u \in Turn : Ended(u) => turn'[u].status = turn[u].status
             /\ \A u \in Turn : Ended(u) => artifact'[u] = artifact[u]
             /\ \A u \in Turn : turn[u].hidden => turn'[u].hidden

\* A step that moves each turn on, and binds none that has ended.
LEMMA LeavesAlone ==
  ASSUME \A u \in Turn : Later(turn[u], turn'[u]),
         \A u \in Turn : Ended(u) => artifact'[u] = artifact[u]
  PROVE  LeftAlone
BY DEF LeftAlone, Later, Ended

\* The steps of a runner: opening the turn and failing it are the only ones that
\* touch a row.
LEMMA RunnerLeavesAlone ==
  ASSUME TurnInv, Typed, NEW t \in Turn, RunnerStep(t)
  PROVE  LeftAlone
<1>1. CASE BeginTurn(t)
  <2>1. /\ artifact' = artifact /\ turn[t].status = "absent"
        /\ turn' = [[u \in Turn |-> Reaped(turn[u])] EXCEPT ![t] = NewRow]
    BY <1>1 DEF BeginTurn
  <2>2. \A u \in Turn \ {t} : Later(turn[u], turn'[u])
    BY <2>1, RowKept DEF Typed, Kept
  <2>3. ~Ended(t) /\ ~turn[t].hidden
    BY <2>1 DEF Ended, TurnInv, Standing
  <2> QED
    BY <2>1, <2>2, <2>3 DEF LeftAlone, Later, Ended
<1>2. CASE ContextUnavailable(t) \/ DeliverUnbound(t) \/ FailAfterFlush(t)
  <2>1. artifact' = artifact
    BY <1>2 DEF ContextUnavailable, DeliverUnbound, FailAfterFlush
  <2>2. FailTurn(t) \/ turn' = turn
    BY <1>2 DEF ContextUnavailable, DeliverUnbound, FailAfterFlush
  <2>3. \A u \in Turn : Kept(turn[u], turn'[u])
    BY <2>2, FailKeeps, RowsSame DEF Typed
  <2> QED
    BY <2>1, <2>3, LeavesAlone DEF Kept
<1>3. CASE turn' = turn /\ artifact' = artifact
  BY <1>3 DEF LeftAlone
<1>4. ASSUME \/ LoadContext(t) \/ EmitStep(t) \/ RecordProvider(t) \/ FinishAgent(t)
             \/ AgentThrows(t) \/ RequestFinalization(t) \/ CatchThrown(t)
             \/ FinalizationAnswered(t) \/ FinalizationUnreachable(t)
             \/ RecordFinalized(t) \/ RecordUnbound(t) \/ RecordFailure(t)
      PROVE  turn' = turn /\ artifact' = artifact
  BY <1>4 DEF LoadContext, EmitStep, RecordProvider, FinishAgent, AgentThrows,
       RequestFinalization, CatchThrown, FinalizationAnswered, FinalizationUnreachable,
       RecordFinalized, RecordUnbound, RecordFailure
<1> QED
  BY <1>1, <1>2, <1>3, <1>4 DEF RunnerStep

\* The other steps: a binding completes a turn that was running.
LEMMA OthersLeaveAlone ==
  ASSUME TurnInv, Typed, NEW t \in Turn,
         \/ WriteEvent(t) \/ Finalize(t) \/ DropConnection(t)
         \/ Disconnect(t) \/ CrashRunner(t) \/ LeaseLapses(t) \/ Rewind(t)
  PROVE  LeftAlone
<1>1. CASE Finalize(t) \/ DropConnection(t)
  <2>1. (Bindable(t) /\ Bind(t)) \/ (turn' = turn /\ artifact' = artifact)
    BY <1>1 DEF Finalize, DropConnection
  <2>2. CASE Bindable(t) /\ Bind(t)
    <3>1. /\ \A u \in Turn : Later(turn[u], turn'[u])
          /\ \A u \in Turn \ {t} : artifact'[u] = artifact[u]
          /\ turn[t].status = "running"
      BY <2>2, BindStep DEF Typed
    <3> QED
      BY <3>1, LeavesAlone DEF Ended
  <2>3. CASE turn' = turn /\ artifact' = artifact
    BY <2>3 DEF LeftAlone
  <2> QED
    BY <2>1, <2>2, <2>3
<1>2. CASE LeaseLapses(t)
  BY <1>2 DEF LeaseLapses, LeftAlone, Typed, TurnRow
<1>3. CASE Rewind(t)
  <2>1. artifact' = artifact
    BY <1>3 DEF Rewind
  <2> QED
    BY <1>3, <2>1, RewindRows, LeavesAlone
<1>4. CASE WriteEvent(t) \/ Disconnect(t) \/ CrashRunner(t)
  <2>1. turn' = turn /\ artifact' = artifact
    BY <1>4 DEF WriteEvent, Disconnect, CrashRunner
  <2> QED
    BY <2>1 DEF LeftAlone
<1> QED
  BY <1>1, <1>2, <1>3, <1>4

\* The reaper fails turns that run.
LEMMA ReaperLeavesAlone == ASSUME Typed, ReapTurns PROVE LeftAlone
<1>1. artifact' = artifact /\ \A u \in Turn : Later(turn[u], turn'[u])
  BY ReapKeeps DEF Typed, Kept, ReapTurns
<1> QED
  BY <1>1, LeavesAlone

\* Late requests decide nothing twice: a turn that has ended stays as it is, and
\* so does its artifact (fail_albert_turn, reap_expired_conversation_turns,
\* finalize_answer_artifact and the rewind).
THEOREM TurnsAreFinal == TurnSpec => TurnIsFinal
<1>1. ASSUME TurnInv, [TurnNext]_turnVars
      PROVE  [LeftAlone]_turnVars
  <2>1. Typed
    BY <1>1, TypesNamed DEF TurnInv
  <2>2. CASE UNCHANGED turnVars
    BY <2>2
  <2>3. ASSUME TurnNext
        PROVE  LeftAlone
    <3>1. ASSUME NEW t \in Turn, RunnerStep(t)
          PROVE  LeftAlone
      BY <1>1, <2>1, <3>1, RunnerLeavesAlone
    <3>2. ASSUME NEW t \in Turn,
                 \/ WriteEvent(t) \/ Finalize(t) \/ DropConnection(t)
                 \/ Disconnect(t) \/ CrashRunner(t) \/ LeaseLapses(t) \/ Rewind(t)
          PROVE  LeftAlone
      BY <1>1, <2>1, <3>2, OthersLeaveAlone
    <3>3. CASE ReapTurns
      BY <2>1, <3>3, ReaperLeavesAlone
    <3> QED
      BY <2>3, <3>1, <3>2, <3>3 DEF TurnNext
  <2> QED
    BY <1>1, <2>2, <2>3
<1>2. TurnInv /\ [TurnNext]_turnVars =>
        [\A t \in Turn :
           /\ turn[t].status \in {"completed", "failed"} =>
                turn'[t].status = turn[t].status /\ artifact'[t] = artifact[t]
           /\ turn[t].hidden => turn'[t].hidden]_turnVars
  BY <1>1 DEF LeftAlone, Ended
<1> QED
  BY <1>2, TurnInvariant, PTL DEF TurnSpec, TurnIsFinal
================================================================================
