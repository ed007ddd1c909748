--------------------------- MODULE ConversationTurns ---------------------------
(***************************************************************************)
(* The turns of one conversation: the POST handler that runs a turn        *)
(* (app/api/conversation/route.ts), the trace emitter with its queue of    *)
(* writes, the ledger of model usage, the semantic service that binds the  *)
(* answer into its artifact, and the database functions they call.         *)
(*                                                                         *)
(* One action is one database transaction, or one step of a runner between *)
(* two awaits.  A runner's steps interleave with those of the runners of   *)
(* the other turns, with the queue of trace writes, with the semantic      *)
(* service, which goes on with a request its caller has given up, with the *)
(* reaper, with a rewind and with the browser.  Time is not counted: a     *)
(* lease or a timeout may run out at any moment.                           *)
(***************************************************************************)
EXTENDS Integers

CONSTANTS
  MaxTurns,    \* bound: turns of the conversation
  MaxRetries,  \* attempts the finalizer makes after the first, 2 in the code
  Allowances,  \* bounds to explore: turns, progress events and faults
  NoKind

\* A turn goes by its turn_number, which begin_albert_turn gives out in order.
Turn == 1 .. MaxTurns

Allowance == [turns : Nat, steps : Nat, faults : Nat]

ASSUME TurnAssumption ==
  /\ MaxTurns \in Nat
  /\ MaxRetries \in Nat
  /\ Allowances \subseteq Allowance
  /\ NoKind \notin {"answer", "clarification"}

Kind == {"answer", "clarification"}
Failure == {"client_disconnected", "turn_timeout", "runtime_failure",
            "artifact_finalization_failed"}
Outcome == Failure \cup {"answer_finalized"}

VARIABLES
  turn,        \* turn[t]: its row of conversation_turns
  artifact,    \* artifact[t]: the kind of answer bound by answer_artifacts
  recorded,    \* recorded[t]: rows of conversation_turn_events, contiguous
  consumed,    \* consumed[t]: the turn that confirmed an option t offered
  usage,       \* usage[t]: its rows of model_usage_outcomes
  trace,       \* trace[t]: the emitter: events given out, writes finished
  runner,      \* runner[t]: where the handler is
  context,     \* context[t]: the turns whose answers the model was given
  request,     \* request[t]: the finalization request at the semantic service
  browser,     \* browser[t]: the stream's other end
  allowance    \* what may still happen: POSTs, progress events, faults

turnVars == <<turn, artifact, recorded, consumed, usage, trace, runner, context,
              request, browser, allowance>>

NoRow == [status |-> "absent", lapsed |-> FALSE, hidden |-> FALSE]
NewRow == [NoRow EXCEPT !.status = "running"]

NoRequest == [state |-> "none", retries |-> 0]

Idle == [pc |-> "idle", metered |-> FALSE, attempted |-> FALSE, outcome |-> "none",
         durable |-> FALSE]

Halted == {"idle", "done", "dead"}
Pc == Halted \cup {"context", "agent", "answered", "thrown", "finalizing", "bound",
                   "unbound", "fallback", "caught", "flush"}

TurnTypeOK ==
  /\ turn \in [Turn -> [status : {"absent", "running", "completed", "failed"},
                        lapsed : BOOLEAN, hidden : BOOLEAN]]
  /\ artifact \in [Turn -> Kind \cup {NoKind}]
  /\ recorded \in [Turn -> Nat]
  /\ consumed \in [Turn -> Turn \cup {0}]
  /\ usage \in [Turn -> [provider : BOOLEAN, terminal : Outcome \cup {"none"}]]
  /\ trace \in [Turn -> [emitted : Nat, settled : Nat, final : Nat,
                         kind : Kind \cup {NoKind}]]
  /\ runner \in [Turn -> [pc : Pc, metered : BOOLEAN, attempted : BOOLEAN,
                          outcome : Outcome \cup {"none"}, durable : BOOLEAN]]
  /\ context \in [Turn -> SUBSET Turn]
  /\ request \in [Turn -> [state : {"none", "sent", "bound", "refused"},
                           retries : 0 .. MaxRetries]]
  /\ browser \in [Turn -> [open : BOOLEAN, got : SUBSET (Kind \cup {"error"})]]
  /\ allowance \in Allowance

TurnInit ==
  /\ turn = [t \in Turn |-> NoRow]
  /\ artifact = [t \in Turn |-> NoKind]
  /\ recorded = [t \in Turn |-> 0]
  /\ consumed = [t \in Turn |-> 0]
  /\ usage = [t \in Turn |-> [provider |-> FALSE, terminal |-> "none"]]
  /\ trace = [t \in Turn |-> [emitted |-> 0, settled |-> 0, final |-> 0, kind |-> NoKind]]
  /\ runner = [t \in Turn |-> Idle]
  /\ context = [t \in Turn |-> {}]
  /\ request = [t \in Turn |-> NoRequest]
  /\ browser = [t \in Turn |-> [open |-> FALSE, got |-> {}]]
  /\ allowance \in Allowances

-------------------------------------------------------------------------------
(* Helpers.                                                                *)

\* A step in which n more faults happen.
Faulty(n) ==
  /\ allowance.faults >= n
  /\ allowance' = [allowance EXCEPT !.faults = @ - n]

At(t, pc) == runner[t].pc = pc

\* Its own variables go with the handler; the usage outcome is told from outside.
Moved(r, pc) ==
  IF pc \in Halted THEN [Idle EXCEPT !.pc = pc, !.outcome = r.outcome]
                   ELSE [r EXCEPT !.pc = pc]
GoTo(t, pc) == runner' = [runner EXCEPT ![t] = Moved(@, pc)]

\* An event reaches the browser only while the stream is open.
Deliver(t, event) ==
  browser' = [browser EXCEPT ![t].got = IF browser[t].open THEN @ \cup {event} ELSE @]

\* The lease means nothing once the turn has ended.
Settled(row, status) == [row EXCEPT !.status = status, !.lapsed = FALSE]

\* Mutant of Reaped: the reaper looks at no turn.
ReapedNever(row) == row

\* reap_expired_conversation_turns
Reaped(row) == IF row.status = "running" /\ row.lapsed THEN Settled(row, "failed") ELSE row

\* The answers albert_model_context hands to the model.
ModelContext == {t \in Turn : /\ turn[t].status = "completed"
                              /\ ~turn[t].hidden
                              /\ artifact[t] # NoKind}

\* The final visible event finalize_answer_artifact reads back is the one the
\* runner names in its request.
FinalEventRecorded(t) == trace[t].final # 0 /\ trace[t].final <= recorded[t]

-------------------------------------------------------------------------------
(* Opening a turn.                                                         *)

\* begin_albert_turn: reap, then refuse while another turn runs.  A turn may
\* confirm one option of a completed clarification that nobody has confirmed.
BeginTurn(t) ==
  LET row == [u \in Turn |-> Reaped(turn[u])] IN
  /\ allowance.turns > 0
  /\ turn[t].status = "absent" /\ \A u \in 1 .. t - 1 : turn[u].status # "absent"
  /\ \A u \in Turn : ~(row[u].status = "running" /\ ~row[u].hidden)
  /\ turn' = [row EXCEPT ![t] = NewRow]
  /\ \/ UNCHANGED consumed
     \/ \E c \in Turn :
          /\ consumed[c] = 0
          /\ row[c].status = "completed" /\ ~row[c].hidden
          /\ artifact[c] = "clarification"
          /\ consumed' = [consumed EXCEPT ![c] = t]
  /\ allowance' = [allowance EXCEPT !.turns = @ - 1]
  /\ GoTo(t, "context")
  /\ UNCHANGED <<artifact, recorded, usage, trace, context, request, browser>>

\* loadConversationModelContext; the response starts to stream.
LoadContext(t) ==
  /\ At(t, "context")
  /\ context' = [context EXCEPT ![t] = ModelContext]
  /\ browser' = [browser EXCEPT ![t].open = TRUE]
  /\ GoTo(t, "agent")
  /\ UNCHANGED <<turn, artifact, recorded, consumed, usage, trace, request, allowance>>

\* Mutant of FailTurn: it does not look at the turn's status.
FailTurnAlways(t) == turn' = [turn EXCEPT ![t] = Settled(@, "failed")]

\* fail_albert_turn, which leaves a failed turn alone and refuses a completed one.
FailTurn(t) ==
  turn' = IF turn[t].status = "running" THEN [turn EXCEPT ![t] = Settled(@, "failed")]
                                        ELSE turn

\* The context cannot be loaded: the turn is failed, if that call gets through,
\* and the caller gets a plain error.
ContextUnavailable(t) ==
  /\ At(t, "context")
  /\ \/ FailTurn(t) /\ Faulty(1)
     \/ UNCHANGED turn /\ Faulty(2)
  /\ GoTo(t, "done")
  /\ UNCHANGED <<artifact, recorded, consumed, usage, trace, context, request, browser>>

-------------------------------------------------------------------------------
(* Running the agent.                                                      *)

Emitted(t) == [trace EXCEPT ![t].emitted = @ + 1]

\* A progress event, a query or a table: shown at once, written later.
EmitStep(t) ==
  /\ At(t, "agent") /\ allowance.steps > 0
  /\ trace' = Emitted(t)
  /\ allowance' = [allowance EXCEPT !.steps = @ - 1]
  /\ UNCHANGED <<turn, artifact, recorded, consumed, usage, runner, context, request,
                 browser>>

\* The emitter's queue writes the next event.  albert_answer_event_append takes
\* it only for a running turn and only when its number follows the last row; a
\* write that fails is counted and never tried again.  The queue outlives the
\* runner's own steps, but not its process.
WriteEvent(t) ==
  LET next == trace[t].settled + 1
      taken == turn[t].status = "running" /\ recorded[t] + 1 = next
      written == [recorded EXCEPT ![t] = IF taken THEN next ELSE @]
  IN
  /\ ~At(t, "dead")
  /\ next <= trace[t].emitted
  /\ trace' = [trace EXCEPT ![t].settled = next]
  /\ \/ recorded' = written /\ UNCHANGED allowance
     \/ UNCHANGED recorded /\ Faulty(1)
  /\ UNCHANGED <<turn, artifact, consumed, usage, runner, context, request, browser>>

\* Is the outcome admitted by record_model_usage_checkpoint?
Admitted(t, outcome) ==
  /\ outcome = "answer_finalized" => turn[t].status = "completed" /\ artifact[t] # NoKind
  /\ outcome \in Failure => turn[t].status # "completed" /\ artifact[t] = NoKind
  /\ usage[t].terminal \in {"none", outcome}

\* DurableModelUsageLifecycle.providerCompleted, once the model has answered.
\* A semantic service that cannot be reached is ignored, whether or not it has
\* written the row; any other failure ends the run.
RecordProvider(t) ==
  LET row == [usage EXCEPT ![t].provider = TRUE]
      go(pc) == runner' = [runner EXCEPT ![t] = [@ EXCEPT !.metered = TRUE, !.pc = pc]]
  IN
  /\ At(t, "agent") /\ ~runner[t].metered
  /\ \/ usage' = row /\ go("agent") /\ UNCHANGED allowance
     \/ usage' \in {row, usage} /\ go("agent") /\ Faulty(1)
     \/ UNCHANGED usage /\ go("thrown") /\ Faulty(1)
  /\ UNCHANGED <<turn, artifact, recorded, consumed, trace, context, request, browser>>

\* The answer or the clarification is the next event and the last visible one.
Answered(t, kind) ==
  LET number == trace[t].emitted + 1 IN
  trace' = [trace EXCEPT ![t] = [@ EXCEPT !.emitted = number, !.final = number, !.kind = kind]]

\* Mutant of FinishAgent: the answer is shown when it is given out.
FinishAgentShowing(t) ==
  /\ At(t, "agent")
  /\ \E kind \in Kind : Answered(t, kind) /\ Deliver(t, kind)
  /\ GoTo(t, "answered")
  /\ UNCHANGED <<turn, artifact, recorded, consumed, usage, context, request, allowance>>

\* The run ends with an answer or a clarification.  The event is numbered and
\* queued like any other, but held back from the browser.
FinishAgent(t) ==
  /\ At(t, "agent")
  /\ \E kind \in Kind : Answered(t, kind)
  /\ GoTo(t, "answered")
  /\ UNCHANGED <<turn, artifact, recorded, consumed, usage, context, request, browser,
                 allowance>>

\* The provider, a tool or an abort ends the run without an answer.
AgentThrows(t) ==
  /\ At(t, "agent")
  /\ GoTo(t, "thrown")
  /\ UNCHANGED <<turn, artifact, recorded, consumed, usage, trace, context, request,
                 browser, allowance>>

Drained(t) == trace[t].settled = trace[t].emitted

\* runLiveAlbertTurn flushes the queue whichever way it ends.  An answer without
\* metered usage is refused; otherwise the finalization is requested.
RequestFinalization(t) ==
  /\ At(t, "answered") /\ Drained(t)
  /\ IF runner[t].metered
     THEN /\ request' = [request EXCEPT ![t].state = "sent"]
          /\ runner' = [runner EXCEPT ![t] = [@ EXCEPT !.pc = "finalizing", !.attempted = TRUE]]
     ELSE /\ GoTo(t, "caught")
          /\ UNCHANGED request
  /\ UNCHANGED <<turn, artifact, recorded, consumed, usage, trace, context, browser,
                 allowance>>

CatchThrown(t) ==
  /\ At(t, "thrown") /\ Drained(t)
  /\ GoTo(t, "caught")
  /\ UNCHANGED <<turn, artifact, recorded, consumed, usage, trace, context, request,
                 browser, allowance>>

-------------------------------------------------------------------------------
(* Binding the answer.                                                     *)

\* Mutant of Bindable: the final event is not read back.
BindableUnread(t) == turn[t].status = "running"

\* finalize_answer_artifact: a running turn whose final event has been written
\* is completed and bound; the same request for a completed turn is replayed.
Bindable(t) == turn[t].status = "running" /\ FinalEventRecorded(t)
Replayed(t) == turn[t].status = "completed" /\ artifact[t] # NoKind

Bind(t) ==
  /\ turn' = [turn EXCEPT ![t] = Settled(@, "completed")]
  /\ artifact' = [artifact EXCEPT ![t] = trace[t].kind]

\* An attempt of PostgresAnswerArtifactFinalizer that comes to an end.
Finalize(t) ==
  /\ request[t].state = "sent"
  /\ \/ /\ Bindable(t)
        /\ Bind(t)
        /\ request' = [request EXCEPT ![t].state = "bound"]
     \/ /\ Replayed(t)
        /\ request' = [request EXCEPT ![t].state = "bound"]
        /\ UNCHANGED <<turn, artifact>>
     \/ /\ ~Bindable(t) /\ ~Replayed(t)
        /\ request' = [request EXCEPT ![t].state = "refused"]
        /\ UNCHANGED <<turn, artifact>>
  /\ UNCHANGED <<recorded, consumed, usage, trace, runner, context, browser, allowance>>

\* The attempts are used up.
Spent(t) == request[t].retries = MaxRetries

\* The attempt's connection is dropped, before the transaction has committed or
\* after; it is tried again while attempts are left.
DropConnection(t) ==
  /\ request[t].state = "sent"
  /\ Faulty(1)
  /\ \/ Bindable(t) /\ Bind(t)
     \/ UNCHANGED <<turn, artifact>>
  /\ request' = IF Spent(t) THEN [request EXCEPT ![t].state = "refused"]
                            ELSE [request EXCEPT ![t].retries = @ + 1]
  /\ UNCHANGED <<recorded, consumed, usage, trace, runner, context, browser>>

\* The answer to the request reaches the runner that waits for it.
FinalizationAnswered(t) ==
  /\ At(t, "finalizing")
  /\ \/ request[t].state = "bound" /\ GoTo(t, "bound")
     \/ request[t].state = "refused" /\ GoTo(t, "caught")
  /\ request' = [request EXCEPT ![t] = NoRequest]
  /\ UNCHANGED <<turn, artifact, recorded, consumed, usage, trace, context, browser,
                 allowance>>

\* No answer comes: the connection fails or the client's fifteen seconds are up
\* (isSemanticUnreachable).  A request on its way is not taken back.
FinalizationUnreachable(t) ==
  /\ At(t, "finalizing")
  /\ Faulty(1)
  /\ \/ UNCHANGED request
     \/ /\ request[t].state = "sent" /\ request[t].retries = 0
        /\ request' = [request EXCEPT ![t].state = "none"]
  /\ GoTo(t, "unbound")
  /\ UNCHANGED <<turn, artifact, recorded, consumed, usage, trace, context, browser>>

\* DurableModelUsageLifecycle.terminal: without usage, or with the outcome
\* already durable, nothing is recorded; a second, different outcome throws.
\* The callers log what it throws and go on.
RecordOutcome(t, outcome, pc) ==
  LET first == runner[t].outcome = "none"
      row == [usage EXCEPT ![t] = [provider |-> TRUE, terminal |-> outcome]]
      put == IF first THEN outcome ELSE runner[t].outcome
      go(durable) ==
        runner' = [runner EXCEPT ![t] =
                     Moved([@ EXCEPT !.durable = durable, !.outcome = put], pc)]
  IN
  IF \/ ~runner[t].metered \/ runner[t].durable
     \/ ~first /\ runner[t].outcome # outcome
  THEN GoTo(t, pc) /\ UNCHANGED <<usage, allowance>>
  ELSE \/ /\ IF Admitted(t, outcome) THEN usage' = row /\ go(TRUE)
                                     ELSE UNCHANGED usage /\ go(FALSE)
          /\ UNCHANGED allowance
       \/ /\ usage' \in {IF Admitted(t, outcome) THEN row ELSE usage, usage}
          /\ go(TRUE) /\ Faulty(1)
       \/ UNCHANGED usage /\ go(FALSE) /\ Faulty(1)

RecordFinalized(t) ==
  /\ At(t, "bound")
  /\ RecordOutcome(t, "answer_finalized", "done")
  /\ Deliver(t, trace[t].kind)
  /\ UNCHANGED <<turn, artifact, recorded, consumed, trace, context, request>>

\* Without a reachable semantic service the answer is shown all the same ...
RecordUnbound(t) ==
  /\ At(t, "unbound")
  /\ RecordOutcome(t, "artifact_finalization_failed", "fallback")
  /\ UNCHANGED <<turn, artifact, recorded, consumed, trace, context, request, browser>>

\* ... and the turn is failed.  If that call throws, the error path runs too.
DeliverUnbound(t) ==
  /\ At(t, "fallback")
  /\ Deliver(t, trace[t].kind)
  /\ \/ /\ turn[t].status # "completed"
        /\ FailTurn(t) /\ GoTo(t, "done") /\ UNCHANGED allowance
     \/ /\ turn[t].status = "completed"
        /\ UNCHANGED <<turn, allowance>> /\ GoTo(t, "caught")
     \/ UNCHANGED turn /\ GoTo(t, "caught") /\ Faulty(1)
  /\ UNCHANGED <<artifact, recorded, consumed, usage, trace, context, request>>

-------------------------------------------------------------------------------
(* The error path: put down the outcome, tell the reader, fail the turn.   *)

\* The outcome the handler chooses; the turn's own deadline, when one is set,
\* may have passed at any time.
ErrorOutcomes(t) ==
  IF ~browser[t].open THEN {"client_disconnected"}
  ELSE {"turn_timeout",
        IF runner[t].attempted THEN "artifact_finalization_failed" ELSE "runtime_failure"}

\* Mutant of TellFailure: a deadline is told to nobody.
TellFailureUnlessLate(t, outcome) ==
  IF outcome \in {"client_disconnected", "turn_timeout"}
  THEN UNCHANGED <<trace, browser>>
  ELSE trace' = Emitted(t) /\ Deliver(t, "error")

\* Whoever still listens is sent an error event, which goes into the trace too.
TellFailure(t, outcome) ==
  IF outcome = "client_disconnected"
  THEN UNCHANGED <<trace, browser>>
  ELSE trace' = Emitted(t) /\ Deliver(t, "error")

RecordFailure(t) ==
  /\ At(t, "caught")
  /\ \E outcome \in ErrorOutcomes(t) :
       RecordOutcome(t, outcome, "flush") /\ TellFailure(t, outcome)
  /\ UNCHANGED <<turn, artifact, recorded, consumed, context, request>>

\* The trace is flushed before the turn is failed; a call that throws is logged.
FailAfterFlush(t) ==
  /\ At(t, "flush") /\ Drained(t)
  /\ \/ FailTurn(t) /\ UNCHANGED allowance
     \/ UNCHANGED turn /\ Faulty(1)
  /\ GoTo(t, "done")
  /\ UNCHANGED <<artifact, recorded, consumed, usage, trace, context, request, browser>>

-------------------------------------------------------------------------------
(* The environment.                                                        *)

\* The browser goes away, or the reader cancels the stream.
Disconnect(t) ==
  /\ browser[t].open /\ runner[t].pc \notin Halted
  /\ browser' = [browser EXCEPT ![t].open = FALSE]
  /\ UNCHANGED <<turn, artifact, recorded, consumed, usage, trace, runner, context,
                 request, allowance>>

\* The web process dies; a request it has sent is carried out all the same.
CrashRunner(t) ==
  /\ runner[t].pc \notin Halted
  /\ Faulty(1)
  /\ GoTo(t, "dead")
  /\ browser' = [browser EXCEPT ![t].open = FALSE]
  /\ UNCHANGED <<turn, artifact, recorded, consumed, usage, trace, context, request>>

\* The six minutes of the lease pass.  The timer of the handler does not prevent
\* it: renew_albert_turn_lease writes a column conversation_turns does not have
\* and always fails, and the handler ignores that.
LeaseLapses(t) ==
  /\ turn[t].status = "running" /\ ~turn[t].lapsed
  /\ turn' = [turn EXCEPT ![t].lapsed = TRUE]
  /\ UNCHANGED <<artifact, recorded, consumed, usage, trace, runner, context, request,
                 browser, allowance>>

\* The scheduled reaper.
ReapTurns ==
  /\ \E t \in Turn : Reaped(turn[t]) # turn[t]
  /\ turn' = [t \in Turn |-> Reaped(turn[t])]
  /\ UNCHANGED <<artifact, recorded, consumed, usage, trace, runner, context, request,
                 browser, allowance>>

\* Mutant of RewoundBy: later turns stay.
RewoundByAlone(t) == {t}

RewoundBy(t) == {u \in Turn : u >= t}

\* albert_rewind_conversation_from_turn: reap, then fail what runs and hide
\* everything from the named turn on.
Rewind(t) ==
  LET rewound(row) ==
        IF row.status = "absent" \/ row.hidden THEN row
        ELSE [Settled(row, IF row.status = "running" THEN "failed" ELSE row.status)
                EXCEPT !.hidden = TRUE]
  IN
  /\ turn[t].status # "absent" /\ ~turn[t].hidden
  /\ turn' = [u \in Turn |-> IF u \in RewoundBy(t) THEN rewound(Reaped(turn[u]))
                                                  ELSE Reaped(turn[u])]
  /\ UNCHANGED <<artifact, recorded, consumed, usage, trace, runner, context, request,
                 browser, allowance>>

RunnerStep(t) ==
  \/ BeginTurn(t) \/ LoadContext(t) \/ ContextUnavailable(t)
  \/ EmitStep(t) \/ RecordProvider(t) \/ FinishAgent(t) \/ AgentThrows(t)
  \/ RequestFinalization(t) \/ CatchThrown(t)
  \/ FinalizationAnswered(t) \/ FinalizationUnreachable(t)
  \/ RecordFinalized(t) \/ RecordUnbound(t) \/ DeliverUnbound(t)
  \/ RecordFailure(t) \/ FailAfterFlush(t)

TurnNext ==
  \/ \E t \in Turn :
       \/ RunnerStep(t)
       \/ WriteEvent(t) \/ Finalize(t) \/ DropConnection(t)
       \/ Disconnect(t) \/ CrashRunner(t) \/ LeaseLapses(t) \/ Rewind(t)
  \/ ReapTurns

TurnSpec == TurnInit /\ [][TurnNext]_turnVars

\* Every promise a runner waits for settles (the agent's run is bounded by its
\* turns, each call by a timeout), the queue of writes and the semantic service
\* go on, time passes and cron runs the reaper.  Nobody has to open a turn.
TurnFairness ==
  /\ \A t \in Turn : /\ WF_turnVars(runner[t].pc # "idle" /\ RunnerStep(t))
                     /\ WF_turnVars(WriteEvent(t))
                     /\ WF_turnVars(Finalize(t))
                     /\ WF_turnVars(LeaseLapses(t))
  /\ WF_turnVars(ReapTurns)

TurnFairSpec == TurnSpec /\ TurnFairness

-------------------------------------------------------------------------------
(* Properties.                                                             *)

\* A turn is completed exactly when its answer is bound, and what is bound is
\* the final event the trace table holds: no artifact for an event whose write
\* was lost (answer-artifact-finalizer.ts, finalize_answer_artifact).
AnswerIsBacked ==
  \A t \in Turn :
    /\ (turn[t].status = "completed") <=> (artifact[t] # NoKind)
    /\ artifact[t] # NoKind => FinalEventRecorded(t) /\ artifact[t] = trace[t].kind

\* Late requests decide nothing twice: a completed or failed turn stays what it
\* is and keeps its artifact, whatever retry, reaper, rewind or fail call comes
\* after, and a hidden turn stays hidden.
TurnIsFinal ==
  [][\A t \in Turn :
       /\ turn[t].status \in {"completed", "failed"} =>
            turn'[t].status = turn[t].status /\ artifact'[t] = artifact[t]
       /\ turn[t].hidden => turn'[t].hidden]_turnVars

\* The browser sees an answer before it is bound on one path only, the one that
\* has put down the finalization as failed (route.ts:466).
ShownAnswerIsBound ==
  \A t \in Turn :
    browser[t].got \cap Kind # {} =>
      \/ artifact[t] # NoKind
      \/ runner[t].outcome = "artifact_finalization_failed"

\* What the model was told is still part of the conversation: a turn that is
\* running or answered, and visible, was given only visible answers of earlier
\* turns, also when a rewind came while it ran.
ContextIsVisible ==
  \A t \in Turn :
    turn[t].status \in {"running", "completed"} /\ ~turn[t].hidden =>
      \A c \in context[t] : turn[c].status = "completed" /\ ~turn[c].hidden /\ c < t

\* No turn stays open: a crash, a failed call to fail_albert_turn or a runner
\* that lost its turn is made good by the lease and the reaper.
EveryTurnEnds == \A t \in Turn : turn[t].status = "running" ~> turn[t].status # "running"

\* A reader who stays gets an answer or an error, unless the process dies.
EveryReaderIsTold ==
  \A t \in Turn : browser[t].open ~> browser[t].got # {} \/ ~browser[t].open

-------------------------------------------------------------------------------
(* What the repository says of the turn and the code does not keep.        *)

\* artifact-store.ts:98: a turn that is still streaming "is never mistaken for
\* an abandoned one".
LiveTurnIsNotReaped ==
  \A t \in Turn : At(t, "agent") /\ ~turn[t].hidden => turn[t].status = "running"
================================================================================
