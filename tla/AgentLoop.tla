------------------------------ MODULE AgentLoop ------------------------------
(***************************************************************************)
(* One run of the agent, end to end: the ChatPanel of the browser, the     *)
(* planner sessions of py-planner (agent_loop.py) that its SSE requests    *)
(* start, and the step handlers of go-engine (StepLifecycle), whose only   *)
(* client is now the planner.                                              *)
(*                                                                         *)
(* A session is one call of AgentLoop.start or AgentLoop.resume.  It is a  *)
(* generator that awaits one reply at a time: its stage names what it does *)
(* next or waits for.  Whatever it had asked go-engine for goes on when    *)
(* the session dies.                                                       *)
(***************************************************************************)
EXTENDS StepLifecycle, Sequences

CONSTANTS
    Sessions,       \* one-shot identities of planner sessions
    NoSession,
    UnknownTool,    \* a name the model made up
    MaxIterations,  \* MAX_ITERATIONS of agent_loop.py
    MaxCalls,       \* bound: tool calls the model proposes in one turn
    MaxFaults       \* bound: statements that fail, losses and crashes

ASSUME AgentAssumption ==
    /\ NoSession \notin Sessions
    /\ UnknownTool \notin Tools \cup {Unusable}
    /\ Runs # {}
    /\ MaxIterations \in Nat /\ MaxCalls \in Nat /\ MaxFaults \in Nat

VARIABLES
    sess,           \* the planner sessions
    runStatus,      \* execution_runs.status of the run, "none" before CreateRun
    patches,        \* PATCH requests sent and not handled yet
    ui,             \* the state of ChatPanel
    frame,          \* awaiting_confirmation frame of a stream not delivered yet
    told,           \* what the conversation says of each step's outcome
    decided,        \* history: what the user chose for each step
    faults          \* number of faults so far

agentVars == <<sess, runStatus, patches, ui, frame, told, decided, faults>>
appVars == <<vars, agentVars>>

------------------------------------------------------------------------------
(* Types *)

Waiting == {"creating", "executing", "confirming", "patching"}
Live == Waiting \cup {"create_run", "load_tools", "llm", "calls", "send_execute",
                      "send_patch", "confirm", "get_run", "reload_tools", "rebuild"}

Session == [stage    : {"idle", "ended", "died"} \cup Live,
            iter     : 0..MaxIterations,
            queue    : Seq(Tools \cup {UnknownTool}),
            req      : SUBSET Requests,
            step     : Steps \cup {NoStep},
            approved : BOOLEAN,
            status   : {"none", "awaiting_confirmation", "completed", "failed"}]

RunStatus == {"none", "pending", "awaiting_confirmation", "completed", "failed"}

\* The tool_result the model reads for a step: the API's answer, an error text,
\* nothing at all (null), or "step was not approved and was skipped".
Told == {"untold", "result", "error", "null", "not_approved"}

AgentTypeOK ==
    /\ sess \in [Sessions -> Session]
    /\ runStatus \in RunStatus
    /\ patches \subseteq [by : Sessions, status : RunStatus]
    /\ ui \in [plan    : Sessions \cup {NoSession},
               confirm : Sessions \cup {NoSession},
               pending : Steps \cup {NoStep}]
    /\ frame \in [Sessions -> Steps \cup {NoStep}]
    /\ told \in [Steps -> Told]
    /\ decided \in [Steps -> SUBSET {"approve", "reject"}]
    /\ faults \in 0..MaxFaults

IdleSession == [stage |-> "idle", iter |-> 0, queue |-> <<>>, req |-> {},
                step |-> NoStep, approved |-> FALSE, status |-> "none"]

AgentInit ==
    /\ sess = [p \in Sessions |-> IdleSession]
    /\ runStatus = "none"
    /\ patches = {}
    /\ ui = [plan |-> NoSession, confirm |-> NoSession, pending |-> NoStep]
    /\ frame = [p \in Sessions |-> NoStep]
    /\ told = [s \in Steps |-> "untold"]
    /\ decided = [s \in Steps |-> {}]
    /\ faults = 0

------------------------------------------------------------------------------
(* Parts the actions share *)

\* Bound: there is one run.
TheRun == CHOOSE run \in Runs : TRUE

Unsent == {r \in Requests : pc[r] = "unsent"}
Fresh == CHOOSE r \in Unsent : TRUE

At(p, stage) == sess[p].stage = stage
Becomes(p, session) == sess' = [sess EXCEPT ![p] = session]
MovesTo(p, stage) == Becomes(p, [sess[p] EXCEPT !.stage = stage])

\* update_run_status(run_id, status); the session returns after it.
WillPatch(p, status) ==
    Becomes(p, [sess[p] EXCEPT !.stage = "send_patch", !.status = status])

\* The request p awaits has been answered, well or with a GoEngineError.
Answered(p) == \A r \in sess[p].req : pc[r] \in Ended
AnsweredWell(p) == \A r \in sess[p].req : pc[r] = "replied"

\* p sends a request, the one its action names, and awaits the reply.
Awaits(p, stage) ==
    /\ Unsent # {}
    /\ Becomes(p, [sess[p] EXCEPT !.stage = stage, !.req = {Fresh}])

Fault == /\ faults < MaxFaults
         /\ faults' = faults + 1

------------------------------------------------------------------------------
(* ChatPanel *)

\* handleSend, guarded by isRunning.  Bound: the first prompt only.
HandleSend(p) ==
    /\ At(p, "idle") /\ runStatus = "none"
    /\ \A q \in Sessions : At(q, "idle")
    /\ ui' = [ui EXCEPT !.plan = p]
    /\ MovesTo(p, "create_run")
    /\ UNCHANGED <<vars, runStatus, patches, frame, told, decided, faults>>

\* The modal's buttons are disabled while a confirmation is being processed.
ModalEnabled == ui.pending # NoStep /\ ui.confirm = NoSession

\* handleConfirmation up to its await: /plan/confirm starts a session.
HandleConfirmation(p, approved) ==
    /\ ModalEnabled
    /\ At(p, "idle")
    /\ ui' = [ui EXCEPT !.confirm = p]
    /\ Becomes(p, [sess[p] EXCEPT !.stage = "confirm", !.step = ui.pending,
                                  !.approved = approved])
    /\ decided' = [decided EXCEPT ![ui.pending] =
                      @ \cup {IF approved THEN "approve" ELSE "reject"}]
    /\ UNCHANGED <<vars, runStatus, patches, frame, told, faults>>

\* handleEvent of an awaiting_confirmation frame.
HandleEvent(p) ==
    /\ frame[p] # NoStep
    /\ p \in {ui.plan, ui.confirm}
    /\ ui' = [ui EXCEPT !.pending = frame[p]]
    /\ frame' = [frame EXCEPT ![p] = NoStep]
    /\ UNCHANGED <<vars, sess, runStatus, patches, told, decided, faults>>

\* The finally block of handleConfirmation closes the modal, whichever step it
\* shows by then.
PendingAfterConfirm == NoStep

\* The stream of a session ends: the finally blocks of handleSend and of
\* handleConfirmation.  A connection that broke takes undelivered frames along.
StreamEnds(p) ==
    /\ p \in {ui.plan, ui.confirm}
    /\ (At(p, "ended") /\ frame[p] = NoStep) \/ At(p, "died")
    /\ ui' = IF p = ui.plan
             THEN [ui EXCEPT !.plan = NoSession]
             ELSE [ui EXCEPT !.confirm = NoSession, !.pending = PendingAfterConfirm]
    /\ frame' = [frame EXCEPT ![p] = NoStep]
    /\ UNCHANGED <<vars, sess, runStatus, patches, told, decided, faults>>

------------------------------------------------------------------------------
(* AgentLoop.start up to the loop *)

CreateRun(p) ==
    /\ At(p, "create_run")
    /\ \/ runStatus' = "pending" /\ MovesTo(p, "load_tools") /\ UNCHANGED faults
       \/ Fault /\ MovesTo(p, "ended") /\ UNCHANGED runStatus
    /\ UNCHANGED <<vars, patches, ui, frame, told, decided>>

LoadTools(p) ==
    /\ At(p, "load_tools")
    /\ \/ MovesTo(p, "llm") /\ UNCHANGED faults
       \/ Fault /\ WillPatch(p, "failed")
    /\ UNCHANGED <<vars, runStatus, patches, ui, frame, told, decided>>

------------------------------------------------------------------------------
(* AgentLoop.resume up to the loop *)

\* (slip) The answer of the user is not passed on.
AnswerLost(p) == TRUE

\* The approved field of the body of confirm_step.
Answer(p) == sess[p].approved

Confirm(p) ==
    /\ At(p, "confirm")
    /\ SendConfirm(Fresh, TheRun, sess[p].step, Answer(p))
    /\ Awaits(p, "confirming")
    /\ UNCHANGED <<runStatus, patches, ui, frame, told, decided, faults>>

\* A confirmation that fails ends the session; the run keeps its status.
ConfirmReplied(p) ==
    /\ At(p, "confirming") /\ Answered(p)
    /\ MovesTo(p, IF AnsweredWell(p) THEN "get_run" ELSE "ended")
    /\ UNCHANGED <<vars, runStatus, patches, ui, frame, told, decided, faults>>

\* The run is read for its prompt, then the tools.
GetRun(p) ==
    /\ At(p, "get_run")
    /\ \/ MovesTo(p, "reload_tools") /\ UNCHANGED faults
       \/ Fault /\ MovesTo(p, "ended")
    /\ UNCHANGED <<vars, runStatus, patches, ui, frame, told, decided>>

ReloadTools(p) ==
    /\ At(p, "reload_tools")
    /\ \/ MovesTo(p, "rebuild") /\ UNCHANGED faults
       \/ Fault /\ MovesTo(p, "ended")
    /\ UNCHANGED <<vars, runStatus, patches, ui, frame, told, decided>>

\* What _rebuild_messages_from_history makes of a step's row.  error_message is
\* set by the handlers together with 'error'.
Retold(s) ==
    CASE row[s].status \in {"absent", "pending"} -> "untold"
      [] row[s].status = "success" -> "result"
      [] row[s].status = "error" -> "error"
      [] row[s].status \in {"skipped", "executing", "awaiting_confirmation"} -> "not_approved"

\* (slip) A resumed session first carries out what it finds pending in the history.
FinishesPending(p) ==
    /\ At(p, "rebuild")
    /\ told' = [s \in Steps |-> IF row[s].run = TheRun THEN Retold(s) ELSE "untold"]
    /\ \/ \E s \in StepsOf(TheRun) :
             /\ row[s].status = "pending"
             /\ Becomes(p, [sess[p] EXCEPT !.stage = "send_execute", !.step = s,
                                           !.queue = <<row[s].tool>>])
       \/ /\ \A s \in StepsOf(TheRun) : row[s].status # "pending"
          /\ MovesTo(p, "llm")
    /\ UNCHANGED <<vars, runStatus, patches, ui, frame, decided, faults>>

RebuildMessages(p) ==
    /\ At(p, "rebuild")
    /\ told' = [s \in Steps |-> IF row[s].run = TheRun THEN Retold(s) ELSE "untold"]
    /\ MovesTo(p, "llm")
    /\ UNCHANGED <<vars, runStatus, patches, ui, frame, decided, faults>>

------------------------------------------------------------------------------
(* _drive_loop *)

\* (slip) The loop is not bounded.
IterationsUnbounded(p) == 0

Iterations(p) == sess[p].iter + 1

\* What the model may propose in a turn.
Calls == UNION {[1..n -> Tools \cup {UnknownTool}] : n \in 1..MaxCalls}

\* Bound: no more calls than there are requests left for them, for the
\* confirmation of the last one and for what follows.
Fits(proposed) ==
    2 * Len(SelectSeq(proposed, LAMBDA t : t # UnknownTool)) + 1 <= Cardinality(Unsent)

\* One turn of the model: it fails, answers, or proposes tool calls.
CallLlm(p) ==
    /\ At(p, "llm")
    /\ \/ sess[p].iter = MaxIterations /\ WillPatch(p, "failed")
       \/ /\ sess[p].iter < MaxIterations
          /\ \/ WillPatch(p, "failed")
             \/ WillPatch(p, "completed")
             \/ \E proposed \in Calls :
                   /\ Fits(proposed)
                   /\ Becomes(p, [sess[p] EXCEPT !.stage = "calls", !.queue = proposed,
                                                 !.iter = Iterations(p)])
    /\ UNCHANGED <<vars, runStatus, patches, ui, frame, told, decided, faults>>

\* A name the model made up gets an error as its result.
CallUnknown(p) ==
    /\ At(p, "calls") /\ sess[p].queue # <<>> /\ Head(sess[p].queue) = UnknownTool
    /\ Becomes(p, [sess[p] EXCEPT !.queue = Tail(@)])
    /\ UNCHANGED <<vars, runStatus, patches, ui, frame, told, decided, faults>>

\* The step of the next call is recorded, to be confirmed if it is destructive.
CreateStep(p) ==
    LET tool == Head(sess[p].queue)
    IN  /\ At(p, "calls") /\ sess[p].queue # <<>> /\ tool # UnknownTool
        /\ SendCreate(Fresh, TheRun, tool, tool \in Destructive)
        /\ Awaits(p, "creating")
        /\ UNCHANGED <<runStatus, patches, ui, frame, told, decided, faults>>

\* The step could not be recorded: the call is dropped without a result.
CreateFailed(p) ==
    /\ At(p, "creating") /\ Answered(p) /\ ~ AnsweredWell(p)
    /\ Becomes(p, [sess[p] EXCEPT !.stage = "calls", !.queue = Tail(@)])
    /\ UNCHANGED <<vars, runStatus, patches, ui, frame, told, decided, faults>>

\* (slip) The rest of the turn is not given up when a step waits for the user.
GoesOnWithTurn(session, step) ==
    [session EXCEPT !.stage = "calls", !.queue = Tail(@), !.step = step]

\* (slip) The run gets a status it does not have.
PausesAsPaused(session, step) ==
    [session EXCEPT !.stage = "send_patch", !.queue = <<>>, !.step = step,
                    !.status = "paused"]

\* The user is asked first, then the run is marked, and the session returns: the
\* rest of the turn is given up.
Pauses(session, step) ==
    [session EXCEPT !.stage = "send_patch", !.queue = <<>>, !.step = step,
                    !.status = "awaiting_confirmation"]

\* The step is recorded.
CreateReplied(p) ==
    LET tool == Head(sess[p].queue)
        step == req[CHOOSE r \in sess[p].req : TRUE].step
    IN  /\ At(p, "creating") /\ Answered(p) /\ AnsweredWell(p)
        /\ IF tool \in Destructive
           THEN /\ frame' = [frame EXCEPT ![p] = step]
                /\ Becomes(p, Pauses(sess[p], step))
           ELSE /\ Becomes(p, [sess[p] EXCEPT !.stage = "send_execute", !.step = step])
                /\ UNCHANGED frame
        /\ UNCHANGED <<vars, runStatus, patches, ui, told, decided, faults>>

ExecuteStep(p) ==
    /\ At(p, "send_execute")
    /\ SendExecute(Fresh, TheRun, sess[p].step)
    /\ Awaits(p, "executing")
    /\ UNCHANGED <<runStatus, patches, ui, frame, told, decided, faults>>

\* (slip) Every answer go-engine gives is taken for a result.
ToldEveryReply(p) == "result"

\* executed.get("result"): the reply about a step in error has no result.
ToldReply(p) == IF ~ AnsweredWell(p) THEN "error"
                ELSE IF row[sess[p].step].status = "success" THEN "result" ELSE "null"

ExecuteReplied(p) ==
    /\ At(p, "executing") /\ Answered(p)
    /\ told' = [told EXCEPT ![sess[p].step] = ToldReply(p)]
    /\ Becomes(p, [sess[p] EXCEPT !.stage = "calls", !.queue = Tail(@)])
    /\ UNCHANGED <<vars, runStatus, patches, ui, frame, decided, faults>>

TurnEnds(p) ==
    /\ At(p, "calls") /\ sess[p].queue = <<>>
    /\ MovesTo(p, "llm")
    /\ UNCHANGED <<vars, runStatus, patches, ui, frame, told, decided, faults>>

------------------------------------------------------------------------------
(* update_run_status and UpdateRunStatus *)

SendPatch(p) ==
    /\ At(p, "send_patch")
    /\ patches' = patches \cup {[by |-> p, status |-> sess[p].status]}
    /\ MovesTo(p, "patching")
    /\ UNCHANGED <<vars, runStatus, ui, frame, told, decided, faults>>

\* The UPDATE asks nothing of the old status.  The session returns, if it is
\* still there.
UpdateRunStatus(m) ==
    /\ runStatus' = m.status
    /\ patches' = patches \ {m}
    /\ sess' = IF At(m.by, "patching") THEN [sess EXCEPT ![m.by].stage = "ended"] ELSE sess
    /\ UNCHANGED <<vars, ui, frame, told, decided, faults>>

\* GoEngineError is not caught here: it breaks the stream.
UpdateRunStatusFails(m) ==
    /\ Fault
    /\ patches' = patches \ {m}
    /\ sess' = IF At(m.by, "patching") THEN [sess EXCEPT ![m.by].stage = "died"] ELSE sess
    /\ UNCHANGED <<vars, runStatus, ui, frame, told, decided>>

------------------------------------------------------------------------------
(* go-engine and failures *)

\* A handler of StepLifecycle takes a step.  One that ends without its answer, or
\* an event that reaches nobody, is a fault.
PublishStages == {"publish_created", "publish_skipped", "publish_executing",
                  "publish_success", "publish_error"}

Engine(r) ==
    /\ Handler(r) \/ ApiAnswers(r) \/ DbFails(r)
    /\ IF \/ pc'[r] \in {"failed", "orphaned"}
          \/ pc[r] \in PublishStages /\ announced' = announced
       THEN Fault ELSE UNCHANGED faults
    /\ UNCHANGED <<sess, runStatus, patches, ui, frame, told, decided>>

\* (slip) A timeout of httpx is handled like a GoEngineError: the loop goes on
\* while go-engine is still at work.
TimeoutIsAnswer(p) == [sess[p] EXCEPT !.stage = "calls", !.queue = IF @ = <<>> THEN @ ELSE Tail(@)]

\* (slip) A request that timed out is sent once more.
SentAgain(p) ==
    [sess[p] EXCEPT !.stage = CASE @ = "executing" -> "send_execute"
                                [] @ = "confirming" -> "confirm"
                                [] OTHER -> "calls"]

\* An exception other than GoEngineError ends the generator.
Aborted(p) == [sess[p] EXCEPT !.stage = "died"]

\* The 20 s of httpx pass or the connection breaks, while p awaits go-engine.
TransportFails(p) ==
    /\ At(p, "creating") \/ At(p, "executing") \/ At(p, "confirming")
    /\ Fault
    /\ Becomes(p, Aborted(p))
    /\ UNCHANGED <<vars, runStatus, patches, ui, frame, told, decided>>

\* The browser goes away, or an exception nobody catches ends the generator.
SessionDies(p) ==
    /\ sess[p].stage \in Live
    /\ Fault
    /\ MovesTo(p, "died")
    /\ UNCHANGED <<vars, runStatus, patches, ui, frame, told, decided>>

\* go-engine stops: the sessions that await it get a broken connection.
EngineCrash ==
    /\ Crash
    /\ Fault
    /\ patches' = {}
    /\ sess' = [p \in Sessions |->
                  IF At(p, "patching") \/ (sess[p].stage \in Waiting /\ ~ Answered(p))
                  THEN [sess[p] EXCEPT !.stage = "died"] ELSE sess[p]]
    /\ UNCHANGED <<runStatus, ui, frame, told, decided>>

------------------------------------------------------------------------------
(* Specification *)

Panel(p) == HandleEvent(p) \/ StreamEnds(p)

User(p) == HandleSend(p) \/ \E approved \in BOOLEAN : HandleConfirmation(p, approved)

Planner(p) ==
    \/ CreateRun(p) \/ LoadTools(p)
    \/ Confirm(p) \/ ConfirmReplied(p) \/ GetRun(p) \/ ReloadTools(p) \/ RebuildMessages(p)
    \/ CallLlm(p) \/ CallUnknown(p) \/ CreateStep(p) \/ CreateFailed(p) \/ CreateReplied(p)
    \/ ExecuteStep(p) \/ ExecuteReplied(p) \/ TurnEnds(p) \/ SendPatch(p)

AgentNext ==
    \/ \E p \in Sessions : User(p) \/ Panel(p) \/ Planner(p) \/ TransportFails(p) \/ SessionDies(p)
    \/ \E m \in patches : UpdateRunStatus(m) \/ UpdateRunStatusFails(m)
    \/ \E r \in Requests : Engine(r)
    \/ EngineCrash

AgentSpec == Init /\ AgentInit /\ [][AgentNext]_appVars

\* The event loops of browser and planner, the goroutines of go-engine and its
\* database go on; the model answers or its client raises.  Nothing is assumed
\* of the user, of the customer's API or of failures.
AgentFairness ==
    /\ \A p \in Sessions : WF_appVars(Panel(p)) /\ WF_appVars(Planner(p))
    /\ \A r \in Requests : WF_appVars(Engine(r) /\ Handler(r))
    /\ WF_appVars(\E m \in patches : UpdateRunStatus(m))

FairAgentSpec == AgentSpec /\ AgentFairness

------------------------------------------------------------------------------
(* Properties *)

\* No step is carried out twice, whatever times out, dies or crashes and however
\* the user clicks: neither the planner nor ChatPanel repeats a request.
OneCallPerStep ==
    \A q, r \in Requests :
        (q # r /\ calls[q] > 0 /\ calls[r] > 0) => req[q].step # req[r].step

\* Consent, end to end: the API of a destructive tool is called for a step only
\* if the user pressed Approve when shown that very step.
HumanConsent ==
    \A r \in Requests :
        (calls[r] > 0 /\ row[req[r].step].tool \in Destructive)
            => "approve" \in decided[req[r].step]

\* A step the user rejected is never called, neither by the session that passes the
\* answer on nor by one that runs beside it or comes later.
RejectedNeverCalled ==
    \A s \in Steps : "reject" \in decided[s] =>
        \A r \in Requests : req[r].step = s => calls[r] = 0

\* A step the planner was told could not be recorded is never called by anybody,
\* although its row may exist, pending, for every session that is resumed to read:
\* the acknowledgement of the INSERT was lost.
UnrecordedNeverCalled ==
    \A q, r \in Requests :
        (req[q].op = "create" /\ pc[q] = "failed" /\ Loaded(q) /\ calls[r] > 0)
            => req[r].step # req[q].step

\* While the user is asked about a step nothing else of the run is carried out,
\* and nothing the model proposed after that step is recorded: the question is
\* about the run as the user sees it.
Asked(s) == decided[s] = {} /\ (ui.pending = s \/ \E p \in Sessions : frame[p] = s)

NothingOvertakes ==
    \A s \in Steps : Asked(s) =>
        /\ \A t \in StepsOf(row[s].run) : row[t].index <= row[s].index
        /\ \A r \in Requests : pc[r] \notin InFlight

\* A run is completed only when none of its requests is at work any more.
CompletedIsQuiet ==
    runStatus = "completed" => \A r \in Requests : pc[r] \notin InFlight

\* The model is handed a result for a step only if a call was made for it: it
\* reasons about nothing that the loop made up, now or after a resume.
ToldResultHappened ==
    \A s \in Steps : told[s] = "result" =>
        \E r \in Requests : req[r].step = s /\ calls[r] > 0

\* Every session ends, also if the model proposes calls for ever: sessions are
\* one-shot, so each of them ends if they are all at rest again and again.
SessionsEnd == []<>(\A p \in Sessions : sess[p].stage \notin Live)

\* A run gets one verdict: completed never becomes failed nor the reverse.  Only
\* the late PATCH of the session that paused the run can overwrite a verdict.
OneVerdict ==
    [][(runStatus \in {"completed", "failed"}) =>
          (runStatus' \in {runStatus, "awaiting_confirmation"})]_runStatus

------------------------------------------------------------------------------
(* What comments and documents of the code say of it, and it does not do *)

\* types/index.ts:79 says that a step paused on a human decision is surfaced by
\* the ConfirmationModal.
PausedStepSurfaced ==
    \A s \in Steps :
        (/\ row[s].status = "awaiting_confirmation"
         /\ decided[s] = {}
         /\ runStatus = "awaiting_confirmation"
         /\ ui.plan = NoSession /\ ui.confirm = NoSession
         /\ faults = 0) => ui.pending = s

\* prompts.py:22-23 has the model reason only about data that a tool returned: it
\* would not be told that a step the user never rejected, and whose call was
\* made, was skipped for want of approval.
SkippedIsTrue ==
    \A s \in Steps : told[s] = "not_approved" =>
        \A r \in Requests : req[r].step = s => calls[r] = 0

=============================================================================
