---------------------------- MODULE StepLifecycle ----------------------------
(***************************************************************************)
(* The execution steps of go-engine: handlers/execution_handler.go         *)
(* (CreateStep, ExecuteStep, ConfirmStep, runAndPersist) together with     *)
(* executor.Engine.RunTool, for arbitrary clients of the HTTP API.         *)
(*                                                                         *)
(* Every request runs in a goroutine of its own.  Its program counter pc   *)
(* stands before the next statement that touches something shared: an SQL  *)
(* statement (each one commits alone, no handler opens a transaction), a   *)
(* Redis publish, or the call to the customer's API.  Everything between   *)
(* two such statements is local and belongs to the action before it.       *)
(*                                                                         *)
(* The handlers use context.Background(), so a client that goes away does  *)
(* not stop its request; a crash of the process stops them all.            *)
(***************************************************************************)
EXTENDS Naturals, FiniteSets

CONSTANTS
    Runs,           \* ids of execution runs that exist
    Steps,          \* ids the database may give to new steps
    Requests,       \* one-shot identities of HTTP requests
    Tools,          \* rows of the tools table
    Destructive,    \* the tools with is_destructive = true
    Unusable,       \* "tool" of a step without tool_id or with arguments
                    \* that are not a JSON object: it can never be executed
    NoRun,          \* the run of a step that does not exist
    NoStep          \* the step of a request that names none yet

ASSUME StepAssumption ==
    /\ Destructive \subseteq Tools
    /\ Unusable \notin Tools
    /\ NoRun \notin Runs
    /\ NoStep \notin Steps

VARIABLES
    row,            \* the execution_steps table
    req,            \* what each request asks for
    pc,             \* where the handler of each request stands
    nextIndex,      \* the local variable of each CreateStep handler
    calls,          \* history: API calls sent on behalf of each request
    announced       \* history: what each run's channel last said of a step

vars == <<row, req, pc, nextIndex, calls, announced>>

------------------------------------------------------------------------------
(* Types *)

StepStatus == {"absent", "pending", "awaiting_confirmation", "executing",
               "success", "error", "skipped"}

Row == [run       : Runs \cup {NoRun},
        index     : Nat,
        tool      : Tools \cup {Unusable},
        requires  : BOOLEAN,
        confirmed : BOOLEAN,
        status    : StepStatus]

Request == [op       : {"none", "create", "execute", "confirm"},
            run      : Runs \cup {NoRun},
            step     : Steps \cup {NoStep},
            tool     : Tools \cup {Unusable},
            requires : BOOLEAN,
            approved : BOOLEAN]

CreateStages == {"select_max", "insert", "publish_created"}
RejectStages == {"skip", "publish_skipped"}
\* From here on the handler has marked its step 'executing' and owes an outcome.
OwingStages == {"publish_executing", "run_tool", "call_api",
                "persist_success", "persist_error"}
RunStages == {"mark_executing", "publish_success", "publish_error"} \cup OwingStages
InFlight == CreateStages \cup RejectStages \cup RunStages \cup {"load", "set_confirmed"}

\* How a request can end: answered as asked, answered with an error, refused
\* by the confirmation gate, or stopped while it still owed an outcome.
Ended == {"replied", "failed", "refused", "orphaned"}

TypeOK ==
    /\ row \in [Steps -> Row]
    /\ req \in [Requests -> Request]
    /\ pc \in [Requests -> {"unsent"} \cup InFlight \cup Ended]
    /\ nextIndex \in [Requests -> Nat]
    /\ calls \in [Requests -> Nat]
    /\ announced \in [Runs -> [Steps -> StepStatus]]

NoRequest == [op |-> "none", run |-> NoRun, step |-> NoStep, tool |-> Unusable,
              requires |-> FALSE, approved |-> FALSE]

AbsentRow == [run |-> NoRun, index |-> 0, tool |-> Unusable, requires |-> FALSE,
              confirmed |-> FALSE, status |-> "absent"]

Init ==
    /\ row = [s \in Steps |-> AbsentRow]
    /\ req = [r \in Requests |-> NoRequest]
    /\ pc = [r \in Requests |-> "unsent"]
    /\ nextIndex = [r \in Requests |-> 0]
    /\ calls = [r \in Requests |-> 0]
    /\ announced = [run \in Runs |-> [s \in Steps |-> "absent"]]

------------------------------------------------------------------------------
(* Parts the actions share *)

Exists(s) == row[s].status # "absent"
StepsOf(run) == {s \in Steps : Exists(s) /\ row[s].run = run}
Goto(r, stage) == pc' = [pc EXCEPT ![r] = stage]

\* SELECT COALESCE(MAX(step_index), -1) + 1 over the rows of the run: i is
\* above every index of the run, and is 0 or the successor of one of them.
IsNextIndex(run, i) ==
    /\ \A s \in StepsOf(run) : row[s].index < i
    /\ i = 0 \/ \E s \in StepsOf(run) : row[s].index + 1 = i

\* (slip) The table without its unique constraint.
IndexUnchecked(run, i) == TRUE

\* UNIQUE (execution_run_id, step_index) lets the row in.
IndexFree(run, i) == \A s \in StepsOf(run) : row[s].index # i

\* (slip) A status the table does not know.
NamedByFlag(requires) == IF requires THEN "requires_confirmation" ELSE "pending"

InitialStatus(requires) == IF requires THEN "awaiting_confirmation" ELSE "pending"

\* One UPDATE of a step's row.  The statement may take effect and its
\* acknowledgement be lost: the handler then ends with an error.
Update(r, newRow, next, ending) ==
    /\ row' = [row EXCEPT ![req[r].step] = newRow]
    /\ Goto(r, next) \/ Goto(r, ending)
    /\ UNCHANGED <<req, nextIndex, calls, announced>>

\* redisstate.Publish: its error is ignored, the event may reach nobody.
PublishStatus(r, status, next) ==
    /\ \/ announced' = [announced EXCEPT ![req[r].run][req[r].step] = status]
       \/ UNCHANGED announced
    /\ Goto(r, next)
    /\ UNCHANGED <<row, req, nextIndex, calls>>

\* runAndPersist is called with confirmed = true by ConfirmStep only.
Confirmed(r) == req[r].op = "confirm"

\* (slip) The gate asks the step's own flag, which the client of CreateStep chose.
GateAsksStep(r) == row[req[r].step].requires /\ ~ Confirmed(r)

\* "if tool.IsDestructive && !confirmed"
GateRefuses(r) == row[req[r].step].tool \in Destructive /\ ~ Confirmed(r)

------------------------------------------------------------------------------
(* Clients *)

Send(r, request, stage) ==
    /\ pc[r] = "unsent"
    /\ req' = [req EXCEPT ![r] = request]
    /\ Goto(r, stage)
    /\ UNCHANGED <<row, nextIndex, calls, announced>>

\* POST /api/executions/:id/steps.  The body decides requires_confirmation.
\* Bound: no more CreateStep requests than ids in Steps.
SendCreate(r, run, tool, requires) ==
    /\ Cardinality({q \in Requests : req[q].op = "create"}) < Cardinality(Steps)
    /\ Send(r, [NoRequest EXCEPT !.op = "create", !.run = run, !.tool = tool,
                                 !.requires = requires], "select_max")

\* POST /api/executions/:id/steps/:step_id/execute
SendExecute(r, run, s) ==
    Send(r, [NoRequest EXCEPT !.op = "execute", !.run = run, !.step = s], "load")

\* POST /api/executions/:id/steps/:step_id/confirm
SendConfirm(r, run, s, approved) ==
    Send(r, [NoRequest EXCEPT !.op = "confirm", !.run = run, !.step = s,
                              !.approved = approved], "load")

------------------------------------------------------------------------------
(* CreateStep *)

SelectMax(r) ==
    /\ pc[r] = "select_max"
    /\ \E i \in {0} \cup {row[s].index + 1 : s \in Steps} :
          /\ IsNextIndex(req[r].run, i)
          /\ nextIndex' = [nextIndex EXCEPT ![r] = i]
    /\ Goto(r, "insert")
    /\ UNCHANGED <<row, req, calls, announced>>

Insert(r, s) ==
    /\ pc[r] = "insert"
    /\ ~ Exists(s)
    /\ IndexFree(req[r].run, nextIndex[r])
    /\ row' = [row EXCEPT ![s] =
                  [run       |-> req[r].run,
                   index     |-> nextIndex[r],
                   tool      |-> req[r].tool,
                   requires  |-> req[r].requires,
                   confirmed |-> FALSE,
                   status    |-> InitialStatus(req[r].requires)]]
    /\ req' = [req EXCEPT ![r].step = s]
    /\ Goto(r, "publish_created") \/ Goto(r, "failed")
    /\ UNCHANGED <<nextIndex, calls, announced>>

\* Another CreateStep took the index between the SELECT and the INSERT.
InsertConflict(r) ==
    /\ pc[r] = "insert"
    /\ ~ IndexFree(req[r].run, nextIndex[r])
    /\ Goto(r, "failed")
    /\ UNCHANGED <<row, req, nextIndex, calls, announced>>

PublishCreated(r) ==
    /\ pc[r] = "publish_created"
    /\ PublishStatus(r, InitialStatus(req[r].requires), "replied")

------------------------------------------------------------------------------
(* ExecuteStep and ConfirmStep *)

\* What follows the load, early returns included.  The status of the step is not
\* looked at, nor whether it belongs to the run of the URL.
ExecuteLoaded(r) == IF row[req[r].step].tool = Unusable THEN "failed" ELSE "mark_executing"
ConfirmLoaded(r) == IF req[r].approved THEN "set_confirmed" ELSE "skip"

LoadStep(r) ==
    /\ pc[r] = "load"
    /\ Goto(r, IF ~ Exists(req[r].step) THEN "failed"
               ELSE IF req[r].op = "execute" THEN ExecuteLoaded(r) ELSE ConfirmLoaded(r))
    /\ UNCHANGED <<row, req, nextIndex, calls, announced>>

SkipStep(r) ==
    /\ pc[r] = "skip"
    /\ Update(r, [row[req[r].step] EXCEPT !.status = "skipped", !.confirmed = FALSE],
              "publish_skipped", "failed")

PublishSkipped(r) ==
    /\ pc[r] = "publish_skipped"
    /\ PublishStatus(r, "skipped", "replied")

\* The row is marked confirmed before anything about it is checked.
SetConfirmed(r) ==
    LET s == req[r].step
    IN  /\ pc[r] = "set_confirmed"
        /\ Update(r, [row[s] EXCEPT !.confirmed = TRUE],
                  IF row[s].tool = Unusable THEN "failed" ELSE "mark_executing",
                  "failed")

------------------------------------------------------------------------------
(* runAndPersist and Engine.RunTool *)

MarkExecuting(r) ==
    /\ pc[r] = "mark_executing"
    /\ Update(r, [row[req[r].step] EXCEPT !.status = "executing"],
              "publish_executing", "orphaned")

PublishExecuting(r) ==
    /\ pc[r] = "publish_executing"
    /\ PublishStatus(r, "executing", "run_tool")

\* 409: the row keeps the status 'executing' and no event is published.
RunToolRefused(r) ==
    /\ pc[r] = "run_tool"
    /\ GateRefuses(r)
    /\ Goto(r, "refused")
    /\ UNCHANGED <<row, req, nextIndex, calls, announced>>

\* (slip) The error of RunTool is dropped: the handler goes on with no result.
RunToolErrorDropped(r) ==
    /\ pc[r] = "run_tool"
    /\ Goto(r, "persist_success")
    /\ UNCHANGED <<row, req, nextIndex, calls, announced>>

\* The lookups of tool and connection fail (before the gate), or the auth
\* configuration or the request cannot be built (after it), or the API cannot
\* be reached: no call was made.  A destructive tool without approval gets
\* here only by a failed lookup.
RunToolFails(r) ==
    /\ pc[r] = "run_tool"
    /\ Goto(r, "persist_error")
    /\ UNCHANGED <<row, req, nextIndex, calls, announced>>

\* Execute sends the HTTP request.
CallApi(r) ==
    /\ pc[r] = "run_tool"
    /\ ~ GateRefuses(r)
    /\ calls' = [calls EXCEPT ![r] = @ + 1]
    /\ Goto(r, "call_api")
    /\ UNCHANGED <<row, req, nextIndex, announced>>

\* Any HTTP answer, a 4xx or 5xx too, is a success.
ApiAnswers(r) ==
    /\ pc[r] = "call_api"
    /\ Goto(r, "persist_success")
    /\ UNCHANGED <<row, req, nextIndex, calls, announced>>

\* (slip) A timeout is retried, as if the call had not left.
ApiRetries(r) ==
    /\ pc[r] = "call_api"
    /\ Goto(r, "run_tool")
    /\ UNCHANGED <<row, req, nextIndex, calls, announced>>

\* (slip) The HTTP client has no timeout.
ApiWaitsForever(r) == FALSE

\* The 15 s of httpClient pass, or the connection breaks, after the call left.
ApiTimesOut(r) ==
    /\ pc[r] = "call_api"
    /\ Goto(r, "persist_error")
    /\ UNCHANGED <<row, req, nextIndex, calls, announced>>

PersistSuccess(r) ==
    /\ pc[r] = "persist_success"
    /\ Update(r, [row[req[r].step] EXCEPT !.status = "success"],
              "publish_success", "failed")

\* (slip) The error is published and answered but not stored.
PersistNothing(r) ==
    /\ pc[r] = "persist_error"
    /\ Goto(r, "publish_error")
    /\ UNCHANGED <<row, req, nextIndex, calls, announced>>

PersistError(r) ==
    /\ pc[r] = "persist_error"
    /\ Update(r, [row[req[r].step] EXCEPT !.status = "error"],
              "publish_error", "failed")

PublishSuccess(r) ==
    /\ pc[r] = "publish_success"
    /\ PublishStatus(r, "success", "replied")

PublishError(r) ==
    /\ pc[r] = "publish_error"
    /\ PublishStatus(r, "error", "replied")

------------------------------------------------------------------------------
(* Failures *)

\* The SQL statements: of CreateStep, of loadStep and ConfirmStep, of runAndPersist.
CreateStatements == {"select_max", "insert"}
DecideStatements == {"load", "skip", "set_confirmed"}
RunStatements == {"mark_executing", "persist_success", "persist_error"}

\* A statement fails without effect.  Every handler answers at once; the ones that
\* had marked their step leave it 'executing'.
DbFails(r) ==
    /\ pc[r] \in CreateStatements \cup DecideStatements \cup RunStatements
    /\ Goto(r, IF pc[r] \in OwingStages THEN "orphaned" ELSE "failed")
    /\ UNCHANGED <<row, req, nextIndex, calls, announced>>

\* go-engine stops and comes back: tables stay, requests in flight are gone.
Crash ==
    /\ \E r \in Requests : pc[r] \in InFlight
    /\ pc' = [r \in Requests |->
                IF pc[r] \in OwingStages THEN "orphaned"
                ELSE IF pc[r] \in InFlight THEN "failed" ELSE pc[r]]
    /\ UNCHANGED <<row, req, nextIndex, calls, announced>>

------------------------------------------------------------------------------
(* Specification *)

Client(r) ==
    \/ \E run \in Runs, tool \in Tools \cup {Unusable}, requires \in BOOLEAN :
          SendCreate(r, run, tool, requires)
    \/ \E run \in Runs, s \in Steps : SendExecute(r, run, s)
    \/ \E run \in Runs, s \in Steps, approved \in BOOLEAN :
          SendConfirm(r, run, s, approved)

\* What the goroutine of a request does by itself; the 15 s timeout is its own.
Handler(r) ==
    \/ SelectMax(r) \/ InsertConflict(r) \/ PublishCreated(r)
    \/ \E s \in Steps : Insert(r, s)
    \/ LoadStep(r) \/ SkipStep(r) \/ PublishSkipped(r) \/ SetConfirmed(r)
    \/ MarkExecuting(r) \/ PublishExecuting(r)
    \/ RunToolRefused(r) \/ RunToolFails(r) \/ CallApi(r) \/ ApiTimesOut(r)
    \/ PersistSuccess(r) \/ PersistError(r) \/ PublishSuccess(r) \/ PublishError(r)

Next ==
    \/ \E r \in Requests : Client(r) \/ Handler(r) \/ ApiAnswers(r) \/ DbFails(r)
    \/ Crash

Spec == Init /\ [][Next]_vars

------------------------------------------------------------------------------
(* Properties *)

\* The steps of a run are numbered 0, 1, 2, ... without a gap or a repetition,
\* although SELECT MAX and INSERT are two statements and requests interleave:
\* agent_loop.py rebuilds the conversation in the order of these numbers.
IndexesDense ==
    \A s \in Steps : Exists(s) =>
        /\ \A t \in StepsOf(row[s].run) : row[t].index = row[s].index => t = s
        /\ row[s].index > 0 =>
              \E t \in StepsOf(row[s].run) : row[t].index + 1 = row[s].index

\* The call of a destructive tool is made only by a ConfirmStep request that
\* approved that step, whatever requires_confirmation the step was created with.
ConsentBeforeEffect ==
    \A r \in Requests :
        (calls[r] > 0 /\ row[req[r].step].tool \in Destructive) =>
            req[r].op = "confirm" /\ req[r].approved

\* A step is left 'executing' only by a request that is still at work on it, or
\* that was refused by the gate or stopped before it could store an outcome:
\* no interleaving of two requests for a step hides an outcome behind it.
ExecutingAccountable ==
    \A s \in Steps : row[s].status = "executing" =>
        \E r \in Requests :
            /\ req[r].step = s
            /\ req[r].op \in {"execute", "confirm"}
            /\ pc[r] \in OwingStages \cup {"refused", "orphaned"}

\* What is stored or published about a step happened: 'success' only if an API
\* call was sent for that step, 'skipped' only if a human rejected it.
OutcomeBacked ==
    \A s \in Steps :
        LET told == {row[s].status} \cup {announced[run][s] : run \in Runs}
        IN  /\ "success" \in told => \E r \in Requests : req[r].step = s /\ calls[r] > 0
            /\ "skipped" \in told => \E r \in Requests :
                    req[r].step = s /\ req[r].op = "confirm" /\ ~ req[r].approved

\* Every request ends, also when the customer's API never answers: requests are
\* one-shot, so a handler at work for ever would keep the system from coming to
\* rest.
RequestsEnd == []<>(\A r \in Requests : pc[r] \notin InFlight)

\* The handlers implement the abstract gate.  A request asks for a step when it
\* is sent to execute it or to approve it; a rejection asks for nothing.
Asks(r) == req[r].op = "execute" \/ (req[r].op = "confirm" /\ req[r].approved)

Gate == INSTANCE ConfirmationGate WITH
            NoTool    <- Unusable,
            named     <- [s \in Steps |-> row[s].tool],
            asked     <- [r \in Requests |-> IF Asks(r) THEN req[r].step ELSE NoStep],
            approving <- {r \in Requests : req[r].op = "confirm" /\ req[r].approved},
            made      <- calls

ImplementsGate == Gate!GateSpec

------------------------------------------------------------------------------
(* The inductive invariant behind these properties *)

\* A row that exists belongs to a run; one that does not is blank.
RowsOK ==
    \A s \in Steps : IF Exists(s) THEN row[s].run \in Runs ELSE row[s] = AbsentRow

\* r is about a step that exists.
Loaded(r) == req[r].step \in Steps /\ Exists(req[r].step)

\* What the stage of a handler says of the request it serves.
StageOK(r) ==
    /\ pc[r] = "unsent" => req[r] = NoRequest
    /\ pc[r] \in CreateStages => req[r].op = "create" /\ req[r].run \in Runs
    /\ pc[r] = "publish_created" => Loaded(r)
    /\ pc[r] = "load" => req[r].op \in {"execute", "confirm"} /\ req[r].step \in Steps
    /\ pc[r] \in RejectStages => req[r].op = "confirm" /\ ~ req[r].approved /\ Loaded(r)
    /\ pc[r] = "set_confirmed" => req[r].op = "confirm" /\ Asks(r) /\ Loaded(r)
    /\ pc[r] \in RunStages => Asks(r) /\ Loaded(r) /\ row[req[r].step].tool # Unusable

\* A call was made for a request that asked for it and whose gate was open.
CallOK(r) ==
    /\ calls[r] \in {0, 1}
    /\ calls[r] = 1 =>
          /\ pc[r] \in {"call_api", "persist_success", "persist_error",
                        "publish_success", "publish_error"} \cup Ended
          /\ Asks(r) /\ Loaded(r)
          /\ row[req[r].step].tool \in Destructive => Confirmed(r)
    /\ pc[r] \in {"call_api", "persist_success", "publish_success"} => calls[r] = 1

\* The index a CreateStep handler read is still the successor of a stored one.
IndexOK(r) ==
    pc[r] = "insert" =>
        \/ nextIndex[r] = 0
        \/ \E s \in StepsOf(req[r].run) : row[s].index + 1 = nextIndex[r]

IInv ==
    /\ RowsOK
    /\ \A r \in Requests : StageOK(r) /\ CallOK(r) /\ IndexOK(r)
    /\ IndexesDense
    /\ ExecutingAccountable
    /\ OutcomeBacked

------------------------------------------------------------------------------
(* What comments of the code say of it, and it does not do *)

\* models/execution.go:42 says that a confirmation approves or rejects a step
\* awaiting confirmation: a step already carried out would not be carried out
\* again by another approval.
ApprovedOnce ==
    \A q, r \in Requests :
        (q # r /\ calls[q] > 0 /\ calls[r] > 0 /\ req[q].step = req[r].step)
            => row[req[r].step].tool \notin Destructive

=============================================================================
