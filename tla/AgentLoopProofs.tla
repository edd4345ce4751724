-------------------------- MODULE AgentLoopProofs --------------------------
(***************************************************************************)
(* Theorems about AgentLoop, for every set of sessions, requests, steps    *)
(* and tools and every bound on iterations, calls and faults: the agent is *)
(* a client of the step handlers, so what is proved of these holds of the  *)
(* whole system, and a destructive call needs the click of a user.         *)
(***************************************************************************)
EXTENDS AgentLoop, StepLifecycleProofs

------------------------------------------------------------------------------
(* Types *)

\* Names for the names of a session's stages, so that a proof can cite them.
Stage == {"idle", "ended", "died"} \cup Live
PatchStatus == {"none", "awaiting_confirmation", "completed", "failed"}

\* What the actions set in a session.
LEMMA StageSet ==
    ASSUME NEW o \in Session, NEW stage \in Stage
    PROVE  [o EXCEPT !.stage = stage] \in Session
BY DEF Session, Stage

LEMMA QueueSet ==
    ASSUME NEW o \in Session, NEW queue \in Seq(Tools \cup {UnknownTool})
    PROVE  [o EXCEPT !.queue = queue] \in Session
BY DEF Session

LEMMA TurnSet ==
    ASSUME NEW o \in Session, NEW queue \in Seq(Tools \cup {UnknownTool})
    PROVE  [o EXCEPT !.stage = "calls", !.queue = queue] \in Session
BY DEF Session, Live

LEMMA PausesSet ==
    ASSUME NEW o \in Session, NEW step \in Steps \cup {NoStep}
    PROVE  Pauses(o, step) \in Session
<1>1. <<>> \in Seq(Tools \cup {UnknownTool})
  OBVIOUS
<1>2. QED BY <1>1 DEF Pauses, Session, Live

LEMMA ConfirmSet ==
    ASSUME NEW o \in Session, NEW step \in Steps \cup {NoStep}, NEW approved \in BOOLEAN
    PROVE  [o EXCEPT !.stage = "confirm", !.step = step, !.approved = approved] \in Session
BY DEF Session, Live

\* The rest of a turn.
LEMMA TailTyped ==
    ASSUME NEW o \in Session, o.queue # <<>>
    PROVE  Tail(o.queue) \in Seq(Tools \cup {UnknownTool})
<1>1. o.queue \in Seq(Tools \cup {UnknownTool})
  BY DEF Session
<1>2. QED BY <1>1

\* The first unsent request is one.
LEMMA FreshUnsent ==
    ASSUME Unsent # {}
    PROVE  Fresh \in Requests /\ pc[Fresh] = "unsent"
<1>1. Fresh \in Unsent
  BY DEF Fresh
<1>2. QED BY <1>1 DEF Unsent

\* There is a run.
LEMMA RunThere == TheRun \in Runs
BY AgentAssumption DEF TheRun

\* What the model proposes is a sequence of tools.
LEMMA ProposedTyped ==
    ASSUME NEW proposed \in Calls
    PROVE  proposed \in Seq(Tools \cup {UnknownTool})
<1>1. PICK n \in 1..MaxCalls : proposed \in [1..n -> Tools \cup {UnknownTool}]
  BY DEF Calls
<1>2. n \in Nat
  BY AgentAssumption
<1>3. QED BY <1>1, <1>2

------------------------------------------------------------------------------
(* The agent is a client of the step handlers *)

\* A session that is about to send a request for a step has one in mind, and one
\* that is about to pass on an approval has it from the user.  While a call of the
\* model is worked on it stays in the queue.
SessionOK(p) ==
    /\ sess[p].stage \in {"confirm", "send_execute"} => sess[p].step \in Steps
    /\ (sess[p].stage = "confirm" /\ sess[p].approved) => "approve" \in decided[sess[p].step]
    /\ sess[p].stage \in {"creating", "send_execute", "executing"} => sess[p].queue # <<>>
    /\ sess[p].stage = "creating" =>
          \E r \in Requests : sess[p].req = {r} /\ req[r].op = "create"

\* A step that was created has an id; an approval was given by the user.
RequestBacked(r) ==
    /\ (req[r].op = "create" /\ pc[r] \in {"publish_created", "replied"})
          => req[r].step \in Steps
    /\ (req[r].op = "confirm" /\ req[r].approved)
          => req[r].step \in Steps /\ "approve" \in decided[req[r].step]

AgentInv ==
    /\ TypeOK
    /\ IInv
    /\ AgentTypeOK
    /\ \A p \in Sessions : SessionOK(p)
    /\ \A r \in Requests : RequestBacked(r)

\* The requests of the planner are requests a client may send.
LEMMA PlannerSends ==
    ASSUME AgentTypeOK, NEW p \in Sessions, SessionOK(p),
           Confirm(p) \/ CreateStep(p) \/ ExecuteStep(p)
    PROVE  \E r \in Requests : Client(r)
<1>1. Fresh \in Requests
  BY FreshUnsent DEF Confirm, CreateStep, ExecuteStep, Awaits
<1>2. sess[p] \in Session
  BY DEF AgentTypeOK
<1>3. CASE Confirm(p)
  <2>1. sess[p].step \in Steps /\ Answer(p) \in BOOLEAN
    BY <1>2, <1>3 DEF Confirm, At, SessionOK, Answer, Session
  <2>2. SendConfirm(Fresh, TheRun, sess[p].step, Answer(p))
    BY <1>3 DEF Confirm
  <2>3. QED BY <1>1, <2>1, <2>2, RunThere DEF Client
<1>4. CASE CreateStep(p)
  <2>1. Head(sess[p].queue) \in Tools
    BY <1>2, <1>4 DEF CreateStep, Session
  <2>2. SendCreate(Fresh, TheRun, Head(sess[p].queue), Head(sess[p].queue) \in Destructive)
    BY <1>4 DEF CreateStep
  <2>3. (Head(sess[p].queue) \in Destructive) \in BOOLEAN
    OBVIOUS
  <2>4. QED BY <1>1, <2>1, <2>2, <2>3, RunThere DEF Client
<1>5. CASE ExecuteStep(p)
  <2>1. sess[p].step \in Steps
    BY <1>5 DEF ExecuteStep, At, SessionOK
  <2>2. SendExecute(Fresh, TheRun, sess[p].step)
    BY <1>5 DEF ExecuteStep
  <2>3. QED BY <1>1, <2>1, <2>2, RunThere DEF Client
<1>6. QED BY <1>3, <1>4, <1>5

\* Every step of the system is a step of the handlers or invisible to them.
LEMMA StepOfHandlers ==
    ASSUME AgentTypeOK, \A p \in Sessions : SessionOK(p), [AgentNext]_appVars
    PROVE  [Next]_vars
<1>1. CASE UNCHANGED appVars
  BY <1>1 DEF appVars
<1>2. ASSUME NEW p \in Sessions, User(p) \/ Panel(p) \/ TransportFails(p) \/ SessionDies(p)
      PROVE  UNCHANGED vars
  BY <1>2 DEF User, HandleSend, HandleConfirmation, Panel, HandleEvent, StreamEnds,
              TransportFails, SessionDies
<1>3. ASSUME NEW p \in Sessions, Planner(p)
      PROVE  [Next]_vars
  <2>1. CASE Confirm(p) \/ CreateStep(p) \/ ExecuteStep(p)
    <3>1. \E r \in Requests : Client(r)
      BY <2>1, PlannerSends
    <3>2. QED BY <3>1 DEF Next
  <2>2. CASE \/ CreateRun(p) \/ LoadTools(p) \/ ConfirmReplied(p) \/ GetRun(p)
             \/ ReloadTools(p) \/ RebuildMessages(p) \/ SendPatch(p)
    BY <2>2 DEF CreateRun, LoadTools, ConfirmReplied, GetRun, ReloadTools, RebuildMessages,
                SendPatch
  <2>3. CASE \/ CallLlm(p) \/ CallUnknown(p) \/ CreateFailed(p) \/ CreateReplied(p)
             \/ ExecuteReplied(p) \/ TurnEnds(p)
    BY <2>3 DEF CallLlm, CallUnknown, CreateFailed, CreateReplied, ExecuteReplied, TurnEnds
  <2>4. QED BY <1>3, <2>1, <2>2, <2>3 DEF Planner
<1>4. ASSUME NEW m \in patches, UpdateRunStatus(m) \/ UpdateRunStatusFails(m)
      PROVE  UNCHANGED vars
  BY <1>4 DEF UpdateRunStatus, UpdateRunStatusFails
<1>5. ASSUME NEW r \in Requests, Engine(r)
      PROVE  Next
  <2>1. Handler(r) \/ ApiAnswers(r) \/ DbFails(r)
    BY <1>5 DEF Engine
  <2>2. QED BY <2>1 DEF Next
<1>6. CASE EngineCrash
  BY <1>6 DEF EngineCrash, Next
<1>7. QED BY <1>1, <1>2, <1>3, <1>4, <1>5, <1>6 DEF AgentNext

------------------------------------------------------------------------------
(* The variables of the agent keep their types *)

LEMMA BecomesTyped ==
    ASSUME sess \in [Sessions -> Session], NEW p \in Sessions,
           NEW session \in Session, Becomes(p, session)
    PROVE  sess' \in [Sessions -> Session]
BY DEF Becomes

\* Actions that only move a session to another stage.
LEMMA MovesTyped ==
    ASSUME sess \in [Sessions -> Session], NEW p \in Sessions,
           NEW stage \in Stage, MovesTo(p, stage)
    PROVE  sess' \in [Sessions -> Session]
<1>1. [sess[p] EXCEPT !.stage = stage] \in Session
  BY DEF Session, Stage
<1>2. QED BY <1>1, BecomesTyped DEF MovesTo

LEMMA WillPatchTyped ==
    ASSUME sess \in [Sessions -> Session], NEW p \in Sessions,
           NEW status \in PatchStatus, WillPatch(p, status)
    PROVE  sess' \in [Sessions -> Session]
<1>1. [sess[p] EXCEPT !.stage = "send_patch", !.status = status] \in Session
  BY DEF Session, PatchStatus, Live
<1>2. QED BY <1>1, BecomesTyped DEF WillPatch

LEMMA AwaitsTyped ==
    ASSUME sess \in [Sessions -> Session], NEW p \in Sessions,
           NEW stage \in Waiting, Awaits(p, stage)
    PROVE  sess' \in [Sessions -> Session]
<1>1. Fresh \in Requests
  BY FreshUnsent DEF Awaits
<1>2. [sess[p] EXCEPT !.stage = stage, !.req = {Fresh}] \in Session
  BY <1>1 DEF Session, Live
<1>3. QED BY <1>2, BecomesTyped DEF Awaits

LEMMA FaultTyped ==
    ASSUME faults \in 0..MaxFaults, Fault \/ UNCHANGED faults
    PROVE  faults' \in 0..MaxFaults
BY AgentAssumption DEF Fault

\* What browser and user do.
LEMMA PanelTyped ==
    ASSUME AgentTypeOK, NEW p \in Sessions, User(p) \/ Panel(p)
    PROVE  AgentTypeOK'
<1>0. sess[p] \in Session
  BY DEF AgentTypeOK
<1> USE DEF AgentTypeOK
<1>1. CASE HandleSend(p)
  <2>1. sess' \in [Sessions -> Session]
    BY <1>1, MovesTyped DEF HandleSend, Stage, Live
  <2>2. QED BY <1>1, <2>1 DEF HandleSend
<1>2. ASSUME NEW approved \in BOOLEAN, HandleConfirmation(p, approved)
      PROVE  AgentTypeOK'
  <2>1. ui.pending \in Steps
    BY <1>2 DEF HandleConfirmation, ModalEnabled
  <2>2. [sess[p] EXCEPT !.stage = "confirm", !.step = ui.pending,
                        !.approved = approved] \in Session
    BY <1>0, <2>1, ConfirmSet
  <2>3. sess' \in [Sessions -> Session]
    BY <1>2, <2>2, BecomesTyped DEF HandleConfirmation
  <2>4. QED BY <1>2, <2>1, <2>3 DEF HandleConfirmation
<1>3. CASE HandleEvent(p)
  BY <1>3 DEF HandleEvent
<1>4. CASE StreamEnds(p)
  BY <1>4 DEF StreamEnds, PendingAfterConfirm
<1>5. QED BY <1>1, <1>2, <1>3, <1>4 DEF User, Panel

\* What the planner does.
LEMMA PlannerTyped ==
    ASSUME TypeOK, AgentTypeOK, NEW p \in Sessions, SessionOK(p), Planner(p)
    PROVE  AgentTypeOK'
<1> USE DEF AgentTypeOK
<1>0. sess[p] \in Session
  OBVIOUS
<1>1. CASE CreateRun(p)
  BY <1>1, MovesTyped, FaultTyped DEF CreateRun, Stage, Live, RunStatus
<1>2. CASE LoadTools(p)
  BY <1>2, MovesTyped, WillPatchTyped, FaultTyped DEF LoadTools, Stage, Live, PatchStatus
<1>3. CASE Confirm(p)
  BY <1>3, AwaitsTyped DEF Confirm, Waiting
<1>4. CASE ConfirmReplied(p)
  BY <1>4, MovesTyped DEF ConfirmReplied, Stage, Live
<1>5. CASE GetRun(p) \/ ReloadTools(p)
  BY <1>5, MovesTyped, FaultTyped DEF GetRun, ReloadTools, Stage, Live
<1>6. CASE RebuildMessages(p)
  <2>1. \A s \in Steps : row[s].status \in StepStatus
    BY DEF TypeOK, Row
  <2>2. \A s \in Steps : Retold(s) \in Told
    BY <2>1 DEF Retold, Told, StepStatus
  <2>3. sess' \in [Sessions -> Session]
    BY <1>6, MovesTyped DEF RebuildMessages, Stage, Live
  <2>4. told' \in [Steps -> Told]
    BY <1>6, <2>2 DEF RebuildMessages, Told
  <2>5. QED BY <1>6, <2>3, <2>4 DEF RebuildMessages
<1>7. CASE CallLlm(p)
  <2>1. ASSUME sess[p].iter < MaxIterations, NEW proposed \in Calls,
               Becomes(p, [sess[p] EXCEPT !.stage = "calls", !.queue = proposed,
                                          !.iter = Iterations(p)])
        PROVE  sess' \in [Sessions -> Session]
    <3>1. Iterations(p) \in 0..MaxIterations
      BY <1>0, <2>1, AgentAssumption DEF Iterations, Session
    <3>2. [sess[p] EXCEPT !.stage = "calls", !.queue = proposed,
                          !.iter = Iterations(p)] \in Session
      BY <1>0, <2>1, <3>1, ProposedTyped DEF Session, Live
    <3>3. QED BY <2>1, <3>2, BecomesTyped
  <2>2. sess' \in [Sessions -> Session]
    BY <1>7, <2>1, WillPatchTyped DEF CallLlm, PatchStatus
  <2>3. QED BY <1>7, <2>2 DEF CallLlm
<1>8. CASE CallUnknown(p)
  <2>1. [sess[p] EXCEPT !.queue = Tail(@)] \in Session
    BY <1>0, <1>8, TailTyped, QueueSet DEF CallUnknown
  <2>2. QED BY <1>8, <2>1, BecomesTyped DEF CallUnknown
<1>9. CASE CreateStep(p)
  BY <1>9, AwaitsTyped DEF CreateStep, Waiting
<1>10. CASE CreateFailed(p)
  <2>1. [sess[p] EXCEPT !.stage = "calls", !.queue = Tail(@)] \in Session
    <3>1. sess[p].queue # <<>>
      BY <1>10 DEF CreateFailed, At, SessionOK
    <3>2. QED BY <1>0, <3>1, TailTyped, TurnSet
  <2>2. QED BY <1>10, <2>1, BecomesTyped DEF CreateFailed
<1>11. CASE CreateReplied(p)
  <2> DEFINE step == req[CHOOSE r \in sess[p].req : TRUE].step
  <2>1. PICK r \in Requests : sess[p].req = {r}
    BY <1>11 DEF CreateReplied, At, SessionOK
  <2>2. step \in Steps \cup {NoStep}
    BY <2>1 DEF TypeOK, Request
  <2> HIDE DEF step
  <2>3. Pauses(sess[p], step) \in Session
    BY <1>0, <2>2, PausesSet
  <2>4. [sess[p] EXCEPT !.stage = "send_execute", !.step = step] \in Session
    BY <1>0, <2>2 DEF Session, Live
  <2>5. \/ Becomes(p, Pauses(sess[p], step)) /\ frame' = [frame EXCEPT ![p] = step]
        \/ Becomes(p, [sess[p] EXCEPT !.stage = "send_execute", !.step = step])
           /\ UNCHANGED frame
    BY <1>11 DEF CreateReplied, step
  <2>6. sess' \in [Sessions -> Session] /\ frame' \in [Sessions -> Steps \cup {NoStep}]
    BY <2>2, <2>3, <2>4, <2>5, BecomesTyped
  <2>7. QED BY <1>11, <2>6 DEF CreateReplied
<1>12. CASE ExecuteStep(p)
  BY <1>12, AwaitsTyped DEF ExecuteStep, Waiting
<1>13. CASE ExecuteReplied(p)
  <2>1. [sess[p] EXCEPT !.stage = "calls", !.queue = Tail(@)] \in Session
    <3>1. sess[p].queue # <<>>
      BY <1>13 DEF ExecuteReplied, At, SessionOK
    <3>2. QED BY <1>0, <3>1, TailTyped, TurnSet
  <2>2. ToldReply(p) \in Told
    BY DEF ToldReply, Told
  <2>3. QED BY <1>13, <2>1, <2>2, BecomesTyped DEF ExecuteReplied
<1>14. CASE TurnEnds(p)
  BY <1>14, MovesTyped DEF TurnEnds, Stage, Live
<1>15. CASE SendPatch(p)
  <2>1. sess[p].status \in RunStatus
    BY <1>0 DEF Session, RunStatus
  <2>2. sess' \in [Sessions -> Session]
    BY <1>15, MovesTyped DEF SendPatch, Stage, Live, Waiting
  <2>3. QED BY <1>15, <2>1, <2>2 DEF SendPatch
<1>16. QED
  BY <1>1, <1>2, <1>3, <1>4, <1>5, <1>6, <1>7, <1>8, <1>9, <1>10, <1>11, <1>12, <1>13,
     <1>14, <1>15 DEF Planner

LEMMA AgentTypeStep ==
    ASSUME TypeOK, AgentTypeOK, \A p \in Sessions : SessionOK(p), [AgentNext]_appVars
    PROVE  AgentTypeOK'
<1>1. CASE UNCHANGED appVars
  BY <1>1 DEF appVars, agentVars, AgentTypeOK
<1>2. ASSUME NEW p \in Sessions, User(p) \/ Panel(p)
      PROVE  AgentTypeOK'
  BY <1>2, PanelTyped
<1>3. ASSUME NEW p \in Sessions, Planner(p)
      PROVE  AgentTypeOK'
  BY <1>3, PlannerTyped
<1>4. ASSUME NEW p \in Sessions, TransportFails(p) \/ SessionDies(p)
      PROVE  AgentTypeOK'
  <2>1. MovesTo(p, "died")
    BY <1>4 DEF TransportFails, SessionDies, Aborted, MovesTo
  <2>2. sess' \in [Sessions -> Session] /\ faults' \in 0..MaxFaults
    BY <1>4, <2>1, MovesTyped, FaultTyped DEF TransportFails, SessionDies, Stage, AgentTypeOK
  <2>3. QED BY <1>4, <2>2 DEF TransportFails, SessionDies, AgentTypeOK
<1>5. ASSUME NEW m \in patches, UpdateRunStatus(m) \/ UpdateRunStatusFails(m)
      PROVE  AgentTypeOK'
  <2>1. m.by \in Sessions /\ m.status \in RunStatus
    BY DEF AgentTypeOK
  <2>2. [sess[m.by] EXCEPT !.stage = "ended"] \in Session
        /\ [sess[m.by] EXCEPT !.stage = "died"] \in Session
    <3>1. sess[m.by] \in Session
      BY <2>1 DEF AgentTypeOK
    <3>2. QED BY <3>1, StageSet DEF Stage
  <2>3. sess' \in [Sessions -> Session]
    BY <1>5, <2>1, <2>2 DEF UpdateRunStatus, UpdateRunStatusFails, AgentTypeOK
  <2>4. faults' \in 0..MaxFaults
    BY <1>5, FaultTyped DEF UpdateRunStatus, UpdateRunStatusFails, AgentTypeOK
  <2>5. QED BY <1>5, <2>1, <2>3, <2>4 DEF UpdateRunStatus, UpdateRunStatusFails, AgentTypeOK
<1>6. ASSUME NEW r \in Requests, Engine(r)
      PROVE  AgentTypeOK'
  BY <1>6, FaultTyped DEF Engine, AgentTypeOK
<1>7. CASE EngineCrash
  <2>1. \A p \in Sessions : [sess[p] EXCEPT !.stage = "died"] \in Session
    <3>1. \A p \in Sessions : sess[p] \in Session
      BY DEF AgentTypeOK
    <3>2. QED BY <3>1, StageSet DEF Stage
  <2>2. sess' \in [Sessions -> Session] /\ faults' \in 0..MaxFaults
    BY <1>7, <2>1, FaultTyped DEF EngineCrash, AgentTypeOK
  <2>3. QED BY <1>7, <2>2 DEF EngineCrash, AgentTypeOK
<1>8. QED BY <1>1, <1>2, <1>3, <1>4, <1>5, <1>6, <1>7 DEF AgentNext

------------------------------------------------------------------------------
(* What sessions and requests know stays true *)

\* Nobody takes a decision back.
DecisionsKept == \A s \in Steps : decided[s] \subseteq decided'[s]

CreatesKept == \A r \in Requests : req[r].op = "create" => req'[r].op = "create"

LEMMA SessionKept ==
    ASSUME AgentTypeOK, NEW p \in Sessions, SessionOK(p), sess'[p] = sess[p],
           DecisionsKept, CreatesKept
    PROVE  SessionOK(p)'
BY DEF SessionOK, DecisionsKept, CreatesKept

\* A request that is not answered by the step, or not a CreateStep.
LEMMA BackedRequestKept ==
    ASSUME AgentTypeOK, NEW r \in Requests, RequestBacked(r), req'[r] = req[r],
           \/ pc'[r] = pc[r]
           \/ pc'[r] \notin {"publish_created", "replied"}
           \/ pc[r] = "publish_created"
           \/ req[r].op # "create",
           DecisionsKept
    PROVE  RequestBacked(r)'
BY DEF RequestBacked, DecisionsKept

\* What go-engine does about a request.
LEMMA EngineBacked ==
    ASSUME TypeOK, IInv, AgentTypeOK, \A q \in Requests : RequestBacked(q),
           NEW r \in Requests, Handler(r) \/ ApiAnswers(r) \/ DbFails(r), DecisionsKept
    PROVE  CreatesKept /\ \A q \in Requests : RequestBacked(q)'
<1>0. StageOK(r)
  BY DEF IInv
<1>1. ASSUME NEW s \in Steps, Insert(r, s)
      PROVE  CreatesKept /\ \A q \in Requests : RequestBacked(q)'
  <2>1. req[r].op = "create" /\ req[r] \in Request
    BY <1>0, <1>1 DEF Insert, StageOK, CreateStages, TypeOK
  <2>2. req'[r].op = "create" /\ req'[r].step = s
    BY <1>1, <2>1 DEF Insert, TypeOK, Request
  <2>3. \A q \in Requests \ {r} : req'[q] = req[q] /\ pc'[q] = pc[q]
    BY <1>1 DEF Insert, Goto, TypeOK
  <2>4. RequestBacked(r)'
    BY <2>2 DEF RequestBacked
  <2>5. \A q \in Requests \ {r} : RequestBacked(q)'
    BY <2>3, BackedRequestKept
  <2>6. QED BY <2>2, <2>3, <2>4, <2>5 DEF CreatesKept
<1>2. ASSUME req' = req,
             \A q \in Requests \ {r} : pc'[q] = pc[q],
             \/ pc'[r] \notin {"publish_created", "replied"}
             \/ pc[r] = "publish_created"
             \/ req[r].op # "create"
      PROVE  CreatesKept /\ \A q \in Requests : RequestBacked(q)'
  BY <1>2, BackedRequestKept DEF CreatesKept
<1>3. CASE SelectMax(r) \/ InsertConflict(r) \/ LoadStep(r) \/ RunToolRefused(r)
           \/ RunToolFails(r) \/ CallApi(r) \/ ApiTimesOut(r) \/ ApiAnswers(r) \/ DbFails(r)
  BY <1>3, <1>2 DEF SelectMax, InsertConflict, LoadStep, ExecuteLoaded, ConfirmLoaded,
                    RunToolRefused, RunToolFails,
                    CallApi, ApiTimesOut, ApiAnswers, DbFails, Goto, TypeOK
<1>4. CASE SkipStep(r) \/ SetConfirmed(r) \/ MarkExecuting(r) \/ PersistSuccess(r)
           \/ PersistError(r)
  BY <1>4, <1>2 DEF SkipStep, SetConfirmed, MarkExecuting, PersistSuccess, PersistError,
                    Update, Goto, TypeOK
<1>5. CASE PublishCreated(r)
  BY <1>5, <1>2 DEF PublishCreated, PublishStatus, Goto, TypeOK
<1>6. CASE PublishSkipped(r) \/ PublishExecuting(r) \/ PublishSuccess(r) \/ PublishError(r)
  <2>1. req[r].op # "create"
    BY <1>0, <1>6 DEF PublishSkipped, PublishExecuting, PublishSuccess, PublishError,
                      StageOK, Asks, RejectStages, RunStages, OwingStages
  <2>2. QED
    BY <1>2, <1>6, <2>1 DEF PublishSkipped, PublishExecuting, PublishSuccess, PublishError,
                            PublishStatus, Goto, TypeOK
<1>7. QED BY <1>1, <1>3, <1>4, <1>5, <1>6 DEF Handler

\* What sending a request does.
LEMMA SendBacked ==
    ASSUME TypeOK, IInv, AgentTypeOK, \A q \in Requests : RequestBacked(q),
           NEW r \in Requests, NEW request \in Request,
           NEW stage \in {"select_max", "load"}, Send(r, request, stage),
           request.op = "confirm" /\ request.approved =>
               request.step \in Steps /\ "approve" \in decided[request.step],
           decided' = decided
    PROVE  /\ CreatesKept
           /\ \A q \in Requests : RequestBacked(q)'
           /\ req'[r] = request
<1>1. req[r].op # "create"
  BY DEF Send, IInv, StageOK, NoRequest
<1>2. /\ req'[r] = request /\ pc'[r] = stage
      /\ \A q \in Requests \ {r} : req'[q] = req[q] /\ pc'[q] = pc[q]
  BY DEF Send, Goto, TypeOK
<1>3. RequestBacked(r)'
  BY <1>2 DEF RequestBacked
<1>4. \A q \in Requests \ {r} : RequestBacked(q)'
  BY <1>2, BackedRequestKept DEF DecisionsKept
<1>5. QED BY <1>1, <1>2, <1>3, <1>4 DEF CreatesKept

KnownKept ==
    /\ \A p \in Sessions : SessionOK(p)'
    /\ \A r \in Requests : RequestBacked(r)'

\* A step of one session that leaves requests and decisions alone.
LEMMA SessionStep ==
    ASSUME AgentInv, NEW p \in Sessions, UNCHANGED <<req, pc, decided>>,
           \A q \in Sessions \ {p} : sess'[q] = sess[q], SessionOK(p)'
    PROVE  KnownKept
<1>1. DecisionsKept /\ CreatesKept
  BY DEF DecisionsKept, CreatesKept
<1>2. \A q \in Sessions : SessionOK(q)'
  BY <1>1, SessionKept DEF AgentInv
<1>3. \A r \in Requests : RequestBacked(r)'
  BY <1>1, BackedRequestKept DEF AgentInv
<1>4. QED BY <1>2, <1>3 DEF KnownKept

\* A session that goes to a stage in which it owes nothing.
Free == Stage \ {"confirm", "send_execute", "creating", "executing"}

LEMMA FreeStep ==
    ASSUME AgentInv, NEW p \in Sessions, UNCHANGED <<req, pc, decided>>,
           NEW session, Becomes(p, session), session.stage \in Free
    PROVE  KnownKept
<1>1. sess'[p] = session /\ \A q \in Sessions \ {p} : sess'[q] = sess[q]
  BY DEF Becomes, AgentInv, AgentTypeOK
<1>2. SessionOK(p)'
  BY <1>1 DEF SessionOK, Free
<1>3. QED BY <1>1, <1>2, SessionStep

LEMMA MovesFree ==
    ASSUME AgentInv, NEW p \in Sessions, UNCHANGED <<vars, decided>>,
           NEW stage \in Free, MovesTo(p, stage)
    PROVE  KnownKept
<1> DEFINE session == [sess[p] EXCEPT !.stage = stage]
<1>1. session.stage = stage
  BY DEF AgentInv, AgentTypeOK, Session
<1>2. Becomes(p, session)
  BY DEF MovesTo
<1> HIDE DEF session
<1>3. QED BY <1>1, <1>2, FreeStep DEF vars

\* What the user and the panel do: a click on a button is a decision.
LEMMA PanelKnown ==
    ASSUME AgentInv, NEW p \in Sessions, User(p) \/ Panel(p)
    PROVE  KnownKept
<1>1. CASE HandleSend(p)
  BY <1>1, MovesFree DEF HandleSend, Free, Stage, Live
<1>2. ASSUME NEW approved \in BOOLEAN, HandleConfirmation(p, approved)
      PROVE  KnownKept
  <2>1. ui.pending \in Steps /\ sess[p] \in Session
    BY <1>2 DEF HandleConfirmation, ModalEnabled, AgentInv, AgentTypeOK
  <2>2. /\ sess'[p].stage = "confirm" /\ sess'[p].step = ui.pending
        /\ sess'[p].approved = approved
        /\ \A q \in Sessions \ {p} : sess'[q] = sess[q]
    BY <1>2, <2>1 DEF HandleConfirmation, Becomes, AgentInv, AgentTypeOK, Session
  <2>3. /\ approved => "approve" \in decided'[ui.pending]
        /\ DecisionsKept
    BY <1>2, <2>1 DEF HandleConfirmation, DecisionsKept, AgentInv, AgentTypeOK
  <2>4. req' = req /\ pc' = pc
    BY <1>2 DEF HandleConfirmation, vars
  <2>5. SessionOK(p)'
    BY <2>1, <2>2, <2>3 DEF SessionOK
  <2>6. CreatesKept
    BY <2>4 DEF CreatesKept
  <2>7. \A q \in Sessions : SessionOK(q)'
    BY <2>2, <2>3, <2>5, <2>6, SessionKept DEF AgentInv
  <2>8. \A r \in Requests : RequestBacked(r)'
    BY <2>3, <2>4, BackedRequestKept DEF AgentInv
  <2>9. QED BY <2>7, <2>8 DEF KnownKept
<1>3. CASE Panel(p)
  <2>1. UNCHANGED <<req, pc, decided, sess>>
    BY <1>3 DEF Panel, HandleEvent, StreamEnds, vars
  <2>2. DecisionsKept /\ CreatesKept
    BY <2>1 DEF DecisionsKept, CreatesKept
  <2>3. \A q \in Sessions : SessionOK(q)'
    BY <2>1, <2>2, SessionKept DEF AgentInv
  <2>4. \A r \in Requests : RequestBacked(r)'
    BY <2>1, <2>2, BackedRequestKept DEF AgentInv
  <2>5. QED BY <2>3, <2>4 DEF KnownKept
<1>4. QED BY <1>1, <1>2, <1>3 DEF User

\* p sends a request and awaits the reply.
LEMMA AwaitsStep ==
    ASSUME AgentInv, NEW p \in Sessions, NEW stage \in Waiting, Awaits(p, stage),
           decided' = decided, NEW request \in Request,
           NEW first \in {"select_max", "load"}, Send(Fresh, request, first),
           request.op = "confirm" /\ request.approved =>
               request.step \in Steps /\ "approve" \in decided[request.step],
           stage = "creating" => request.op = "create",
           stage \in {"creating", "executing"} => sess[p].queue # <<>>
    PROVE  KnownKept
<1>1. Fresh \in Requests
  BY FreshUnsent DEF Awaits
<1>2. /\ sess'[p].stage = stage /\ sess'[p].req = {Fresh}
      /\ sess'[p].queue = sess[p].queue
      /\ \A q \in Sessions \ {p} : sess'[q] = sess[q]
  BY DEF Awaits, Becomes, AgentInv, AgentTypeOK, Session
<1>3. CreatesKept /\ (\A q \in Requests : RequestBacked(q)') /\ req'[Fresh] = request
  BY <1>1, SendBacked DEF AgentInv
<1>4. SessionOK(p)'
  BY <1>1, <1>2, <1>3 DEF SessionOK, Waiting
<1>5. \A q \in Sessions : SessionOK(q)'
  BY <1>2, <1>3, <1>4, SessionKept DEF AgentInv, DecisionsKept
<1>6. QED BY <1>3, <1>5 DEF KnownKept

\* What the planner does.
LEMMA PlannerKnown ==
    ASSUME AgentInv, NEW p \in Sessions, Planner(p)
    PROVE  KnownKept
<1>0. sess[p] \in Session /\ SessionOK(p)
  BY DEF AgentInv, AgentTypeOK
<1> USE DEF Free, Stage, Live
<1>2. ASSUME NEW status, WillPatch(p, status), UNCHANGED <<vars, decided>>
      PROVE  KnownKept
  <2> DEFINE session == [sess[p] EXCEPT !.stage = "send_patch", !.status = status]
  <2>1. session.stage = "send_patch"
    BY <1>0 DEF Session
  <2>2. Becomes(p, session)
    BY <1>2 DEF WillPatch
  <2> HIDE DEF session
  <2>3. QED BY <1>2, <2>1, <2>2, FreeStep DEF vars
<1>3. ASSUME NEW queue, Becomes(p, [sess[p] EXCEPT !.stage = "calls", !.queue = queue]),
             UNCHANGED <<vars, decided>>
      PROVE  KnownKept
  <2> DEFINE session == [sess[p] EXCEPT !.stage = "calls", !.queue = queue]
  <2>1. session.stage = "calls"
    BY <1>0 DEF Session
  <2>2. Becomes(p, session)
    BY <1>3
  <2> HIDE DEF session
  <2>3. QED BY <1>3, <2>1, <2>2, FreeStep DEF vars
<1>4. CASE CreateRun(p) \/ LoadTools(p) \/ GetRun(p) \/ ReloadTools(p)
  BY <1>4, MovesFree, <1>2 DEF CreateRun, LoadTools, GetRun, ReloadTools
<1>5. CASE ConfirmReplied(p) \/ RebuildMessages(p) \/ TurnEnds(p) \/ SendPatch(p)
  BY <1>5, MovesFree DEF ConfirmReplied, RebuildMessages, TurnEnds, SendPatch, Waiting
<1>6. CASE CreateFailed(p) \/ ExecuteReplied(p)
  BY <1>6, <1>3 DEF CreateFailed, ExecuteReplied
<1>7. CASE CallUnknown(p)
  <2> DEFINE session == [sess[p] EXCEPT !.queue = Tail(@)]
  <2>1. session.stage = "calls"
    BY <1>0, <1>7 DEF Session, CallUnknown, At
  <2>2. Becomes(p, session)
    BY <1>7 DEF CallUnknown
  <2> HIDE DEF session
  <2>3. QED BY <1>7, <2>1, <2>2, FreeStep DEF vars, CallUnknown
<1>8. CASE CallLlm(p)
  <2>1. ASSUME NEW proposed,
               Becomes(p, [sess[p] EXCEPT !.stage = "calls", !.queue = proposed,
                                          !.iter = Iterations(p)])
        PROVE  KnownKept
    <3> DEFINE session == [sess[p] EXCEPT !.stage = "calls", !.queue = proposed,
                                          !.iter = Iterations(p)]
    <3>1. session.stage = "calls"
      BY <1>0 DEF Session
    <3>2. Becomes(p, session)
      BY <2>1
    <3> HIDE DEF session
    <3>3. QED BY <1>8, <3>1, <3>2, FreeStep DEF vars, CallLlm
  <2>2. QED BY <1>8, <1>2, <2>1 DEF CallLlm
<1>9. CASE Confirm(p)
  <2> DEFINE request == [NoRequest EXCEPT !.op = "confirm", !.run = TheRun,
                                          !.step = sess[p].step, !.approved = Answer(p)]
  <2>1. sess[p].step \in Steps /\ Answer(p) = sess[p].approved /\ Answer(p) \in BOOLEAN
    BY <1>0, <1>9 DEF Confirm, At, SessionOK, Answer, Session
  <2>2. /\ request \in Request /\ request.op = "confirm"
        /\ request.step = sess[p].step /\ request.approved = Answer(p)
    BY <2>1, RunThere DEF NoRequest, Request
  <2>3. Send(Fresh, request, "load")
    BY <1>9 DEF Confirm, SendConfirm
  <2> HIDE DEF request
  <2>4. request.approved => "approve" \in decided[request.step]
    BY <1>0, <1>9, <2>1, <2>2 DEF Confirm, At, SessionOK
  <2>5. QED BY <1>9, <2>1, <2>2, <2>3, <2>4, AwaitsStep DEF Confirm, Waiting
<1>10. CASE CreateStep(p)
  <2> DEFINE tool == Head(sess[p].queue)
             requires == tool \in Destructive
             request == [NoRequest EXCEPT !.op = "create", !.run = TheRun, !.tool = tool,
                                          !.requires = requires]
  <2>1. tool \in Tools /\ requires \in BOOLEAN
    BY <1>0, <1>10 DEF CreateStep, Session
  <2>2. Send(Fresh, request, "select_max")
    BY <1>10 DEF CreateStep, SendCreate
  <2> HIDE DEF tool, requires
  <2>3. request \in Request /\ request.op = "create"
    BY <2>1, RunThere DEF NoRequest, Request
  <2> HIDE DEF request
  <2>4. QED BY <1>10, <2>2, <2>3, AwaitsStep DEF CreateStep, Waiting
<1>11. CASE ExecuteStep(p)
  <2> DEFINE request == [NoRequest EXCEPT !.op = "execute", !.run = TheRun,
                                          !.step = sess[p].step]
  <2>1. sess[p].step \in Steps /\ sess[p].queue # <<>>
    BY <1>0, <1>11 DEF ExecuteStep, At, SessionOK
  <2>2. request \in Request /\ request.op = "execute"
    BY <2>1, RunThere DEF NoRequest, Request
  <2>3. Send(Fresh, request, "load")
    BY <1>11 DEF ExecuteStep, SendExecute
  <2> HIDE DEF request
  <2>4. QED BY <1>11, <2>1, <2>2, <2>3, AwaitsStep DEF ExecuteStep, Waiting
<1>12. CASE CreateReplied(p)
  <2> DEFINE step == req[CHOOSE r \in sess[p].req : TRUE].step
             session == [sess[p] EXCEPT !.stage = "send_execute", !.step = step]
  <2>1. PICK r \in Requests : sess[p].req = {r} /\ req[r].op = "create"
    BY <1>0, <1>12 DEF CreateReplied, At, SessionOK
  <2>2. step \in Steps
    <3>1. pc[r] = "replied"
      BY <1>12, <2>1 DEF CreateReplied, AnsweredWell
    <3>2. QED BY <2>1, <3>1 DEF AgentInv, RequestBacked
  <2> HIDE DEF step
  <2>3. CASE Becomes(p, Pauses(sess[p], step))
    <3>1. Pauses(sess[p], step).stage = "send_patch"
      BY <1>0 DEF Pauses, Session
    <3>2. QED BY <1>12, <2>3, <3>1, FreeStep DEF CreateReplied, vars
  <2>4. CASE Becomes(p, session)
    <3>1. session.stage = "send_execute" /\ session.step = step
          /\ session.queue = sess[p].queue
      BY <1>0 DEF Session
    <3> HIDE DEF session
    <3>2. sess'[p] = session /\ \A q \in Sessions \ {p} : sess'[q] = sess[q]
      BY <2>4 DEF Becomes, AgentInv, AgentTypeOK
    <3>3. sess[p].queue # <<>>
      BY <1>0, <1>12 DEF CreateReplied, At, SessionOK
    <3>4. SessionOK(p)'
      BY <2>2, <3>1, <3>2, <3>3 DEF SessionOK
    <3>5. QED BY <1>12, <3>2, <3>4, SessionStep DEF CreateReplied, vars
  <2>5. QED BY <1>12, <2>3, <2>4 DEF CreateReplied, step
<1>13. QED
  BY <1>4, <1>5, <1>6, <1>7, <1>8, <1>9, <1>10, <1>11, <1>12 DEF Planner

\* Every step of the system keeps what sessions and requests know.
LEMMA KnownStep ==
    ASSUME AgentInv, [AgentNext]_appVars
    PROVE  KnownKept
<1>1. ASSUME UNCHANGED <<req, pc, decided, sess>>
      PROVE  KnownKept
  <2>1. DecisionsKept /\ CreatesKept
    BY <1>1 DEF DecisionsKept, CreatesKept
  <2>2. \A p \in Sessions : SessionOK(p)'
    BY <1>1, <2>1, SessionKept DEF AgentInv
  <2>3. \A r \in Requests : RequestBacked(r)'
    BY <1>1, <2>1, BackedRequestKept DEF AgentInv
  <2>4. QED BY <2>2, <2>3 DEF KnownKept
<1>2. CASE UNCHANGED appVars
  BY <1>1, <1>2 DEF appVars, vars, agentVars
<1>3. ASSUME NEW p \in Sessions, User(p) \/ Panel(p)
      PROVE  KnownKept
  BY <1>3, PanelKnown
<1>4. ASSUME NEW p \in Sessions, Planner(p)
      PROVE  KnownKept
  BY <1>4, PlannerKnown
<1>5. ASSUME NEW p \in Sessions, TransportFails(p) \/ SessionDies(p)
      PROVE  KnownKept
  <2>1. MovesTo(p, "died") /\ UNCHANGED <<vars, decided>>
    BY <1>5 DEF TransportFails, SessionDies, Aborted, MovesTo
  <2>2. QED BY <2>1, MovesFree DEF Free, Stage
<1>6. ASSUME NEW m \in patches, UpdateRunStatus(m) \/ UpdateRunStatusFails(m)
      PROVE  KnownKept
  <2>1. m.by \in Sessions
    BY DEF AgentInv, AgentTypeOK
  <2>2. UNCHANGED <<vars, decided>>
    BY <1>6 DEF UpdateRunStatus, UpdateRunStatusFails
  <2>3. CASE At(m.by, "patching")
    <3>1. MovesTo(m.by, "ended") \/ MovesTo(m.by, "died")
      BY <1>6, <2>3 DEF UpdateRunStatus, UpdateRunStatusFails, MovesTo, Becomes
    <3>2. QED BY <2>1, <2>2, <3>1, MovesFree DEF Free, Stage
  <2>4. CASE ~ At(m.by, "patching")
    BY <1>1, <1>6, <2>2, <2>4 DEF UpdateRunStatus, UpdateRunStatusFails, vars
  <2>5. QED BY <2>3, <2>4
<1>7. ASSUME NEW r \in Requests, Engine(r)
      PROVE  KnownKept
  <2>1. DecisionsKept
    BY <1>7 DEF Engine, DecisionsKept
  <2>2. CreatesKept /\ \A q \in Requests : RequestBacked(q)'
    BY <1>7, <2>1, EngineBacked DEF Engine, AgentInv
  <2>3. \A p \in Sessions : SessionOK(p)'
    BY <1>7, <2>1, <2>2, SessionKept DEF Engine, AgentInv
  <2>4. QED BY <2>2, <2>3 DEF KnownKept
<1>8. CASE EngineCrash
  <2>1. DecisionsKept /\ CreatesKept /\ req' = req
    BY <1>8 DEF EngineCrash, Crash, DecisionsKept, CreatesKept
  <2>2. \A r \in Requests : pc'[r] = pc[r] \/ pc'[r] \notin {"publish_created", "replied"}
    BY <1>8 DEF EngineCrash, Crash, AgentInv, TypeOK
  <2>3. \A r \in Requests : RequestBacked(r)'
    BY <2>1, <2>2, BackedRequestKept DEF AgentInv
  <2>4. \A p \in Sessions : sess'[p] = sess[p] \/ sess'[p].stage = "died"
    BY <1>8 DEF EngineCrash, AgentInv, AgentTypeOK, Session
  <2>5. \A p \in Sessions : SessionOK(p)'
    <3> SUFFICES ASSUME NEW p \in Sessions PROVE SessionOK(p)'
      OBVIOUS
    <3>1. CASE sess'[p] = sess[p]
      BY <2>1, <3>1, SessionKept DEF AgentInv
    <3>2. CASE sess'[p].stage = "died"
      BY <3>2 DEF SessionOK
    <3>3. QED BY <2>4, <3>1, <3>2
  <2>6. QED BY <2>3, <2>5 DEF KnownKept
<1>9. QED BY <1>2, <1>3, <1>4, <1>5, <1>6, <1>7, <1>8 DEF AgentNext

------------------------------------------------------------------------------
(* Theorems *)

LEMMA AgentInvStep == AgentInv /\ [AgentNext]_appVars => AgentInv'
<1> SUFFICES ASSUME AgentInv, [AgentNext]_appVars PROVE AgentInv'
  OBVIOUS
<1>1. [Next]_vars
  BY StepOfHandlers DEF AgentInv
<1>2. TypeOK' /\ IInv'
  BY <1>1, TypeStep, InvariantStep DEF AgentInv
<1>3. AgentTypeOK'
  BY AgentTypeStep DEF AgentInv
<1>4. KnownKept
  BY KnownStep
<1>5. QED BY <1>2, <1>3, <1>4 DEF AgentInv, KnownKept

LEMMA AgentInvInit == Init /\ AgentInit => AgentInv
<1> SUFFICES ASSUME Init, AgentInit PROVE AgentInv
  OBVIOUS
<1>1. TypeOK /\ IInv
  BY InitTyped, InitInvariant
<1>2. IdleSession \in Session
  BY AgentAssumption DEF IdleSession, Session
<1>3. AgentTypeOK
  BY <1>2, AgentAssumption DEF AgentInit, AgentTypeOK, RunStatus, Told
<1>4. \A p \in Sessions : SessionOK(p)
  BY DEF AgentInit, IdleSession, SessionOK
<1>5. \A r \in Requests : RequestBacked(r)
  BY DEF Init, NoRequest, RequestBacked
<1>6. QED BY <1>1, <1>3, <1>4, <1>5 DEF AgentInv

\* The invariant of the whole system.
THEOREM AgentInvariance == AgentSpec => []AgentInv
BY AgentInvInit, AgentInvStep, PTL DEF AgentSpec

\* The agent is a client of the step handlers of go-engine: whatever browser,
\* planner and failures do, the handlers behave as StepLifecycle says, so each
\* theorem about Spec is one about the whole system.
THEOREM StepRefinement == AgentSpec => Spec
<1>1. AgentInv /\ [AgentNext]_appVars => [Next]_vars
  BY StepOfHandlers DEF AgentInv
<1>2. QED BY <1>1, AgentInvariance, PTL DEF AgentSpec, Spec

\* The whole system implements the abstract confirmation gate.
THEOREM EndToEndGate == AgentSpec => ImplementsGate
BY StepRefinement, GateRefinement, PTL

\* The API of a destructive tool is called for a step only if the user pressed
\* Approve when shown that very step.
THEOREM Consented == AgentSpec => []HumanConsent
<1>1. AgentInv => HumanConsent
  <2> SUFFICES ASSUME AgentInv, NEW r \in Requests, calls[r] > 0,
                      row[req[r].step].tool \in Destructive
               PROVE  "approve" \in decided[req[r].step]
    BY DEF HumanConsent
  <2>1. CallOK(r) /\ RequestBacked(r)
    BY DEF AgentInv, IInv
  <2>2. calls[r] = 1
    BY <2>1 DEF CallOK
  <2>3. req[r].op = "confirm" /\ req[r].approved
    BY <2>1, <2>2 DEF CallOK, Asks, Confirmed
  <2>4. QED BY <2>1, <2>3 DEF RequestBacked
<1>2. QED BY <1>1, AgentInvariance, PTL

\* Type correctness of browser, planner and the messages between them.
THEOREM AgentTypeCorrect == AgentSpec => []AgentTypeOK
<1>1. AgentInv => AgentTypeOK
  BY DEF AgentInv
<1>2. QED BY <1>1, AgentInvariance, PTL

------------------------------------------------------------------------------
(* What the model is told *)

\* A call that was made stays made, for the step it was made for.
LEMMA CallKept ==
    ASSUME TypeOK, IInv, [Next]_vars, NEW r \in Requests, calls[r] > 0
    PROVE  req'[r] = req[r] /\ calls'[r] > 0
<1>0. calls[r] = 1 /\ pc[r] \notin {"unsent", "insert", "run_tool"}
  BY DEF IInv, CallOK, Ended
<1>1. CASE UNCHANGED vars
  BY <1>1 DEF vars
<1>2. ASSUME NEW q \in Requests, Client(q)
      PROVE  req'[r] = req[r] /\ calls' = calls
  <2>1. PICK request, stage : Send(q, request, stage)
    BY <1>2 DEF Client, SendCreate, SendExecute, SendConfirm
  <2>2. q # r
    BY <1>0, <2>1 DEF Send
  <2>3. QED BY <2>1, <2>2 DEF Send, TypeOK
<1>3. ASSUME NEW q \in Requests, Handler(q) \/ ApiAnswers(q) \/ DbFails(q)
      PROVE  req'[r] = req[r] /\ calls'[r] > 0
  <2>1. CASE \E s \in Steps : Insert(q, s)
    BY <1>0, <2>1 DEF Insert, TypeOK
  <2>2. CASE CallApi(q)
    BY <2>2 DEF CallApi, TypeOK
  <2>3. CASE \/ SelectMax(q) \/ InsertConflict(q) \/ LoadStep(q) \/ RunToolRefused(q)
             \/ RunToolFails(q) \/ ApiTimesOut(q) \/ ApiAnswers(q) \/ DbFails(q)
    BY <2>3 DEF SelectMax, InsertConflict, LoadStep, ExecuteLoaded, ConfirmLoaded,
                RunToolRefused, RunToolFails,
                ApiTimesOut, ApiAnswers, DbFails
  <2>4. CASE \/ SkipStep(q) \/ SetConfirmed(q) \/ MarkExecuting(q) \/ PersistSuccess(q)
             \/ PersistError(q)
    BY <2>4 DEF SkipStep, SetConfirmed, MarkExecuting, PersistSuccess, PersistError, Update
  <2>5. CASE \/ PublishCreated(q) \/ PublishSkipped(q) \/ PublishExecuting(q)
             \/ PublishSuccess(q) \/ PublishError(q)
    BY <2>5 DEF PublishCreated, PublishSkipped, PublishExecuting, PublishSuccess,
                PublishError, PublishStatus
  <2>6. QED BY <1>3, <2>1, <2>2, <2>3, <2>4, <2>5 DEF Handler
<1>4. CASE Crash
  BY <1>4 DEF Crash
<1>5. QED BY <1>1, <1>2, <1>3, <1>4 DEF Next

\* The conversation changes when a session rebuilds it from the rows and when an
\* execution is answered: a result it then has is the one of a row in success.
LEMMA ToldFromRows ==
    ASSUME AgentInv, [AgentNext]_appVars, NEW s \in Steps, told'[s] = "result"
    PROVE  told[s] = "result" \/ row[s].status = "success"
<1>1. ASSUME NEW p \in Sessions, RebuildMessages(p)
      PROVE  row[s].status = "success"
  <2>1. Retold(s) = "result" /\ row[s].status \in StepStatus
    BY <1>1 DEF RebuildMessages, AgentInv, TypeOK, Row
  <2>2. QED BY <2>1 DEF Retold, StepStatus
<1>2. ASSUME NEW p \in Sessions, ExecuteReplied(p)
      PROVE  told[s] = "result" \/ row[s].status = "success"
  <2>1. CASE s = sess[p].step
    BY <1>2, <2>1 DEF ExecuteReplied, ToldReply, AgentInv, AgentTypeOK
  <2>2. CASE s # sess[p].step
    BY <1>2, <2>2 DEF ExecuteReplied, AgentInv, AgentTypeOK
  <2>3. QED BY <2>1, <2>2
<1>3. ASSUME NEW p \in Sessions, Planner(p), ~ RebuildMessages(p), ~ ExecuteReplied(p)
      PROVE  told' = told
  BY <1>3 DEF Planner, CreateRun, LoadTools, Confirm, ConfirmReplied, GetRun, ReloadTools,
              CallLlm, CallUnknown, CreateStep, CreateFailed, CreateReplied, ExecuteStep,
              TurnEnds, SendPatch
<1>4. ASSUME NEW p \in Sessions, User(p) \/ Panel(p) \/ TransportFails(p) \/ SessionDies(p)
      PROVE  told' = told
  BY <1>4 DEF User, HandleSend, HandleConfirmation, Panel, HandleEvent, StreamEnds,
              TransportFails, SessionDies
<1>5. ASSUME NEW m \in patches, UpdateRunStatus(m) \/ UpdateRunStatusFails(m)
      PROVE  told' = told
  BY <1>5 DEF UpdateRunStatus, UpdateRunStatusFails
<1>6. ASSUME NEW r \in Requests, Engine(r)
      PROVE  told' = told
  BY <1>6 DEF Engine
<1>7. CASE EngineCrash
  BY <1>7 DEF EngineCrash
<1>8. CASE UNCHANGED appVars
  BY <1>8 DEF appVars, agentVars
<1>9. QED
  BY <1>1, <1>2, <1>3, <1>4, <1>5, <1>6, <1>7, <1>8 DEF AgentNext

\* The model is handed a result for a step only if a call was made for it.
THEOREM ToldTruth == AgentSpec => []ToldResultHappened
<1>1. Init /\ AgentInit => ToldResultHappened
  BY DEF AgentInit, ToldResultHappened
<1>2. AgentInv /\ ToldResultHappened /\ [AgentNext]_appVars => ToldResultHappened'
  <2> SUFFICES ASSUME AgentInv, ToldResultHappened, [AgentNext]_appVars,
                      NEW s \in Steps, told'[s] = "result"
               PROVE  \E r \in Requests : req'[r].step = s /\ calls'[r] > 0
    BY DEF ToldResultHappened
  <2>1. [Next]_vars
    BY StepOfHandlers DEF AgentInv
  <2>2. PICK r \in Requests : req[r].step = s /\ calls[r] > 0
    BY ToldFromRows DEF ToldResultHappened, AgentInv, IInv, OutcomeBacked
  <2>3. QED BY <2>1, <2>2, CallKept DEF AgentInv
<1>3. QED BY <1>1, <1>2, AgentInvariance, PTL DEF AgentSpec

=============================================================================
