------------------------- MODULE StepLifecycleProofs -------------------------
(***************************************************************************)
(* Theorems about StepLifecycle, for every set of runs, steps, requests    *)
(* and tools.                                                              *)
(***************************************************************************)
EXTENDS StepLifecycle, TLAPS

------------------------------------------------------------------------------
(* Type correctness *)

\* The UPDATEs of the handlers set a status, the confirmed flag, or both.
LEMMA RowUpdates ==
    ASSUME NEW o \in Row, NEW status \in StepStatus, NEW confirmed \in BOOLEAN
    PROVE  /\ [o EXCEPT !.status = status] \in Row
           /\ [o EXCEPT !.confirmed = confirmed] \in Row
           /\ [o EXCEPT !.status = status, !.confirmed = confirmed] \in Row
BY DEF Row

\* One UPDATE of a row keeps the types.
LEMMA UpdateTyped ==
    ASSUME TypeOK, NEW r \in Requests, NEW newRow, NEW next, NEW ending,
           req[r].step \in Steps => newRow \in Row,
           next \in InFlight \cup Ended, ending \in InFlight \cup Ended,
           Update(r, newRow, next, ending)
    PROVE  TypeOK'
BY DEF TypeOK, Update, Goto

\* A publish keeps the types.
LEMMA PublishTyped ==
    ASSUME TypeOK, NEW r \in Requests, NEW status \in StepStatus, NEW next,
           next \in InFlight \cup Ended, PublishStatus(r, status, next)
    PROVE  TypeOK'
BY DEF TypeOK, PublishStatus, Goto

\* An action that only moves the program counter of one request keeps the types.
LEMMA GotoTyped ==
    ASSUME TypeOK, NEW r \in Requests, NEW stage,
           stage \in InFlight \cup Ended, Goto(r, stage),
           UNCHANGED <<row, req, nextIndex, calls, announced>>
    PROVE  TypeOK'
BY DEF TypeOK, Goto

\* Every action keeps the types.
LEMMA TypeStep == TypeOK /\ [Next]_vars => TypeOK'
<1> SUFFICES ASSUME TypeOK, [Next]_vars PROVE TypeOK'
    OBVIOUS
<1> USE StepAssumption DEF InFlight, CreateStages, RejectStages, RunStages, OwingStages, Ended
<1>1. CASE UNCHANGED vars
  BY <1>1 DEF TypeOK, vars
<1>2. CASE Crash
  BY <1>2 DEF Crash, TypeOK
<1>3. ASSUME NEW r \in Requests, Client(r)
      PROVE  TypeOK'
  <2>1. ASSUME NEW request \in Request, NEW stage \in {"select_max", "load"},
               Send(r, request, stage)
        PROVE  TypeOK'
    BY <2>1 DEF Send, Goto, TypeOK
  <2>2. CASE \E run \in Runs, tool \in Tools \cup {Unusable}, requires \in BOOLEAN :
                SendCreate(r, run, tool, requires)
    BY <2>1, <2>2 DEF SendCreate, NoRequest, Request
  <2>3. CASE \E run \in Runs, s \in Steps : SendExecute(r, run, s)
    BY <2>1, <2>3 DEF SendExecute, NoRequest, Request
  <2>4. CASE \E run \in Runs, s \in Steps, approved \in BOOLEAN :
                SendConfirm(r, run, s, approved)
    BY <2>1, <2>4 DEF SendConfirm, NoRequest, Request
  <2>5. QED BY <1>3, <2>2, <2>3, <2>4 DEF Client
<1>4. ASSUME NEW r \in Requests, Handler(r)
      PROVE  TypeOK'
  <2>0. req[r].step \in Steps => row[req[r].step] \in Row
    BY DEF TypeOK
  <2>1. CASE SelectMax(r)
    BY <2>1 DEF SelectMax, Goto, TypeOK, Row
  <2>2. CASE InsertConflict(r)
    BY <2>2, GotoTyped DEF InsertConflict
  <2>3. CASE PublishCreated(r)
    BY <2>3, PublishTyped DEF PublishCreated, InitialStatus, StepStatus
  <2>4. ASSUME NEW s \in Steps, Insert(r, s)
        PROVE  TypeOK'
    <3>1. req[r] \in Request /\ nextIndex[r] \in Nat
      BY DEF TypeOK
    <3>2. [run |-> req[r].run, index |-> nextIndex[r], tool |-> req[r].tool,
           requires |-> req[r].requires, confirmed |-> FALSE,
           status |-> InitialStatus(req[r].requires)] \in Row
      BY <3>1 DEF Row, Request, InitialStatus, StepStatus
    <3>3. row' \in [Steps -> Row]
      BY <2>4, <3>2 DEF Insert, TypeOK
    <3>4. [req[r] EXCEPT !.step = s] \in Request
      BY <3>1 DEF Request
    <3>5. req' \in [Requests -> Request]
      BY <2>4, <3>4 DEF Insert, TypeOK
    <3>6. QED BY <2>4, <3>3, <3>5 DEF Insert, Goto, TypeOK
  <2>5. CASE LoadStep(r)
    BY <2>5, GotoTyped DEF LoadStep, ExecuteLoaded, ConfirmLoaded
  <2>6. CASE SkipStep(r)
    BY <2>6, <2>0, UpdateTyped, RowUpdates DEF SkipStep, StepStatus
  <2>7. CASE PublishSkipped(r)
    BY <2>7, PublishTyped DEF PublishSkipped, StepStatus
  <2>8. CASE SetConfirmed(r)
    BY <2>8, <2>0, UpdateTyped, RowUpdates DEF SetConfirmed, StepStatus
  <2>9. CASE MarkExecuting(r)
    BY <2>9, <2>0, UpdateTyped, RowUpdates DEF MarkExecuting, StepStatus
  <2>10. CASE PublishExecuting(r)
    BY <2>10, PublishTyped DEF PublishExecuting, StepStatus
  <2>11. CASE RunToolRefused(r) \/ RunToolFails(r) \/ ApiTimesOut(r)
    BY <2>11, GotoTyped DEF RunToolRefused, RunToolFails, ApiTimesOut
  <2>12. CASE CallApi(r)
    BY <2>12 DEF CallApi, Goto, TypeOK
  <2>13. CASE PersistSuccess(r)
    BY <2>13, <2>0, UpdateTyped, RowUpdates DEF PersistSuccess, StepStatus
  <2>14. CASE PersistError(r)
    BY <2>14, <2>0, UpdateTyped, RowUpdates DEF PersistError, StepStatus
  <2>15. CASE PublishSuccess(r) \/ PublishError(r)
    BY <2>15, PublishTyped DEF PublishSuccess, PublishError, StepStatus
  <2>16. QED
    BY <1>4, <2>1, <2>2, <2>3, <2>4, <2>5, <2>6, <2>7, <2>8, <2>9, <2>10, <2>11,
       <2>12, <2>13, <2>14, <2>15 DEF Handler
<1>5. ASSUME NEW r \in Requests, ApiAnswers(r) \/ DbFails(r)
      PROVE  TypeOK'
  BY <1>5, GotoTyped DEF ApiAnswers, DbFails
<1>6. QED BY <1>1, <1>2, <1>3, <1>4, <1>5 DEF Next

LEMMA InitTyped == Init => TypeOK
BY StepAssumption DEF Init, TypeOK, AbsentRow, Row, NoRequest, Request, StepStatus

\* The variables keep their types.
THEOREM TypeCorrect == Spec => []TypeOK
BY InitTyped, TypeStep, PTL DEF Spec

------------------------------------------------------------------------------
(* What a step of one request leaves alone *)

\* Rows that exist stay, with the run, index and tool they were created with.
RowsKept ==
    \A s \in Steps : Exists(s) =>
        /\ Exists(s)'
        /\ row'[s].run = row[s].run
        /\ row'[s].index = row[s].index
        /\ row'[s].tool = row[s].tool

\* No row is inserted.
NoNewRow == \A s \in Steps : ~ Exists(s) => row'[s] = row[s]

RequestOK(r) == StageOK(r) /\ CallOK(r) /\ IndexOK(r)

\* r is accountable for a step that is 'executing'.
Owes(r) == pc[r] \in OwingStages \cup {"refused", "orphaned"}

OthersAlone(r) ==
    \A q \in Requests \ {r} :
        /\ req'[q] = req[q] /\ pc'[q] = pc[q]
        /\ nextIndex'[q] = nextIndex[q] /\ calls'[q] = calls[q]

\* What holds of a request goes on holding while the others work.
LEMMA RequestKept ==
    ASSUME TypeOK, RowsKept, NEW q \in Requests, RequestOK(q),
           req'[q] = req[q], pc'[q] = pc[q],
           nextIndex'[q] = nextIndex[q], calls'[q] = calls[q]
    PROVE  RequestOK(q)'
<1>1. Loaded(q) => Loaded(q)' /\ row'[req[q].step].tool = row[req[q].step].tool
  BY DEF Loaded, RowsKept, Exists
<1>2. StageOK(q)'
  BY <1>1 DEF RequestOK, StageOK, Asks, Loaded
<1>3. CallOK(q)'
  BY <1>1 DEF RequestOK, CallOK, Asks, Confirmed, Loaded
<1>4. IndexOK(q)'
  BY DEF RequestOK, IndexOK, StepsOf, RowsKept
<1>5. QED BY <1>2, <1>3, <1>4 DEF RequestOK

\* Without a new row the rows stay blank or in their runs, and the numbering
\* of every run stays dense.
LEMMA RowsOKKept ==
    ASSUME TypeOK, RowsOK, RowsKept, NoNewRow
    PROVE  RowsOK'
BY DEF RowsOK, RowsKept, NoNewRow, Exists

LEMMA DenseKept ==
    ASSUME TypeOK, IndexesDense, RowsKept, NoNewRow
    PROVE  IndexesDense'
BY DEF IndexesDense, StepsOf, RowsKept, NoNewRow, Exists

\* A step of r that owes no less than before, and that makes no row
\* 'executing' but one r now owes an outcome for, keeps the account.
LEMMA AccountKept ==
    ASSUME TypeOK, ExecutingAccountable, NEW r \in Requests, OthersAlone(r),
           req[r].op \in {"execute", "confirm"} => req'[r] = req[r],
           \A s \in Steps : row'[s].status = "executing" =>
               \/ row[s].status = "executing" /\ ((req[r].step = s /\ Owes(r)) => Owes(r)')
               \/ req'[r].step = s /\ req'[r].op \in {"execute", "confirm"} /\ Owes(r)'
    PROVE  ExecutingAccountable'
<1> SUFFICES ASSUME NEW s \in Steps, row'[s].status = "executing"
             PROVE  \E q \in Requests :
                        /\ req'[q].step = s
                        /\ req'[q].op \in {"execute", "confirm"}
                        /\ Owes(q)'
  BY DEF ExecutingAccountable, Owes
<1>1. CASE req'[r].step = s /\ req'[r].op \in {"execute", "confirm"} /\ Owes(r)'
  BY <1>1
<1>2. CASE row[s].status = "executing" /\ ((req[r].step = s /\ Owes(r)) => Owes(r)')
  <2>1. PICK q \in Requests : /\ req[q].step = s
                              /\ req[q].op \in {"execute", "confirm"}
                              /\ Owes(q)
    BY <1>2 DEF ExecutingAccountable, Owes
  <2>2. req'[q] = req[q] /\ Owes(q)'
    BY <2>1, <1>2 DEF OthersAlone, Owes
  <2>3. QED BY <2>1, <2>2
<1>3. QED BY <1>1, <1>2

\* r backs an outcome of step s.
Backs(r, s, outcome) ==
    /\ req[r].step = s
    /\ outcome = "success" => calls[r] > 0
    /\ outcome = "skipped" => req[r].op = "confirm" /\ ~ req[r].approved

\* A step of r that stores or publishes no outcome but one r backs keeps every
\* outcome backed.
LEMMA BackedKept ==
    ASSUME TypeOK, OutcomeBacked, NEW r \in Requests, OthersAlone(r),
           \A s \in Steps, outcome \in {"success", "skipped"} :
               Backs(r, s, outcome) => Backs(r, s, outcome)',
           \A s \in Steps, outcome \in {"success", "skipped"} :
               row'[s].status = outcome => row[s].status = outcome \/ Backs(r, s, outcome)',
           \A run \in Runs, s \in Steps, outcome \in {"success", "skipped"} :
               announced'[run][s] = outcome =>
                   announced[run][s] = outcome \/ Backs(r, s, outcome)'
    PROVE  OutcomeBacked'
<1> DEFINE Told(s, outcome) ==
        row[s].status = outcome \/ \E run \in Runs : announced[run][s] = outcome
<1>1. \A s \in Steps, outcome \in {"success", "skipped"} :
          Told(s, outcome) => \E q \in Requests : Backs(q, s, outcome)
  BY DEF OutcomeBacked, Backs
<1>2. \A q \in Requests, s \in Steps, outcome \in {"success", "skipped"} :
          Backs(q, s, outcome) => Backs(q, s, outcome)'
  BY DEF OthersAlone, Backs
<1>3. \A s \in Steps, outcome \in {"success", "skipped"} :
          Told(s, outcome)' => \E q \in Requests : Backs(q, s, outcome)'
  BY <1>1, <1>2
<1>4. QED BY <1>3 DEF OutcomeBacked, Backs

------------------------------------------------------------------------------
(* The three kinds of step a handler takes *)

\* A step of r that touches neither the table nor the channels.
LEMMA QuietStep ==
    ASSUME TypeOK, IInv, NEW r \in Requests, OthersAlone(r),
           row' = row, announced' = announced, req'[r] = req[r],
           calls'[r] >= calls[r], RequestOK(r)', Owes(r) => Owes(r)'
    PROVE  IInv'
<1>1. RowsKept /\ NoNewRow
  BY DEF RowsKept, NoNewRow, Exists
<1>2. \A q \in Requests : RequestOK(q)'
  BY <1>1, RequestKept DEF IInv, OthersAlone, RequestOK
<1>3. RowsOK' /\ IndexesDense'
  BY <1>1, RowsOKKept, DenseKept DEF IInv
<1>4. ExecutingAccountable'
  BY AccountKept DEF IInv
<1>5. OutcomeBacked'
  <2>1. calls[r] \in Nat /\ calls'[r] >= calls[r]
    BY DEF TypeOK
  <2>2. calls'[r] \in {0, 1}
    BY DEF RequestOK, CallOK
  <2>3. \A s \in Steps, outcome \in {"success", "skipped"} :
            Backs(r, s, outcome) => Backs(r, s, outcome)'
    BY <2>1, <2>2 DEF Backs
  <2>4. QED BY <2>3, BackedKept DEF IInv
<1>6. QED BY <1>2, <1>3, <1>4, <1>5 DEF IInv, RequestOK

\* An UPDATE of the row of r's step.
LEMMA UpdateStep ==
    ASSUME TypeOK, TypeOK', IInv, NEW r \in Requests, Loaded(r),
           NEW newRow, NEW next, NEW ending, Update(r, newRow, next, ending),
           newRow.run = row[req[r].step].run, newRow.index = row[req[r].step].index,
           newRow.tool = row[req[r].step].tool, newRow.status # "absent",
           RequestOK(r)',
           newRow.status = "executing" =>
               \/ Owes(r)' /\ req[r].op \in {"execute", "confirm"}
               \/ row[req[r].step].status = "executing" /\ (Owes(r) => Owes(r)'),
           newRow.status \in {"success", "skipped"} =>
               \/ row[req[r].step].status = newRow.status
               \/ Backs(r, req[r].step, newRow.status)
    PROVE  IInv'
<1>1. OthersAlone(r) /\ req' = req /\ calls' = calls /\ announced' = announced
  BY DEF Update, Goto, OthersAlone, TypeOK
<1>2. \A s \in Steps : row'[s] = IF s = req[r].step THEN newRow ELSE row[s]
  BY DEF Update, TypeOK
<1>3. RowsKept /\ NoNewRow
  BY <1>2 DEF RowsKept, NoNewRow, Exists, Loaded
<1>4. \A q \in Requests : RequestOK(q)'
  BY <1>1, <1>3, RequestKept DEF IInv, OthersAlone, RequestOK
<1>5. RowsOK' /\ IndexesDense'
  BY <1>3, RowsOKKept, DenseKept DEF IInv
<1>6. ExecutingAccountable'
  <2>1. \A s \in Steps : row'[s].status = "executing" =>
            \/ row[s].status = "executing" /\ ((req[r].step = s /\ Owes(r)) => Owes(r)')
            \/ req'[r].step = s /\ req'[r].op \in {"execute", "confirm"} /\ Owes(r)'
    BY <1>1, <1>2
  <2>2. QED BY <1>1, <2>1, AccountKept DEF IInv
<1>7. OutcomeBacked'
  <2>1. \A s \in Steps, outcome \in {"success", "skipped"} :
            row'[s].status = outcome => row[s].status = outcome \/ Backs(r, s, outcome)'
    BY <1>1, <1>2 DEF Backs
  <2>2. QED BY <1>1, <2>1, BackedKept DEF IInv, Backs
<1>8. QED BY <1>4, <1>5, <1>6, <1>7 DEF IInv, RequestOK

\* A publish about r's step.
LEMMA PublishStep ==
    ASSUME TypeOK, TypeOK', IInv, NEW r \in Requests, Loaded(r),
           NEW status, NEW next, PublishStatus(r, status, next),
           RequestOK(r)', Owes(r) => Owes(r)',
           status \in {"success", "skipped"} => Backs(r, req[r].step, status)
    PROVE  IInv'
<1>1. OthersAlone(r) /\ req' = req /\ calls' = calls /\ row' = row
  BY DEF PublishStatus, Goto, OthersAlone, TypeOK
<1>2. RowsKept /\ NoNewRow
  BY <1>1 DEF RowsKept, NoNewRow, Exists
<1>3. \A q \in Requests : RequestOK(q)'
  BY <1>1, <1>2, RequestKept DEF IInv, OthersAlone, RequestOK
<1>4. RowsOK' /\ IndexesDense'
  BY <1>2, RowsOKKept, DenseKept DEF IInv
<1>5. ExecutingAccountable'
  BY <1>1, AccountKept DEF IInv
<1>6. OutcomeBacked'
  <2>1. \A run \in Runs, s \in Steps :
            announced'[run][s] = announced[run][s] \/ (s = req[r].step /\ announced'[run][s] = status)
    BY DEF PublishStatus, TypeOK
  <2>2. \A run \in Runs, s \in Steps, outcome \in {"success", "skipped"} :
            announced'[run][s] = outcome =>
                announced[run][s] = outcome \/ Backs(r, s, outcome)'
    BY <1>1, <2>1 DEF Backs
  <2>3. QED BY <1>1, <2>2, BackedKept DEF IInv, Backs
<1>7. QED BY <1>3, <1>4, <1>5, <1>6 DEF IInv, RequestOK

------------------------------------------------------------------------------
(* The invariant is inductive *)

\* Sending a request.
LEMMA SendStep ==
    ASSUME TypeOK, IInv, NEW r \in Requests,
           NEW request \in Request, NEW stage, Send(r, request, stage),
           \/ stage = "select_max" /\ request.op = "create" /\ request.run \in Runs
           \/ stage = "load" /\ request.op \in {"execute", "confirm"} /\ request.step \in Steps
    PROVE  IInv'
<1>1. /\ OthersAlone(r) /\ row' = row /\ announced' = announced /\ calls' = calls
      /\ nextIndex' = nextIndex /\ req'[r] = request /\ pc'[r] = stage
      /\ pc[r] = "unsent" /\ req[r].op = "none" /\ calls[r] = 0
  <2>1. pc[r] = "unsent" /\ req[r] = NoRequest /\ calls[r] = 0
    BY DEF Send, IInv, StageOK, CallOK, Ended
  <2>2. QED BY <2>1 DEF Send, Goto, OthersAlone, TypeOK, NoRequest
<1>2. RowsKept /\ NoNewRow
  BY <1>1 DEF RowsKept, NoNewRow, Exists
<1>3. RequestOK(r)'
  BY <1>1 DEF RequestOK, StageOK, CallOK, IndexOK, CreateStages, RejectStages, RunStages,
              OwingStages
<1>4. \A q \in Requests : RequestOK(q)'
  BY <1>1, <1>2, <1>3, RequestKept DEF IInv, OthersAlone, RequestOK
<1>5. RowsOK' /\ IndexesDense'
  BY <1>2, RowsOKKept, DenseKept DEF IInv
<1>6. ExecutingAccountable'
  <2>1. ~ Owes(r)
    BY <1>1 DEF Owes, OwingStages
  <2>2. QED BY <1>1, <2>1, AccountKept DEF IInv
<1>7. OutcomeBacked'
  <2>1. \A s \in Steps, outcome \in {"success", "skipped"} :
            ~ Backs(r, s, outcome)
    BY <1>1 DEF Backs
  <2>2. QED BY <1>1, <2>1, BackedKept DEF IInv
<1>8. QED BY <1>4, <1>5, <1>6, <1>7 DEF IInv, RequestOK

\* Inserting a row.
LEMMA InsertStep ==
    ASSUME TypeOK, IInv, NEW r \in Requests, NEW s \in Steps, Insert(r, s)
    PROVE  IInv'
<1>1. /\ OthersAlone(r) /\ announced' = announced /\ calls' = calls /\ nextIndex' = nextIndex
      /\ pc'[r] \in {"publish_created", "failed"} /\ req'[r] = [req[r] EXCEPT !.step = s]
      /\ ~ Exists(s) /\ pc[r] = "insert" /\ IndexFree(req[r].run, nextIndex[r])
  BY DEF Insert, Goto, OthersAlone, TypeOK
<1>2. /\ row'[s].run = req[r].run /\ row'[s].index = nextIndex[r]
      /\ row'[s].status \in {"pending", "awaiting_confirmation"}
      /\ \A t \in Steps \ {s} : row'[t] = row[t]
  BY DEF Insert, TypeOK, InitialStatus
<1>3. /\ req[r].op = "create" /\ req[r].run \in Runs /\ calls[r] = 0
      /\ req'[r].op = "create" /\ req'[r].step = s /\ req'[r].run = req[r].run
  <2>1. req[r] \in Request /\ StageOK(r) /\ CallOK(r)
    BY DEF TypeOK, IInv
  <2>2. QED BY <1>1, <2>1 DEF StageOK, CallOK, CreateStages, Ended, Request
<1>4. RowsKept /\ Exists(s)'
  BY <1>1, <1>2 DEF RowsKept, Exists
<1>5. RequestOK(r)'
  BY <1>1, <1>3, <1>4 DEF RequestOK, StageOK, CallOK, IndexOK, Loaded, CreateStages,
              RejectStages, RunStages, OwingStages, Ended
<1>6. \A q \in Requests : RequestOK(q)'
  BY <1>1, <1>4, <1>5, RequestKept DEF IInv, OthersAlone, RequestOK
<1>7. RowsOK'
  BY <1>1, <1>2, <1>3, <1>4 DEF IInv, RowsOK, Exists
<1>8. IndexesDense'
  <2>1. IndexOK(r) /\ IndexesDense /\ nextIndex[r] \in Nat
    BY DEF IInv, TypeOK
  <2>2. nextIndex[r] = 0 \/ \E t \in StepsOf(req[r].run) : row[t].index + 1 = nextIndex[r]
    BY <1>1, <2>1 DEF IndexOK
  <2>3. \A t \in Steps : Exists(t)' => t = s \/ (Exists(t) /\ row'[t] = row[t])
    BY <1>2 DEF Exists
  <2>4. ASSUME NEW t \in Steps, Exists(t)'
        PROVE  /\ \A z \in StepsOf(row[t].run)' : row'[z].index = row'[t].index => z = t
               /\ row'[t].index > 0 =>
                     \E z \in StepsOf(row[t].run)' : row'[z].index + 1 = row'[t].index
    <3>1. CASE t = s
      <4>1. \A z \in StepsOf(row[s].run)' : z = s \/ (z \in StepsOf(req[r].run) /\ row'[z] = row[z])
        BY <1>2, <2>3 DEF StepsOf
      <4>2. \A z \in StepsOf(row[s].run)' : row'[z].index = row'[s].index => z = s
        BY <4>1, <1>1, <1>2 DEF IndexFree
      <4>3. \A z \in StepsOf(req[r].run) : z \in StepsOf(row[s].run)' /\ row'[z] = row[z]
        BY <1>1, <1>2, <1>4 DEF StepsOf, RowsKept
      <4>4. row'[s].index > 0 => \E z \in StepsOf(row[s].run)' : row'[z].index + 1 = row'[s].index
        BY <4>3, <1>2, <2>1, <2>2
      <4>5. QED BY <3>1, <4>2, <4>4
    <3>2. CASE t # s
      <4>1. Exists(t) /\ row'[t] = row[t]
        BY <2>3, <2>4, <3>2
      <4>2. \A z \in StepsOf(row[t].run)' :
                \/ z \in StepsOf(row[t].run) /\ row'[z] = row[z]
                \/ z = s /\ row[t].run = req[r].run
        BY <1>2, <2>3, <4>1 DEF StepsOf
      <4>3. t \in StepsOf(row[t].run)
        BY <4>1 DEF StepsOf
      <4>4. row[t].run = req[r].run => row[t].index # nextIndex[r]
        BY <1>1, <4>3 DEF IndexFree
      <4>5. \A z \in StepsOf(row[t].run)' : row'[z].index = row'[t].index => z = t
        BY <4>1, <4>2, <4>4, <1>2, <2>1 DEF IndexesDense
      <4>6. \A z \in StepsOf(row[t].run) : z \in StepsOf(row[t].run)' /\ row'[z] = row[z]
        BY <1>1, <1>2, <1>4, <4>1 DEF StepsOf, RowsKept
      <4>7. row'[t].index > 0 => \E z \in StepsOf(row[t].run)' : row'[z].index + 1 = row'[t].index
        BY <4>1, <4>6, <2>1 DEF IndexesDense
      <4>8. QED BY <4>5, <4>7
    <3>3. QED BY <3>1, <3>2
  <2>5. QED BY <2>4 DEF IndexesDense
<1>9. ExecutingAccountable'
  <2>1. \A t \in Steps : row'[t].status = "executing" => row[t].status = "executing"
    BY <1>2
  <2>2. ~ Owes(r)
    BY <1>1 DEF Owes, OwingStages
  <2>3. QED BY <1>1, <1>3, <2>1, <2>2, AccountKept DEF IInv
<1>10. OutcomeBacked'
  <2>1. \A t \in Steps, outcome \in {"success", "skipped"} : ~ Backs(r, t, outcome)
    BY <1>3 DEF Backs
  <2>2. \A t \in Steps, outcome \in {"success", "skipped"} :
            row'[t].status = outcome => row[t].status = outcome
    BY <1>2
  <2>3. QED BY <1>1, <2>1, <2>2, BackedKept DEF IInv
<1>11. QED BY <1>6, <1>7, <1>8, <1>9, <1>10 DEF IInv, RequestOK

\* A crash.
LEMMA CrashStep ==
    ASSUME TypeOK, IInv, Crash
    PROVE  IInv'
<1>1. /\ row' = row /\ req' = req /\ calls' = calls /\ announced' = announced
      /\ nextIndex' = nextIndex
  BY DEF Crash
<1>2. \A q \in Requests : /\ pc[q] \in OwingStages => pc'[q] = "orphaned"
                          /\ pc'[q] = pc[q] \/ pc'[q] = "orphaned" \/ pc'[q] = "failed"
                          /\ pc[q] \notin InFlight => pc'[q] = pc[q]
  <2> TAKE q \in Requests
  <2>1. pc'[q] = IF pc[q] \in OwingStages THEN "orphaned"
                 ELSE IF pc[q] \in InFlight THEN "failed" ELSE pc[q]
    BY DEF Crash
  <2>2. OwingStages \subseteq InFlight
    BY DEF InFlight, RunStages
  <2>3. QED BY <2>1, <2>2
<1>3. \A q \in Requests : Owes(q) => Owes(q)'
  BY <1>2 DEF TypeOK, Owes, InFlight, CreateStages, RejectStages, RunStages, OwingStages, Ended
<1>4. \A q \in Requests : RequestOK(q) => RequestOK(q)'
  <2> SUFFICES ASSUME NEW q \in Requests, RequestOK(q) PROVE RequestOK(q)'
    OBVIOUS
  <2>1. CASE pc'[q] = pc[q]
    BY <1>1, <2>1 DEF RequestOK, StageOK, CallOK, IndexOK, StepsOf, Loaded, Exists, Asks,
                      Confirmed
  <2>2. CASE pc'[q] \in {"orphaned", "failed"}
    BY <1>1, <2>2 DEF RequestOK, StageOK, CallOK, IndexOK, Loaded, Exists, Asks, Confirmed,
                      CreateStages, RejectStages, RunStages, OwingStages, Ended
  <2>3. pc'[q] = pc[q] \/ pc'[q] \in {"orphaned", "failed"}
    BY <1>2
  <2>4. QED BY <2>1, <2>2, <2>3
<1>5. \A q \in Requests : RequestOK(q)'
  BY <1>4 DEF IInv, RequestOK
<1>6. RowsOK' /\ IndexesDense' /\ OutcomeBacked'
  BY <1>1 DEF IInv, RowsOK, IndexesDense, OutcomeBacked, Exists, StepsOf
<1>7. ExecutingAccountable'
  BY <1>1, <1>3 DEF IInv, ExecutingAccountable, Owes
<1>8. QED BY <1>5, <1>6, <1>7 DEF IInv, RequestOK

\* Every action keeps the invariant.
LEMMA InvariantStep == TypeOK /\ IInv /\ [Next]_vars => IInv'
<1> SUFFICES ASSUME TypeOK, IInv, [Next]_vars PROVE IInv'
    OBVIOUS
<1>0. TypeOK'
  BY TypeStep
<1>1. CASE UNCHANGED vars
  BY <1>1 DEF vars, IInv, RowsOK, IndexesDense, OutcomeBacked, ExecutingAccountable, Exists,
              StepsOf, StageOK, CallOK, IndexOK, Loaded, Asks, Confirmed
<1>2. CASE Crash
  BY <1>2, CrashStep
<1>3. ASSUME NEW r \in Requests, Client(r)
      PROVE  IInv'
  <2>1. CASE \E run \in Runs, tool \in Tools \cup {Unusable}, requires \in BOOLEAN :
                SendCreate(r, run, tool, requires)
    BY <2>1, SendStep DEF SendCreate, NoRequest, Request
  <2>2. CASE \E run \in Runs, s \in Steps : SendExecute(r, run, s)
    BY <2>2, SendStep DEF SendExecute, NoRequest, Request
  <2>3. CASE \E run \in Runs, s \in Steps, approved \in BOOLEAN :
                SendConfirm(r, run, s, approved)
    BY <2>3, SendStep DEF SendConfirm, NoRequest, Request
  <2>4. QED BY <1>3, <2>1, <2>2, <2>3 DEF Client
<1>4. ASSUME NEW r \in Requests, Handler(r) \/ ApiAnswers(r) \/ DbFails(r)
      PROVE  IInv'
  <2>1. RequestOK(r) /\ req[r] \in Request /\ calls[r] \in Nat
    BY DEF IInv, RequestOK, TypeOK
  <2>2. req[r].step \in Steps => row[req[r].step] \in Row
    BY DEF TypeOK
  <2> USE DEF CreateStages, RejectStages, RunStages, OwingStages, Ended
  <2>3. CASE SelectMax(r)
    <3>1. /\ OthersAlone(r) /\ req' = req /\ row' = row /\ calls' = calls
          /\ announced' = announced /\ pc[r] = "select_max" /\ pc'[r] = "insert"
          /\ IsNextIndex(req[r].run, nextIndex'[r])
      BY <2>3 DEF SelectMax, Goto, OthersAlone, TypeOK
    <3>2. IndexOK(r)'
      BY <3>1 DEF IndexOK, IsNextIndex, StepsOf, Exists
    <3>3. StageOK(r)' /\ CallOK(r)'
      BY <2>1, <3>1 DEF RequestOK, StageOK, CallOK
    <3>4. QED BY <2>1, <3>1, <3>2, <3>3, QuietStep DEF RequestOK, Owes
  <2>4. ASSUME NEW s \in Steps, Insert(r, s)
        PROVE  IInv'
    BY <2>4, InsertStep
  <2>5. CASE InsertConflict(r) \/ DbFails(r) \/ RunToolRefused(r)
    <3>1. /\ OthersAlone(r) /\ req' = req /\ row' = row /\ calls' = calls
          /\ announced' = announced /\ pc'[r] \in Ended
          /\ pc[r] \notin {"call_api", "publish_success"}
          /\ Owes(r) => Owes(r)'
      BY <2>5 DEF InsertConflict, DbFails, CreateStatements, DecideStatements, RunStatements,
                  RunToolRefused, Goto, OthersAlone, TypeOK, Owes
    <3>2. RequestOK(r)'
      BY <2>1, <3>1 DEF RequestOK, StageOK, CallOK, IndexOK, Loaded, Exists, Asks, Confirmed
    <3>3. QED BY <2>1, <3>1, <3>2, QuietStep
  <2>6. CASE LoadStep(r)
    <3>1. /\ OthersAlone(r) /\ req' = req /\ row' = row /\ calls' = calls
          /\ announced' = announced /\ pc[r] = "load" /\ ~ Owes(r)
          /\ \/ pc'[r] = "failed"
             \/ /\ Exists(req[r].step)
                /\ \/ /\ pc'[r] = "mark_executing" /\ req[r].op = "execute"
                      /\ row[req[r].step].tool # Unusable
                   \/ pc'[r] = "set_confirmed" /\ req[r].op # "execute" /\ req[r].approved
                   \/ pc'[r] = "skip" /\ req[r].op # "execute" /\ ~ req[r].approved
      BY <2>6 DEF LoadStep, ExecuteLoaded, ConfirmLoaded, Goto, OthersAlone, TypeOK, Owes
    <3>2. /\ req[r].op \in {"execute", "confirm"} /\ req[r].step \in Steps /\ calls[r] = 0
      BY <2>1, <3>1 DEF RequestOK, StageOK, CallOK
    <3>3. RequestOK(r)'
      BY <3>1, <3>2 DEF RequestOK, StageOK, CallOK, IndexOK, Loaded, Exists, Asks
    <3>4. QED BY <2>1, <3>1, <3>3, QuietStep
  <2>7. CASE RunToolFails(r) \/ ApiTimesOut(r) \/ ApiAnswers(r)
    <3>1. /\ OthersAlone(r) /\ req' = req /\ row' = row /\ calls' = calls
          /\ announced' = announced /\ Owes(r)'
          /\ \/ pc[r] \in {"run_tool", "call_api"} /\ pc'[r] = "persist_error"
             \/ pc[r] = "call_api" /\ pc'[r] = "persist_success"
      BY <2>7 DEF RunToolFails, ApiTimesOut, ApiAnswers, Goto, OthersAlone, TypeOK, Owes
    <3>2. RequestOK(r)'
      BY <2>1, <3>1 DEF RequestOK, StageOK, CallOK, IndexOK, Loaded, Exists, Asks, Confirmed
    <3>3. QED BY <2>1, <3>1, <3>2, QuietStep
  <2>8. CASE CallApi(r)
    <3>1. /\ OthersAlone(r) /\ req' = req /\ row' = row /\ calls'[r] = calls[r] + 1
          /\ announced' = announced /\ Owes(r)'
          /\ pc[r] = "run_tool" /\ pc'[r] = "call_api" /\ ~ GateRefuses(r)
      BY <2>8 DEF CallApi, Goto, OthersAlone, TypeOK, Owes
    <3>2. calls[r] = 0 /\ Asks(r) /\ Loaded(r)
      BY <2>1, <3>1 DEF RequestOK, StageOK, CallOK
    <3>3. RequestOK(r)'
      BY <2>1, <3>1, <3>2 DEF RequestOK, StageOK, CallOK, IndexOK, Loaded, Exists, Asks,
                              Confirmed, GateRefuses
    <3>4. QED BY <2>1, <3>1, <3>3, QuietStep
  <2>9. CASE PublishCreated(r) \/ PublishSkipped(r) \/ PublishExecuting(r)
             \/ PublishSuccess(r) \/ PublishError(r)
    <3>1. PICK status \in StepStatus, next \in {"replied", "run_tool"} :
              /\ PublishStatus(r, status, next)
              /\ pc[r] \in {"publish_created", "publish_skipped", "publish_executing",
                            "publish_success", "publish_error"}
              /\ next = "run_tool" <=> pc[r] = "publish_executing"
              /\ status = "success" => pc[r] = "publish_success"
              /\ status = "skipped" => pc[r] = "publish_skipped"
      BY <2>9 DEF PublishCreated, PublishSkipped, PublishExecuting, PublishSuccess,
                  PublishError, InitialStatus, StepStatus
    <3>2. /\ req' = req /\ row' = row /\ calls' = calls /\ pc'[r] = next
          /\ Owes(r) => Owes(r)'
      BY <3>1 DEF PublishStatus, Goto, TypeOK, Owes
    <3>3. Loaded(r) /\ (status \in {"success", "skipped"} => Backs(r, req[r].step, status))
      BY <2>1, <3>1 DEF RequestOK, StageOK, CallOK, Backs
    <3>4. RequestOK(r)'
      BY <2>1, <3>1, <3>2 DEF RequestOK, StageOK, CallOK, IndexOK, Loaded, Exists, Asks, Confirmed
    <3>5. QED BY <1>0, <3>1, <3>2, <3>3, <3>4, PublishStep
  <2>10. CASE SkipStep(r)
    <3>1. /\ req' = req /\ calls' = calls /\ pc[r] = "skip"
          /\ pc'[r] \in {"publish_skipped", "failed"}
      BY <2>10 DEF SkipStep, Update, Goto, TypeOK
    <3>2. Loaded(r) /\ req[r].op = "confirm" /\ ~ req[r].approved /\ calls[r] = 0
      BY <2>1, <3>1 DEF RequestOK, StageOK, CallOK
    <3>3. row'[req[r].step].status = "skipped"
      BY <2>2, <2>10, <3>2 DEF SkipStep, Update, TypeOK, Loaded, Row
    <3>4. RequestOK(r)'
      BY <3>1, <3>2, <3>3 DEF RequestOK, StageOK, CallOK, IndexOK, Loaded, Exists
    <3>5. Backs(r, req[r].step, "skipped")
      BY <3>2 DEF Backs
    <3> DEFINE newRow == [row[req[r].step] EXCEPT !.status = "skipped", !.confirmed = FALSE]
    <3>6. /\ newRow.run = row[req[r].step].run /\ newRow.index = row[req[r].step].index
          /\ newRow.tool = row[req[r].step].tool /\ newRow.status = "skipped"
      BY <2>2, <3>2 DEF Row, Loaded
    <3>7. Update(r, newRow, "publish_skipped", "failed")
      BY <2>10 DEF SkipStep
    <3> HIDE DEF newRow
    <3>8. QED BY <1>0, <3>2, <3>4, <3>5, <3>6, <3>7, UpdateStep
  <2>11. CASE SetConfirmed(r)
    <3>1. /\ req' = req /\ calls' = calls /\ pc[r] = "set_confirmed" /\ ~ Owes(r)
          /\ \/ pc'[r] = "failed"
             \/ pc'[r] = "mark_executing" /\ row[req[r].step].tool # Unusable
      BY <2>11 DEF SetConfirmed, Update, Goto, TypeOK, Owes
    <3>2. Loaded(r) /\ req[r].op = "confirm" /\ Asks(r) /\ calls[r] = 0
      BY <2>1, <3>1 DEF RequestOK, StageOK, CallOK
    <3>3. /\ row'[req[r].step].status = row[req[r].step].status
          /\ row'[req[r].step].tool = row[req[r].step].tool
      BY <2>2, <2>11, <3>2 DEF SetConfirmed, Update, TypeOK, Loaded, Row
    <3>4. RequestOK(r)'
      BY <3>1, <3>2, <3>3 DEF RequestOK, StageOK, CallOK, IndexOK, Loaded, Exists, Asks
    <3>5. row[req[r].step].status # "absent"
      BY <3>2 DEF Loaded, Exists
    <3>6. QED BY <1>0, <2>2, <2>11, <3>1, <3>2, <3>4, <3>5, UpdateStep DEF SetConfirmed, Row,
                 Loaded
  <2>12. CASE MarkExecuting(r)
    <3>1. /\ req' = req /\ calls' = calls /\ pc[r] = "mark_executing" /\ Owes(r)'
          /\ pc'[r] \in {"publish_executing", "orphaned"}
      BY <2>12 DEF MarkExecuting, Update, Goto, TypeOK, Owes
    <3>2. Loaded(r) /\ Asks(r) /\ calls[r] = 0 /\ row[req[r].step].tool # Unusable
      BY <2>1, <3>1 DEF RequestOK, StageOK, CallOK
    <3>3. /\ row'[req[r].step].status = "executing"
          /\ row'[req[r].step].tool = row[req[r].step].tool
      BY <2>2, <2>12, <3>2 DEF MarkExecuting, Update, TypeOK, Loaded, Row
    <3>4. RequestOK(r)'
      BY <3>1, <3>2, <3>3 DEF RequestOK, StageOK, CallOK, IndexOK, Loaded, Exists, Asks
    <3>5. req[r].op \in {"execute", "confirm"}
      BY <3>2 DEF Asks
    <3>6. QED BY <1>0, <2>2, <2>12, <3>1, <3>2, <3>4, <3>5, UpdateStep
              DEF MarkExecuting, Row, Loaded
  <2>13. CASE PersistSuccess(r) \/ PersistError(r)
    <3>1. PICK status \in {"success", "error"}, next \in {"publish_success", "publish_error"} :
              /\ Update(r, [row[req[r].step] EXCEPT !.status = status], next, "failed")
              /\ pc[r] \in {"persist_success", "persist_error"}
              /\ status = "success" <=> pc[r] = "persist_success"
              /\ next = "publish_success" <=> pc[r] = "persist_success"
      BY <2>13 DEF PersistSuccess, PersistError
    <3>2. req' = req /\ calls' = calls /\ pc'[r] \in {next, "failed"}
      BY <3>1 DEF Update, Goto, TypeOK
    <3>3. /\ Loaded(r) /\ Asks(r) /\ row[req[r].step].tool # Unusable
          /\ pc[r] = "persist_success" => calls[r] = 1
      BY <2>1, <3>1 DEF RequestOK, StageOK, CallOK
    <3>4. /\ row'[req[r].step].status = status
          /\ row'[req[r].step].tool = row[req[r].step].tool
      BY <2>2, <3>1, <3>3 DEF Update, TypeOK, Loaded, Row
    <3>5. RequestOK(r)'
      BY <2>1, <3>1, <3>2, <3>3, <3>4
         DEF RequestOK, StageOK, CallOK, IndexOK, Loaded, Exists, Asks, Confirmed
    <3>6. status = "success" => Backs(r, req[r].step, status)
      BY <3>1, <3>3 DEF Backs
    <3>7. QED BY <1>0, <2>2, <3>1, <3>3, <3>5, <3>6, UpdateStep DEF Row, Loaded
  <2>14. QED
    BY <1>4, <2>3, <2>4, <2>5, <2>6, <2>7, <2>8, <2>9, <2>10, <2>11, <2>12, <2>13 DEF Handler
<1>5. QED BY <1>1, <1>2, <1>3, <1>4 DEF Next

LEMMA InitInvariant == Init => IInv
BY DEF Init, IInv, RowsOK, StageOK, CallOK, IndexOK, IndexesDense, ExecutingAccountable,
       OutcomeBacked, Exists, StepsOf, AbsentRow, CreateStages, RejectStages, RunStages,
       OwingStages

\* The inductive invariant holds throughout.
THEOREM Invariance == Spec => []IInv
BY InitInvariant, InvariantStep, TypeCorrect, PTL DEF Spec

------------------------------------------------------------------------------
(* The safety properties *)

\* Consent: no destructive call without an approving ConfirmStep request.
THEOREM Consent == Spec => []ConsentBeforeEffect
<1>1. TypeOK /\ IInv => ConsentBeforeEffect
  <2> SUFFICES ASSUME TypeOK, IInv, NEW r \in Requests, calls[r] > 0,
                      row[req[r].step].tool \in Destructive
               PROVE  req[r].op = "confirm" /\ req[r].approved
    BY DEF ConsentBeforeEffect
  <2>1. CallOK(r) /\ calls[r] = 1
    BY DEF IInv, CallOK, TypeOK
  <2>2. QED BY <2>1 DEF CallOK, Confirmed, Asks
<1>2. QED BY <1>1, TypeCorrect, Invariance, PTL

\* The steps of every run are numbered without gap or repetition.
THEOREM DenseNumbering == Spec => []IndexesDense
<1>1. IInv => IndexesDense
  BY DEF IInv
<1>2. QED BY <1>1, Invariance, PTL

\* Every step that is 'executing' has a request to account for it.
THEOREM Accountability == Spec => []ExecutingAccountable
<1>1. IInv => ExecutingAccountable
  BY DEF IInv
<1>2. QED BY <1>1, Invariance, PTL

\* Every outcome stored or published is backed by what happened.
THEOREM Truthfulness == Spec => []OutcomeBacked
<1>1. IInv => OutcomeBacked
  BY DEF IInv
<1>2. QED BY <1>1, Invariance, PTL

------------------------------------------------------------------------------
(* Refinement *)

\* A step that changes no tool, asks for nothing and calls nothing is a
\* stuttering step of the gate.
LEMMA GateStutter ==
    ASSUME TypeOK, req' = req, calls' = calls,
           \A s \in Steps : row'[s].tool = row[s].tool
    PROVE  UNCHANGED Gate!gateVars
BY DEF Gate!gateVars, Asks

\* An UPDATE changes no tool.
LEMMA UpdateStutters ==
    ASSUME TypeOK, NEW r \in Requests, NEW newRow, NEW next, NEW ending,
           Update(r, newRow, next, ending),
           req[r].step \in Steps => newRow.tool = row[req[r].step].tool
    PROVE  UNCHANGED Gate!gateVars
<1>1. req' = req /\ calls' = calls
  BY DEF Update
<1>2. \A s \in Steps : row'[s].tool = row[s].tool
  BY DEF Update, TypeOK
<1>3. QED BY <1>1, <1>2, GateStutter

\* Inserting a row proposes its step, or is invisible if the row is unusable.
LEMMA InsertProposes ==
    ASSUME TypeOK, IInv, NEW r \in Requests, NEW s \in Steps, Insert(r, s)
    PROVE  [Gate!GateNext]_(Gate!gateVars)
<1>1. /\ row[s] = AbsentRow /\ calls' = calls
      /\ row' = [row EXCEPT ![s] = row'[s]] /\ row'[s].tool = req[r].tool
      /\ req' = [req EXCEPT ![r].step = s]
  BY DEF Insert, IInv, RowsOK, TypeOK
<1>2. row[s].tool = Unusable /\ req[r].tool \in Tools \cup {Unusable}
  BY <1>1 DEF AbsentRow, TypeOK, Request
<1>3. StageOK(r) /\ pc[r] = "insert" /\ req[r] \in Request
  BY DEF IInv, Insert, TypeOK
<1>4. req[r].op = "create"
  BY <1>3 DEF StageOK, CreateStages
<1>5. \A q \in Requests :
          /\ req'[q].op = req[q].op /\ req'[q].approved = req[q].approved
          /\ Asks(q) => req'[q].step = req[q].step
          /\ Asks(q)' = Asks(q)
  BY <1>1, <1>3, <1>4 DEF TypeOK, Asks, Request
<1>6. /\ [q \in Requests |-> IF Asks(q)' THEN req'[q].step ELSE NoStep]
             = [q \in Requests |-> IF Asks(q) THEN req[q].step ELSE NoStep]
      /\ {q \in Requests : req'[q].op = "confirm" /\ req'[q].approved}
             = {q \in Requests : req[q].op = "confirm" /\ req[q].approved}
  BY <1>5
<1>7. [t \in Steps |-> row'[t].tool] = [[t \in Steps |-> row[t].tool] EXCEPT ![s] = req[r].tool]
  BY <1>1 DEF TypeOK
<1>8. ASSUME NEW tool \in Tools, tool = req[r].tool
      PROVE  Gate!GateNext
  <2>1. Gate!Propose(s, tool)
    BY <1>1, <1>2, <1>6, <1>7, <1>8 DEF Gate!Propose
  <2>2. QED BY <2>1 DEF Gate!GateNext
<1>9. CASE req[r].tool = Unusable
  <2>1. [t \in Steps |-> row'[t].tool] = [t \in Steps |-> row[t].tool]
    BY <1>2, <1>7, <1>9
  <2>2. QED BY <1>1, <1>6, <2>1 DEF Gate!gateVars
<1>10. QED BY <1>2, <1>8, <1>9

\* Sending a request to execute or to approve a step asks for that step.
LEMMA SendAsks ==
    ASSUME TypeOK, IInv, NEW r \in Requests, NEW request \in Request, NEW stage,
           Send(r, request, stage),
           request.op = "create" \/ (request.op \in {"execute", "confirm"} /\ request.step \in Steps)
    PROVE  [Gate!GateNext]_(Gate!gateVars)
<1> DEFINE asks == request.op = "execute" \/ (request.op = "confirm" /\ request.approved)
           approves == request.op = "confirm" /\ request.approved
<1>1. /\ row' = row /\ calls' = calls /\ req' = [req EXCEPT ![r] = request]
      /\ req[r] = NoRequest
  BY DEF Send, IInv, StageOK
<1>2. ~ Asks(r) /\ req[r].op = "none"
  BY <1>1 DEF Asks, NoRequest
<1>3. /\ req'[r] = request
      /\ \A q \in Requests \ {r} : req'[q] = req[q]
  BY <1>1 DEF TypeOK
<1>4. Asks(r)' = asks
  BY <1>3 DEF Asks
<1>5. CASE asks
  <2>1. [q \in Requests |-> IF Asks(q)' THEN req'[q].step ELSE NoStep]
           = [[q \in Requests |-> IF Asks(q) THEN req[q].step ELSE NoStep]
                EXCEPT ![r] = request.step]
    BY <1>2, <1>3, <1>4, <1>5 DEF Asks
  <2>2. {q \in Requests : req'[q].op = "confirm" /\ req'[q].approved}
           = IF approves
             THEN {q \in Requests : req[q].op = "confirm" /\ req[q].approved} \cup {r}
             ELSE {q \in Requests : req[q].op = "confirm" /\ req[q].approved}
    BY <1>2, <1>3
  <2>3. Gate!Ask(r, request.step, approves)
    BY <1>1, <1>2, <2>1, <2>2 DEF Gate!Ask
  <2>4. request.step \in Steps /\ approves \in BOOLEAN
    BY <1>5
  <2>5. QED BY <2>3, <2>4 DEF Gate!GateNext
<1>6. CASE ~ asks
  <2>1. [q \in Requests |-> IF Asks(q)' THEN req'[q].step ELSE NoStep]
           = [q \in Requests |-> IF Asks(q) THEN req[q].step ELSE NoStep]
    BY <1>2, <1>3, <1>4, <1>6 DEF Asks
  <2>2. {q \in Requests : req'[q].op = "confirm" /\ req'[q].approved}
           = {q \in Requests : req[q].op = "confirm" /\ req[q].approved}
    BY <1>2, <1>3, <1>6
  <2>3. QED BY <1>1, <2>1, <2>2 DEF Gate!gateVars
<1>7. QED BY <1>5, <1>6

\* The call of a handler is the call of the gate.
LEMMA CallCalls ==
    ASSUME TypeOK, IInv, NEW r \in Requests, CallApi(r)
    PROVE  Gate!GateNext
<1>1. /\ row' = row /\ req' = req /\ calls' = [calls EXCEPT ![r] = calls[r] + 1]
      /\ ~ GateRefuses(r) /\ pc[r] = "run_tool"
  BY DEF CallApi
<1>2. calls[r] = 0 /\ Asks(r) /\ Loaded(r) /\ row[req[r].step].tool # Unusable
  BY <1>1 DEF IInv, StageOK, CallOK, RunStages, OwingStages, Ended
<1>3. row[req[r].step].tool \in Tools
  BY <1>2 DEF TypeOK, Row, Loaded
<1>4. row[req[r].step].tool \in Destructive => req[r].op = "confirm" /\ req[r].approved
  BY <1>1, <1>2 DEF GateRefuses, Confirmed, Asks
<1>5. Gate!Call(r)
  BY <1>1, <1>2, <1>3, <1>4 DEF Gate!Call, Loaded, Asks
<1>6. QED BY <1>5 DEF Gate!GateNext

\* Every step of the handlers is a step of the gate or is invisible to it.
LEMMA GateStep == TypeOK /\ IInv /\ [Next]_vars => [Gate!GateNext]_(Gate!gateVars)
<1> SUFFICES ASSUME TypeOK, IInv, [Next]_vars PROVE [Gate!GateNext]_(Gate!gateVars)
  OBVIOUS
<1>1. CASE UNCHANGED vars
  BY <1>1, GateStutter DEF vars
<1>2. CASE Crash
  BY <1>2, GateStutter DEF Crash
<1>3. ASSUME NEW r \in Requests, Client(r)
      PROVE  [Gate!GateNext]_(Gate!gateVars)
  <2>1. CASE \E run \in Runs, tool \in Tools \cup {Unusable}, requires \in BOOLEAN :
                SendCreate(r, run, tool, requires)
    BY <2>1, SendAsks DEF SendCreate, NoRequest, Request
  <2>2. CASE \E run \in Runs, s \in Steps : SendExecute(r, run, s)
    BY <2>2, SendAsks DEF SendExecute, NoRequest, Request
  <2>3. CASE \E run \in Runs, s \in Steps, approved \in BOOLEAN :
                SendConfirm(r, run, s, approved)
    BY <2>3, SendAsks DEF SendConfirm, NoRequest, Request
  <2>4. QED BY <1>3, <2>1, <2>2, <2>3 DEF Client
<1>4. ASSUME NEW r \in Requests, Handler(r) \/ ApiAnswers(r) \/ DbFails(r)
      PROVE  [Gate!GateNext]_(Gate!gateVars)
  <2>1. CASE \E s \in Steps : Insert(r, s)
    BY <2>1, InsertProposes
  <2>2. CASE CallApi(r)
    BY <2>2, CallCalls
  <2>3. CASE SelectMax(r) \/ InsertConflict(r) \/ LoadStep(r) \/ RunToolRefused(r)
             \/ RunToolFails(r) \/ ApiTimesOut(r) \/ ApiAnswers(r) \/ DbFails(r)
    <3>1. row' = row /\ req' = req /\ calls' = calls
      BY <2>3 DEF SelectMax, InsertConflict, LoadStep, ExecuteLoaded, ConfirmLoaded,
                  RunToolRefused, RunToolFails,
                  ApiTimesOut, ApiAnswers, DbFails
    <3>2. QED BY <3>1, GateStutter
  <2>4. CASE PublishCreated(r) \/ PublishSkipped(r) \/ PublishExecuting(r)
             \/ PublishSuccess(r) \/ PublishError(r)
    <3>1. row' = row /\ req' = req /\ calls' = calls
      BY <2>4 DEF PublishCreated, PublishSkipped, PublishExecuting, PublishSuccess,
                  PublishError, PublishStatus
    <3>2. QED BY <3>1, GateStutter
  <2>5. CASE SkipStep(r) \/ SetConfirmed(r) \/ MarkExecuting(r) \/ PersistSuccess(r)
             \/ PersistError(r)
    <3>1. req[r].step \in Steps => row[req[r].step] \in Row
      BY DEF TypeOK
    <3>2. PICK newRow, next, ending :
              /\ Update(r, newRow, next, ending)
              /\ req[r].step \in Steps => newRow.tool = row[req[r].step].tool
      <4>1. CASE SkipStep(r)
        <5> DEFINE skipped == [row[req[r].step] EXCEPT !.status = "skipped", !.confirmed = FALSE]
        <5>1. req[r].step \in Steps => skipped.tool = row[req[r].step].tool
          BY <3>1 DEF Row
        <5>2. Update(r, skipped, "publish_skipped", "failed")
          BY <4>1 DEF SkipStep
        <5> HIDE DEF skipped
        <5>3. QED BY <5>1, <5>2
      <4>2. CASE SetConfirmed(r)
        BY <3>1, <4>2 DEF SetConfirmed, Row
      <4>3. CASE MarkExecuting(r)
        BY <3>1, <4>3 DEF MarkExecuting, Row
      <4>4. CASE PersistSuccess(r)
        BY <3>1, <4>4 DEF PersistSuccess, Row
      <4>5. CASE PersistError(r)
        BY <3>1, <4>5 DEF PersistError, Row
      <4>6. QED BY <2>5, <4>1, <4>2, <4>3, <4>4, <4>5
    <3>3. QED BY <3>2, UpdateStutters
  <2>6. QED BY <1>4, <2>1, <2>2, <2>3, <2>4, <2>5 DEF Handler
<1>5. QED BY <1>1, <1>2, <1>3, <1>4 DEF Next

\* The step handlers implement the confirmation gate.
THEOREM GateRefinement == Spec => ImplementsGate
<1>1. Init => Gate!GateInit
  BY DEF Init, Gate!GateInit, AbsentRow, NoRequest, Asks
<1>2. QED BY <1>1, GateStep, TypeCorrect, Invariance, PTL DEF Spec, ImplementsGate, Gate!GateSpec

=============================================================================
