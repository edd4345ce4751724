-------------------------- MODULE AgentOrderProofs --------------------------
(***************************************************************************)
(* Theorems about the order in which the agent does things, for every set  *)
(* of sessions, requests, steps and tools and every bound: one actor at a  *)
(* time goes on with a run, whatever dies or is answered late, and each    *)
(* step is created, asked about, decided and carried out once.             *)
(***************************************************************************)
EXTENDS AgentLoopProofs

------------------------------------------------------------------------------
(* The invariant *)

Awaiting == {"creating", "executing", "confirming"}
Driving == Live \ {"send_patch", "patching"}
Verdicts == {"completed", "failed"}

\* The right to go on with the run: a session that drives it has it, hands it to
\* the user with the step he is asked about and gets it back with his answer, or
\* spends it on the verdict.
Batons ==
    {<<"drives", p>> : p \in {q \in Sessions : sess[q].stage \in Driving}}
    \cup {<<"frame", p>> : p \in {q \in Sessions : frame[q] # NoStep}}
    \cup {<<"shown", s>> : s \in {t \in Steps : ui.pending = t /\ decided[t] = {}}}
    \cup {<<"decides", p>> :
             p \in {q \in Sessions : At(q, "send_patch") /\ sess[q].status \in Verdicts}}
    \cup {<<"patch", m>> : m \in {n \in patches : n.status \in Verdicts}}
    \cup {<<"verdict", v>> : v \in {runStatus} \cap Verdicts}

\* Nobody has a second one.
OneBaton == \A x, y \in Batons : x = y

\* Nothing has happened before the user sends his prompt.
Opening ==
    (\A p \in Sessions : At(p, "idle")) =>
        /\ \A p \in Sessions : frame[p] = NoStep
        /\ ui.pending = NoStep
        /\ patches = {}
        /\ \A r \in Requests : pc[r] = "unsent"

PatchesOK == \A m \in patches : m.status \in {"awaiting_confirmation"} \cup Verdicts

SessionOrder(p) ==
    /\ sess[p].stage \in Awaiting => \E r \in Requests : sess[p].req = {r}
    /\ At(p, "send_patch") => sess[p].status \in {"awaiting_confirmation"} \cup Verdicts

\* A handler is at work only for the session that drives the run, unless nobody
\* goes on with it any more.
AwaitedBy(r, p) == sess[p].stage \in Awaiting /\ r \in sess[p].req

Flight(r) ==
    pc[r] \in InFlight =>
        \A x \in Batons : \E p \in Sessions : x = <<"drives", p>> /\ AwaitedBy(r, p)

\* The index read for a new step is above those of all steps of the run.
NextLeads(r) ==
    (pc[r] = "insert" /\ Batons # {}) =>
        \A t \in StepsOf(req[r].run) : row[t].index < nextIndex[r]

\* Steps are created once, then addressed once, if at all, as the user decided.
Addresses(r, s) == req[r].op \in {"execute", "confirm"} /\ req[r].step = s
Creates(r, s) == req[r].op = "create" /\ req[r].step = s
Choice(approved) == {IF approved THEN "approve" ELSE "reject"}

AddressedOnce ==
    \A q, r \in Requests, s \in Steps : Addresses(q, s) /\ Addresses(r, s) => q = r

CreatedOnce ==
    \A q, r \in Requests, s \in Steps : Creates(q, s) /\ Creates(r, s) => q = r

NamedExists ==
    \A r \in Requests, s \in Steps : Addresses(r, s) \/ Creates(r, s) => Exists(s)

AddressedReported ==
    \A q, r \in Requests, s \in Steps : Creates(q, s) /\ Addresses(r, s) => pc[q] = "replied"

AddressedAsDecided ==
    \A r \in Requests, s \in Steps : Addresses(r, s) =>
        decided[s] = IF req[r].op = "confirm" THEN Choice(req[r].approved) ELSE {}

DecidedExists == \A s \in Steps : decided[s] # {} => Exists(s)

StepsInOrder ==
    /\ AddressedOnce /\ CreatedOnce /\ NamedExists /\ AddressedReported
    /\ AddressedAsDecided /\ DecidedExists

\* The step that goes with the baton has not been addressed before.
Coming(s) ==
    \E p \in Sessions, r \in Requests :
        /\ At(p, "creating") /\ r \in sess[p].req
        /\ Creates(r, s) /\ pc[r] \in {"publish_created", "replied"}

ToExecute(s) == \E p \in Sessions : At(p, "send_execute") /\ sess[p].step = s
ToConfirm(s) == \E p \in Sessions : At(p, "confirm") /\ sess[p].step = s
Posed(s) == (\E p \in Sessions : frame[p] = s) \/ (ui.pending = s /\ decided[s] = {})

Leads(s) == \A t \in StepsOf(row[s].run) : row[t].index <= row[s].index

Unaddressed(s) == \A r \in Requests : ~ Addresses(r, s)
Reported(s) == \A q \in Requests : Creates(q, s) => pc[q] = "replied"

HandOK(s) ==
    /\ Coming(s) => Exists(s) /\ Unaddressed(s) /\ decided[s] = {} /\ Leads(s)
    /\ ToExecute(s) => Exists(s) /\ Unaddressed(s) /\ decided[s] = {} /\ Reported(s)
    /\ ToConfirm(s) => Exists(s) /\ Unaddressed(s) /\ Reported(s)
    /\ Posed(s) => Exists(s) /\ Unaddressed(s) /\ decided[s] = {} /\ Reported(s) /\ Leads(s)

ConfirmAsDecided(p) == At(p, "confirm") => decided[sess[p].step] = Choice(sess[p].approved)

\* A step that was decided is shown only while its answer is processed.
Spent == (ui.pending # NoStep /\ decided[ui.pending] # {}) => ui.confirm # NoSession

OrderInv ==
    /\ AgentInv
    /\ OneBaton /\ Opening /\ PatchesOK /\ Spent
    /\ \A p \in Sessions : SessionOrder(p) /\ ConfirmAsDecided(p)
    /\ \A r \in Requests : Flight(r) /\ NextLeads(r)
    /\ StepsInOrder
    /\ \A s \in Steps : HandOK(s)

------------------------------------------------------------------------------
(* The baton *)

\* Who drives the run has the only baton.
Alone(p) ==
    /\ \A q \in Sessions \ {p} : sess[q].stage \notin Driving
    /\ \A q \in Sessions : frame[q] = NoStep
    /\ \A q \in Sessions : ~ (At(q, "send_patch") /\ sess[q].status \in Verdicts)
    /\ \A m \in patches : m.status \notin Verdicts
    /\ \A s \in Steps : ~ (ui.pending = s /\ decided[s] = {})
    /\ runStatus \notin Verdicts

LEMMA DriverAlone ==
    ASSUME OneBaton, NEW p \in Sessions, sess[p].stage \in Driving
    PROVE  Alone(p) /\ Batons = {<<"drives", p>>}
<1>1. <<"drives", p>> \in Batons
  BY DEF Batons
<1>2. \A x \in Batons : x = <<"drives", p>>
  BY <1>1 DEF OneBaton
<1>3. \A q \in Sessions \ {p} : sess[q].stage \notin Driving
  <2> SUFFICES ASSUME NEW q \in Sessions \ {p}, sess[q].stage \in Driving PROVE FALSE
    OBVIOUS
  <2>1. <<"drives", q>> \in Batons
    BY DEF Batons
  <2>2. QED BY <1>2, <2>1
<1>4. \A q \in Sessions : frame[q] = NoStep
  <2> SUFFICES ASSUME NEW q \in Sessions, frame[q] # NoStep PROVE FALSE
    OBVIOUS
  <2>1. <<"frame", q>> \in Batons
    BY DEF Batons
  <2>2. QED BY <1>2, <2>1
<1>5. \A q \in Sessions : ~ (At(q, "send_patch") /\ sess[q].status \in Verdicts)
  <2> SUFFICES ASSUME NEW q \in Sessions, At(q, "send_patch"), sess[q].status \in Verdicts
               PROVE FALSE
    OBVIOUS
  <2>1. <<"decides", q>> \in Batons
    BY DEF Batons
  <2>2. QED BY <1>2, <2>1
<1>6. \A m \in patches : m.status \notin Verdicts
  <2> SUFFICES ASSUME NEW m \in patches, m.status \in Verdicts PROVE FALSE
    OBVIOUS
  <2>1. <<"patch", m>> \in Batons
    BY DEF Batons
  <2>2. QED BY <1>2, <2>1
<1>7. \A s \in Steps : ~ (ui.pending = s /\ decided[s] = {})
  <2> SUFFICES ASSUME NEW s \in Steps, ui.pending = s, decided[s] = {} PROVE FALSE
    OBVIOUS
  <2>1. <<"shown", s>> \in Batons
    BY DEF Batons
  <2>2. QED BY <1>2, <2>1
<1>8. runStatus \notin Verdicts
  <2> SUFFICES ASSUME runStatus \in Verdicts PROVE FALSE
    OBVIOUS
  <2>1. <<"verdict", runStatus>> \in Batons
    BY DEF Batons
  <2>2. QED BY <1>2, <2>1
<1>9. QED BY <1>1, <1>2, <1>3, <1>4, <1>5, <1>6, <1>7, <1>8 DEF Alone

\* A baton that is passed on stays the only one.
LEMMA BatonPasses ==
    ASSUME OneBaton, NEW x \in Batons, NEW y, Batons' \subseteq (Batons \ {x}) \cup {y}
    PROVE  OneBaton'
BY DEF OneBaton

LEMMA BatonsLost ==
    ASSUME OneBaton, Batons' \subseteq Batons
    PROVE  OneBaton'
BY DEF OneBaton

\* The driver has nothing at work for it, unless it awaits an answer.
LEMMA DriverQuiet ==
    ASSUME OrderInv, NEW p \in Sessions, sess[p].stage \in Driving,
           sess[p].stage \notin Awaiting \/ Answered(p)
    PROVE  \A r \in Requests : pc[r] \notin InFlight
<1> SUFFICES ASSUME NEW r \in Requests, pc[r] \in InFlight PROVE FALSE
  OBVIOUS
<1>1. Flight(r) /\ <<"drives", p>> \in Batons
  BY DriverAlone DEF OrderInv
<1>2. AwaitedBy(r, p)
  BY <1>1 DEF Flight
<1>3. pc[r] \in Ended
  BY <1>2 DEF AwaitedBy, Answered
<1>4. QED
  BY <1>3 DEF Ended, InFlight, CreateStages, RejectStages, RunStages, OwingStages

------------------------------------------------------------------------------
(* What survives a step *)

\* No row appears, goes away or changes its run or index.
RowsSame ==
    \A s \in Steps :
        Exists(s)' = Exists(s) /\ row'[s].run = row[s].run /\ row'[s].index = row[s].index

RepliedKept == \A q \in Requests : pc[q] = "replied" => pc'[q] = "replied"

LEMMA LeadsSame ==
    ASSUME RowsSame, NEW s \in Steps, Leads(s)
    PROVE  Leads(s)'
<1> SUFFICES ASSUME NEW t \in StepsOf(row[s].run)' PROVE row'[t].index <= row'[s].index
  BY DEF Leads
<1>1. t \in StepsOf(row[s].run)
  BY DEF StepsOf, RowsSame
<1>2. t \in Steps
  BY <1>1 DEF StepsOf
<1>3. QED BY <1>1, <1>2 DEF Leads, RowsSame

LEMMA StepsKept ==
    ASSUME StepsInOrder, req' = req, decided' = decided, RepliedKept,
           \A s \in Steps : Exists(s) => Exists(s)'
    PROVE  StepsInOrder'
<1>1. \A r \in Requests, s \in Steps : Addresses(r, s)' = Addresses(r, s)
                                       /\ Creates(r, s)' = Creates(r, s)
  BY DEF Addresses, Creates
<1>2. AddressedOnce' /\ CreatedOnce'
  BY <1>1 DEF StepsInOrder, AddressedOnce, CreatedOnce
<1>3. NamedExists' /\ DecidedExists'
  BY <1>1 DEF StepsInOrder, NamedExists, DecidedExists
<1>4. AddressedReported'
  BY <1>1 DEF StepsInOrder, AddressedReported, RepliedKept
<1>5. AddressedAsDecided'
  BY <1>1 DEF StepsInOrder, AddressedAsDecided
<1>6. QED BY <1>2, <1>3, <1>4, <1>5 DEF StepsInOrder

\* A step that is in no more hands than before.
LEMMA HandKept ==
    ASSUME NEW s \in Steps, HandOK(s), req' = req, decided'[s] = decided[s], RepliedKept,
           RowsSame, Coming(s)' => Coming(s), ToExecute(s)' => ToExecute(s),
           ToConfirm(s)' => ToConfirm(s), Posed(s)' => Posed(s)
    PROVE  HandOK(s)'
<1>1. Unaddressed(s) => Unaddressed(s)'
  BY DEF Unaddressed, Addresses
<1>2. Reported(s) => Reported(s)'
  BY DEF Reported, Creates, RepliedKept
<1>3. Leads(s) => Leads(s)'
  BY LeadsSame
<1>4. Exists(s)' = Exists(s)
  BY DEF RowsSame
<1>5. QED BY <1>1, <1>2, <1>3, <1>4 DEF HandOK

\* Nothing is at work, and nothing begins.
LEMMA QuietKept ==
    ASSUME pc' = pc, \A r \in Requests : pc[r] \notin InFlight
    PROVE  \A r \in Requests : Flight(r)' /\ NextLeads(r)'
BY DEF Flight, NextLeads, InFlight, CreateStages

\* Once a session is no longer idle nothing is said of the opening.
LEMMA OpeningOver ==
    ASSUME NEW p \in Sessions, ~ At(p, "idle")'
    PROVE  Opening'
BY DEF Opening

\* A step of the driver that neither sends a request nor takes a step in hand.
LEMMA DriverMoves ==
    ASSUME OrderInv, AgentInv', NEW p \in Sessions, sess[p].stage \in Driving,
           sess[p].stage \notin Awaiting \/ Answered(p),
           NEW session, Becomes(p, session),
           session.stage \in Stage \ (Awaiting \cup {"send_execute", "confirm", "idle"}),
           session.stage = "send_patch" => session.status \in Verdicts,
           UNCHANGED <<vars, patches, ui, frame, decided>>,
           runStatus' = runStatus \/ runStatus' = "pending"
    PROVE  OrderInv'
<1>1. sess'[p] = session /\ \A q \in Sessions \ {p} : sess'[q] = sess[q]
  BY DEF Becomes, OrderInv, AgentInv, AgentTypeOK
<1>2. Alone(p) /\ Batons = {<<"drives", p>>}
  BY DriverAlone DEF OrderInv
<1>3. runStatus' \notin Verdicts
  BY <1>2 DEF Alone, Verdicts
<1>4. OneBaton'
  <2> DEFINE y == IF session.stage \in Driving THEN <<"drives", p>> ELSE <<"decides", p>>
  <2>1. Batons' \subseteq {y}
    <3> SUFFICES ASSUME NEW z \in Batons' PROVE z = y
      OBVIOUS
    <3>1. \/ \E q \in Sessions : z = <<"drives", q>> /\ sess'[q].stage \in Driving
          \/ \E q \in Sessions : z = <<"frame", q>> /\ frame'[q] # NoStep
          \/ \E s \in Steps : ui'.pending = s /\ decided'[s] = {}
          \/ \E q \in Sessions : /\ z = <<"decides", q>>
                                 /\ At(q, "send_patch")' /\ sess'[q].status \in Verdicts
          \/ \E m \in patches' : m.status \in Verdicts
          \/ runStatus' \in Verdicts
      BY DEF Batons
    <3>2. QED BY <3>1, <1>1, <1>2, <1>3 DEF Alone, At, Driving
  <2>2. QED BY <2>1, <1>2 DEF OneBaton
<1>5. Opening'
  BY <1>1, OpeningOver DEF At
<1>6. PatchesOK' /\ Spent'
  BY DEF OrderInv, PatchesOK, Spent
<1>7. \A q \in Sessions : SessionOrder(q)' /\ ConfirmAsDecided(q)'
  <2>1. SessionOrder(p)' /\ ConfirmAsDecided(p)'
    BY <1>1 DEF SessionOrder, ConfirmAsDecided, At
  <2>2. \A q \in Sessions \ {p} : SessionOrder(q)' /\ ConfirmAsDecided(q)'
    BY <1>1 DEF OrderInv, SessionOrder, ConfirmAsDecided, At
  <2>3. QED BY <2>1, <2>2
<1>8. row' = row /\ req' = req /\ pc' = pc /\ nextIndex' = nextIndex
  BY DEF vars
<1>9. \A r \in Requests : Flight(r)' /\ NextLeads(r)'
  BY <1>8, DriverQuiet, QuietKept
<1>10. RowsSame /\ RepliedKept
  BY <1>8 DEF RowsSame, RepliedKept, Exists
<1>11. StepsInOrder'
  BY <1>8, <1>10, StepsKept DEF OrderInv, RowsSame
<1>12. \A s \in Steps : HandOK(s)'
  <2> SUFFICES ASSUME NEW s \in Steps PROVE HandOK(s)'
    OBVIOUS
  <2>1. /\ Coming(s)' => Coming(s)
        /\ ToExecute(s)' => ToExecute(s)
        /\ ToConfirm(s)' => ToConfirm(s)
        /\ Posed(s)' => Posed(s)
    BY <1>1, <1>8 DEF Coming, ToExecute, ToConfirm, Posed, At, Creates, Awaiting
  <2>2. QED BY <2>1, <1>8, <1>10, HandKept DEF OrderInv
<1>13. QED
  BY <1>4, <1>5, <1>6, <1>7, <1>9, <1>11, <1>12 DEF OrderInv

------------------------------------------------------------------------------
(* Steps that take no step in hand *)

\* A baton that no session holds keeps everybody waiting.
LEMMA BatonQuiet ==
    ASSUME OrderInv, NEW kind, NEW i, <<kind, i>> \in Batons, kind # "drives"
    PROVE  \A r \in Requests : pc[r] \notin InFlight
BY DEF OrderInv, Flight

LEMMA DrivesIff ==
    ASSUME NEW p \in Sessions
    PROVE  <<"drives", p>> \in Batons <=> sess[p].stage \in Driving
BY DEF Batons

LEMMA HandsKept ==
    ASSUME OrderInv, AgentInv', OneBaton', Opening', PatchesOK', Spent',
           \/ Batons' \subseteq Batons
           \/ Batons # {} /\ \A r \in Requests : pc[r] \notin InFlight,
           \A q \in Sessions : sess'[q] = sess[q] \/ sess'[q].stage \in {"died", "ended", "patching"},
           UNCHANGED <<row, req, nextIndex, decided>>,
           \A r \in Requests : \/ pc'[r] = pc[r]
                               \/ pc[r] \in InFlight /\ pc'[r] \in {"orphaned", "failed"},
           \A s \in Steps : Posed(s)' => Posed(s)
    PROVE  OrderInv'
<1>1. \A q \in Sessions : SessionOrder(q)' /\ ConfirmAsDecided(q)'
  BY DEF OrderInv, SessionOrder, ConfirmAsDecided, At, Awaiting
<1>2. \A r \in Requests : pc'[r] \in InFlight => pc'[r] = pc[r]
  BY DEF InFlight, CreateStages, RejectStages, RunStages, OwingStages
<1>3. \A r \in Requests : Flight(r)'
  <2> SUFFICES ASSUME NEW r \in Requests, pc'[r] \in InFlight, NEW x \in Batons'
               PROVE  \E p \in Sessions : x = <<"drives", p>> /\ AwaitedBy(r, p)'
    BY DEF Flight
  <2>1. Flight(r) /\ pc[r] \in InFlight /\ x \in Batons
    BY <1>2 DEF OrderInv
  <2>2. PICK p \in Sessions : x = <<"drives", p>> /\ AwaitedBy(r, p)
    BY <2>1 DEF Flight
  <2>3. sess'[p].stage \in Driving
    BY <2>2 DEF Batons
  <2>4. sess'[p] = sess[p]
    BY <2>3 DEF Driving, Live, Waiting
  <2>5. QED BY <2>2, <2>4 DEF AwaitedBy
<1>4. \A r \in Requests : NextLeads(r)'
  <2> SUFFICES ASSUME NEW r \in Requests, pc'[r] = "insert", Batons' # {}
               PROVE  \A t \in StepsOf(req[r].run) : row[t].index < nextIndex[r]
    BY DEF NextLeads, StepsOf, Exists
  <2>1. NextLeads(r) /\ pc[r] = "insert" /\ Batons # {}
    BY <1>2 DEF OrderInv, InFlight, CreateStages
  <2>2. QED BY <2>1 DEF NextLeads
<1>5. RowsSame
  BY DEF RowsSame, Exists
<1>6. RepliedKept
  BY DEF RepliedKept, InFlight, CreateStages, RejectStages, RunStages, OwingStages
<1>7. StepsInOrder'
  BY <1>5, <1>6, StepsKept DEF OrderInv, RowsSame
<1>8. \A s \in Steps : HandOK(s)'
  <2> SUFFICES ASSUME NEW s \in Steps PROVE HandOK(s)'
    OBVIOUS
  <2>1. Coming(s)' => Coming(s)
    BY DEF Coming, At, Creates
  <2>2. ToExecute(s)' => ToExecute(s)
    BY DEF ToExecute, At
  <2>3. ToConfirm(s)' => ToConfirm(s)
    BY DEF ToConfirm, At
  <2>4. QED BY <2>1, <2>2, <2>3, <1>5, <1>6, HandKept DEF OrderInv
<1>9. QED
  BY <1>1, <1>3, <1>4, <1>7, <1>8 DEF OrderInv

\* Sessions end, requests are given up, messages are lost.
LEMMA Losses ==
    ASSUME OrderInv, AgentInv', Spent',
           \A q \in Sessions : \/ sess'[q] = sess[q]
                               \/ ~ At(q, "idle") /\ sess'[q].stage \in {"died", "ended"},
           UNCHANGED <<row, req, nextIndex, decided, runStatus>>,
           \A r \in Requests : \/ pc'[r] = pc[r]
                               \/ pc[r] \in InFlight /\ pc'[r] \in {"orphaned", "failed"},
           patches' \subseteq patches,
           \A q \in Sessions : frame'[q] \in {frame[q], NoStep},
           ui'.pending \in {ui.pending, NoStep}
    PROVE  OrderInv'
<1>1. Batons' \subseteq Batons
  <2> SUFFICES ASSUME NEW z \in Batons' PROVE z \in Batons
    OBVIOUS
  <2>1. ASSUME NEW q \in Sessions, z = <<"drives", q>>, sess'[q].stage \in Driving
        PROVE  z \in Batons
    BY <2>1 DEF Batons, Driving, Live, Waiting
  <2>2. ASSUME NEW q \in Sessions, z = <<"frame", q>>, frame'[q] # NoStep
        PROVE  z \in Batons
    BY <2>2 DEF Batons
  <2>3. ASSUME NEW s \in Steps, z = <<"shown", s>>, ui'.pending = s, decided'[s] = {}
        PROVE  z \in Batons
    BY <2>3, StepAssumption DEF Batons
  <2>4. ASSUME NEW q \in Sessions, z = <<"decides", q>>,
               At(q, "send_patch")', sess'[q].status \in Verdicts
        PROVE  z \in Batons
    BY <2>4 DEF Batons, At
  <2>5. ASSUME NEW m \in patches', z = <<"patch", m>>, m.status \in Verdicts
        PROVE  z \in Batons
    BY <2>5 DEF Batons
  <2>6. ASSUME z = <<"verdict", runStatus'>>, runStatus' \in Verdicts
        PROVE  z \in Batons
    BY <2>6 DEF Batons
  <2>7. QED BY <2>1, <2>2, <2>3, <2>4, <2>5, <2>6 DEF Batons
<1>2. OneBaton'
  BY <1>1, BatonsLost DEF OrderInv
<1>3. Opening'
  <2> SUFFICES ASSUME \A p \in Sessions : At(p, "idle")'
               PROVE  /\ \A p \in Sessions : frame'[p] = NoStep
                      /\ ui'.pending = NoStep
                      /\ patches' = {}
                      /\ \A r \in Requests : pc'[r] = "unsent"
    BY DEF Opening
  <2>1. \A p \in Sessions : At(p, "idle")
    BY DEF At
  <2>2. /\ \A p \in Sessions : frame[p] = NoStep
        /\ ui.pending = NoStep
        /\ patches = {}
        /\ \A r \in Requests : pc[r] = "unsent"
    BY <2>1 DEF OrderInv, Opening
  <2>3. QED BY <2>2 DEF InFlight, CreateStages, RejectStages, RunStages, OwingStages
<1>4. PatchesOK'
  BY DEF OrderInv, PatchesOK
<1>5. \A s \in Steps : Posed(s)' => Posed(s)
  BY StepAssumption DEF Posed
<1>6. QED BY <1>1, <1>2, <1>3, <1>4, <1>5, HandsKept

\* What is lost by failures, crashes and closed streams.
LEMMA LossesStep ==
    ASSUME OrderInv, AgentInv',
           \/ UNCHANGED appVars
           \/ \E p \in Sessions : TransportFails(p) \/ SessionDies(p) \/ StreamEnds(p)
           \/ \E m \in patches : UpdateRunStatusFails(m)
           \/ EngineCrash
    PROVE  OrderInv'
<1>0. Spent /\ AgentTypeOK
  BY DEF OrderInv, AgentInv
<1>1. CASE UNCHANGED appVars
  BY <1>0, <1>1, Losses DEF appVars, vars, agentVars, Spent
<1>2. ASSUME NEW p \in Sessions, TransportFails(p) \/ SessionDies(p)
      PROVE  OrderInv'
  <2>1. /\ sess'[p].stage = "died" /\ \A q \in Sessions \ {p} : sess'[q] = sess[q]
        /\ ~ At(p, "idle")
    BY <1>0, <1>2 DEF TransportFails, SessionDies, Aborted, MovesTo, Becomes, AgentTypeOK,
                      Session, At, Live, Waiting
  <2>2. UNCHANGED <<vars, runStatus, patches, ui, frame, decided>>
    BY <1>2 DEF TransportFails, SessionDies
  <2>3. QED BY <1>0, <2>1, <2>2, Losses DEF vars, Spent
<1>3. ASSUME NEW p \in Sessions, StreamEnds(p)
      PROVE  OrderInv'
  <2>1. UNCHANGED <<vars, sess, runStatus, patches, decided>>
    BY <1>3 DEF StreamEnds
  <2>2. \A q \in Sessions : frame'[q] \in {frame[q], NoStep}
    BY <1>0, <1>3 DEF StreamEnds, AgentTypeOK
  <2>3. \/ ui'.pending = ui.pending /\ ui'.confirm = ui.confirm
        \/ ui'.pending = NoStep
    BY <1>0, <1>3 DEF StreamEnds, AgentTypeOK, PendingAfterConfirm
  <2>4. Spent'
    BY <1>0, <2>1, <2>3 DEF Spent
  <2>5. QED BY <2>1, <2>2, <2>3, <2>4, Losses DEF vars
<1>4. ASSUME NEW m \in patches, UpdateRunStatusFails(m)
      PROVE  OrderInv'
  <2>1. m.by \in Sessions
    BY <1>0 DEF AgentTypeOK
  <2>2. \A q \in Sessions : \/ sess'[q] = sess[q]
                            \/ ~ At(q, "idle") /\ sess'[q].stage \in {"died", "ended"}
    BY <1>0, <1>4, <2>1 DEF UpdateRunStatusFails, AgentTypeOK, Session, At
  <2>3. UNCHANGED <<vars, ui, frame, decided, runStatus>> /\ patches' \subseteq patches
    BY <1>4 DEF UpdateRunStatusFails
  <2>4. QED BY <1>0, <2>2, <2>3, Losses DEF vars, Spent
<1>5. CASE EngineCrash
  <2>1. \A q \in Sessions : \/ sess'[q] = sess[q]
                            \/ ~ At(q, "idle") /\ sess'[q].stage \in {"died", "ended"}
    BY <1>0, <1>5 DEF EngineCrash, AgentTypeOK, Session, At, Waiting
  <2>2. UNCHANGED <<row, req, nextIndex, decided, runStatus, ui, frame>> /\ patches' \subseteq patches
    BY <1>5 DEF EngineCrash, Crash
  <2>3. \A r \in Requests : \/ pc'[r] = pc[r]
                            \/ pc[r] \in InFlight /\ pc'[r] \in {"orphaned", "failed"}
    <3>1. OwingStages \subseteq InFlight
      BY DEF InFlight, RunStages
    <3>2. QED BY <1>5, <3>1 DEF EngineCrash, Crash
  <2>4. QED BY <1>0, <2>1, <2>2, <2>3, Losses DEF Spent
<1>6. QED BY <1>1, <1>2, <1>3, <1>4, <1>5

\* The verdict on its way, and the mark that a run waits.
LEMMA SendPatchStep ==
    ASSUME OrderInv, AgentInv', NEW p \in Sessions, SendPatch(p)
    PROVE  OrderInv'
<1> DEFINE m == [by |-> p, status |-> sess[p].status]
<1>1. /\ sess'[p].stage = "patching" /\ \A q \in Sessions \ {p} : sess'[q] = sess[q]
      /\ At(p, "send_patch") /\ patches' = patches \cup {m}
      /\ UNCHANGED <<row, req, pc, nextIndex, decided, runStatus, ui, frame>>
  BY DEF SendPatch, MovesTo, Becomes, OrderInv, AgentInv, AgentTypeOK, Session, vars
<1>2. m.by = p /\ m.status = sess[p].status
  OBVIOUS
<1> HIDE DEF m
<1>3. m.status \in {"awaiting_confirmation"} \cup Verdicts
  BY <1>1, <1>2 DEF OrderInv, SessionOrder
<1>4. /\ Batons' \subseteq (Batons \ {<<"decides", p>>}) \cup {<<"patch", m>>}
      /\ m.status \notin Verdicts => Batons' \subseteq Batons
  <2> SUFFICES ASSUME NEW z \in Batons'
               PROVE  \/ z \in Batons /\ z # <<"decides", p>>
                      \/ m.status \in Verdicts /\ z = <<"patch", m>>
    OBVIOUS
  <2>1. ASSUME NEW q \in Sessions, z = <<"drives", q>>, sess'[q].stage \in Driving
        PROVE  z \in Batons /\ z # <<"decides", p>>
    <3>1. q # p
      BY <1>1, <2>1 DEF Driving
    <3>2. QED BY <1>1, <2>1, <3>1 DEF Batons
  <2>2. ASSUME NEW q \in Sessions, z = <<"frame", q>>, frame'[q] # NoStep
        PROVE  z \in Batons /\ z # <<"decides", p>>
    BY <1>1, <2>2 DEF Batons
  <2>3. ASSUME NEW s \in Steps, z = <<"shown", s>>, ui'.pending = s, decided'[s] = {}
        PROVE  z \in Batons /\ z # <<"decides", p>>
    BY <1>1, <2>3 DEF Batons
  <2>4. ASSUME NEW q \in Sessions, z = <<"decides", q>>,
               At(q, "send_patch")', sess'[q].status \in Verdicts
        PROVE  z \in Batons /\ z # <<"decides", p>>
    <3>1. q # p
      BY <1>1, <2>4 DEF At
    <3>2. QED BY <1>1, <2>4, <3>1 DEF Batons, At
  <2>5. ASSUME NEW n \in patches', z = <<"patch", n>>, n.status \in Verdicts
        PROVE  \/ z \in Batons /\ z # <<"decides", p>>
               \/ m.status \in Verdicts /\ z = <<"patch", m>>
    BY <1>1, <2>5 DEF Batons
  <2>6. ASSUME z = <<"verdict", runStatus'>>, runStatus' \in Verdicts
        PROVE  z \in Batons /\ z # <<"decides", p>>
    BY <1>1, <2>6 DEF Batons
  <2>7. QED BY <2>1, <2>2, <2>3, <2>4, <2>5, <2>6 DEF Batons
<1>5. m.status \in Verdicts => <<"decides", p>> \in Batons
  BY <1>1, <1>2 DEF Batons
<1>6. OneBaton'
  BY <1>4, <1>5, BatonPasses, BatonsLost DEF OrderInv
<1>7. \/ Batons' \subseteq Batons
      \/ Batons # {} /\ \A r \in Requests : pc[r] \notin InFlight
  BY <1>4, <1>5, BatonQuiet
<1>8. Opening'
  BY <1>1, OpeningOver DEF At
<1>9. PatchesOK' /\ Spent'
  BY <1>1, <1>3 DEF OrderInv, PatchesOK, Spent
<1>10. \A s \in Steps : Posed(s)' => Posed(s)
  BY <1>1 DEF Posed
<1>11. QED BY <1>1, <1>6, <1>7, <1>8, <1>9, <1>10, HandsKept

\* The verdict, or the mark, arrives.
LEMMA UpdateRunStatusStep ==
    ASSUME OrderInv, AgentInv', NEW m \in patches, UpdateRunStatus(m)
    PROVE  OrderInv'
<1>0. m.by \in Sessions /\ m.status \in {"awaiting_confirmation"} \cup Verdicts
  BY DEF OrderInv, AgentInv, AgentTypeOK, PatchesOK
<1>1. /\ \A q \in Sessions : \/ sess'[q] = sess[q]
                             \/ ~ At(q, "idle") /\ sess'[q].stage = "ended"
      /\ patches' = patches \ {m} /\ runStatus' = m.status
      /\ UNCHANGED <<row, req, pc, nextIndex, decided, ui, frame>>
  BY <1>0 DEF UpdateRunStatus, OrderInv, AgentInv, AgentTypeOK, Session, At, vars
<1>2. /\ Batons' \subseteq (Batons \ {<<"patch", m>>}) \cup {<<"verdict", m.status>>}
      /\ m.status \notin Verdicts => Batons' \subseteq Batons
  <2> SUFFICES ASSUME NEW z \in Batons'
               PROVE  \/ z \in Batons /\ z # <<"patch", m>>
                      \/ m.status \in Verdicts /\ z = <<"verdict", m.status>>
    OBVIOUS
  <2>1. ASSUME NEW q \in Sessions, z = <<"drives", q>>, sess'[q].stage \in Driving
        PROVE  z \in Batons /\ z # <<"patch", m>>
    BY <1>1, <2>1 DEF Batons, Driving, Live, Waiting
  <2>2. ASSUME NEW q \in Sessions, z = <<"frame", q>>, frame'[q] # NoStep
        PROVE  z \in Batons /\ z # <<"patch", m>>
    BY <1>1, <2>2 DEF Batons
  <2>3. ASSUME NEW s \in Steps, z = <<"shown", s>>, ui'.pending = s, decided'[s] = {}
        PROVE  z \in Batons /\ z # <<"patch", m>>
    BY <1>1, <2>3 DEF Batons
  <2>4. ASSUME NEW q \in Sessions, z = <<"decides", q>>,
               At(q, "send_patch")', sess'[q].status \in Verdicts
        PROVE  z \in Batons /\ z # <<"patch", m>>
    BY <1>1, <2>4 DEF Batons, At
  <2>5. ASSUME NEW n \in patches', z = <<"patch", n>>, n.status \in Verdicts
        PROVE  z \in Batons /\ z # <<"patch", m>>
    BY <1>1, <2>5 DEF Batons
  <2>6. ASSUME z = <<"verdict", runStatus'>>, runStatus' \in Verdicts
        PROVE  m.status \in Verdicts /\ z = <<"verdict", m.status>>
    BY <1>1, <2>6
  <2>7. QED BY <2>1, <2>2, <2>3, <2>4, <2>5, <2>6 DEF Batons
<1>3. m.status \in Verdicts => <<"patch", m>> \in Batons
  BY DEF Batons
<1>4. OneBaton'
  BY <1>2, <1>3, BatonPasses, BatonsLost DEF OrderInv
<1>5. \/ Batons' \subseteq Batons
      \/ Batons # {} /\ \A r \in Requests : pc[r] \notin InFlight
  BY <1>2, <1>3, BatonQuiet
<1>6. Opening'
  <2>1. ~ \A q \in Sessions : At(q, "idle")
    BY DEF OrderInv, Opening
  <2>2. ~ \A q \in Sessions : At(q, "idle")'
    BY <1>1, <2>1 DEF At
  <2>3. QED BY <2>2 DEF Opening
<1>7. PatchesOK' /\ Spent'
  BY <1>1 DEF OrderInv, PatchesOK, Spent
<1>8. \A s \in Steps : Posed(s)' => Posed(s)
  BY <1>1 DEF Posed
<1>9. QED BY <1>1, <1>4, <1>5, <1>6, <1>7, <1>8, HandsKept

------------------------------------------------------------------------------
(* The baton goes to the user and comes back *)

\* The user sends his prompt.
LEMMA HandleSendStep ==
    ASSUME OrderInv, AgentInv', NEW p \in Sessions, HandleSend(p)
    PROVE  OrderInv'
<1>1. /\ sess'[p].stage = "create_run" /\ \A q \in Sessions \ {p} : sess'[q] = sess[q]
      /\ ui'.pending = ui.pending /\ ui'.confirm = ui.confirm
      /\ UNCHANGED <<row, req, pc, nextIndex, runStatus, patches, frame, decided>>
  BY DEF HandleSend, MovesTo, Becomes, OrderInv, AgentInv, AgentTypeOK, Session, vars
<1>2. /\ \A q \in Sessions : At(q, "idle") /\ frame[q] = NoStep
      /\ ui.pending = NoStep /\ patches = {} /\ runStatus = "none"
      /\ \A r \in Requests : pc[r] = "unsent"
  BY DEF HandleSend, OrderInv, Opening
<1>3. Batons' \subseteq {<<"drives", p>>}
  <2> SUFFICES ASSUME NEW z \in Batons' PROVE z = <<"drives", p>>
    OBVIOUS
  <2>1. \A q \in Sessions \ {p} : sess'[q].stage = "idle"
    BY <1>1, <1>2 DEF At
  <2>2. \A s \in Steps : ui'.pending # s
    BY <1>1, <1>2, StepAssumption
  <2>3. QED BY <1>1, <1>2, <2>1, <2>2 DEF Batons, Driving, Live, Waiting, At, Verdicts
<1>4. OneBaton'
  BY <1>3 DEF OneBaton
<1>5. Opening'
  BY <1>1, OpeningOver DEF At
<1>6. PatchesOK' /\ Spent'
  BY <1>1 DEF OrderInv, PatchesOK, Spent
<1>7. \A q \in Sessions : SessionOrder(q)' /\ ConfirmAsDecided(q)'
  BY <1>1 DEF OrderInv, SessionOrder, ConfirmAsDecided, At, Awaiting
<1>8. \A r \in Requests : Flight(r)' /\ NextLeads(r)'
  BY <1>1, <1>2 DEF Flight, NextLeads, InFlight, CreateStages, RejectStages, RunStages,
                    OwingStages
<1>9. RowsSame /\ RepliedKept
  BY <1>1 DEF RowsSame, RepliedKept, Exists
<1>10. StepsInOrder'
  BY <1>1, <1>9, StepsKept DEF OrderInv, RowsSame
<1>11. \A s \in Steps : HandOK(s)'
  <2> SUFFICES ASSUME NEW s \in Steps PROVE HandOK(s)'
    OBVIOUS
  <2>1. /\ Coming(s)' => Coming(s)
        /\ ToExecute(s)' => ToExecute(s)
        /\ ToConfirm(s)' => ToConfirm(s)
        /\ Posed(s)' => Posed(s)
    BY <1>1 DEF Coming, ToExecute, ToConfirm, Posed, At, Creates
  <2>2. QED BY <2>1, <1>1, <1>9, HandKept DEF OrderInv
<1>12. QED
  BY <1>4, <1>5, <1>6, <1>7, <1>8, <1>10, <1>11 DEF OrderInv

\* The user is shown a step.
LEMMA HandleEventStep ==
    ASSUME OrderInv, AgentInv', NEW p \in Sessions, HandleEvent(p)
    PROVE  OrderInv'
<1> DEFINE s == frame[p]
<1>1. /\ s \in Steps /\ Posed(s) /\ <<"frame", p>> \in Batons
      /\ \A q \in Sessions : frame'[q] = IF q = p THEN NoStep ELSE frame[q]
      /\ ui'.pending = s
      /\ UNCHANGED <<row, req, pc, nextIndex, sess, runStatus, patches, decided>>
  BY DEF HandleEvent, Posed, Batons, OrderInv, AgentInv, AgentTypeOK, vars
<1>2. decided[s] = {}
  BY <1>1 DEF OrderInv, HandOK
<1> HIDE DEF s
<1>3. Batons' \subseteq (Batons \ {<<"frame", p>>}) \cup {<<"shown", s>>}
  <2> SUFFICES ASSUME NEW z \in Batons'
               PROVE  (z \in Batons /\ z # <<"frame", p>>) \/ z = <<"shown", s>>
    OBVIOUS
  <2>1. ASSUME NEW q \in Sessions, z = <<"frame", q>>, frame'[q] # NoStep
        PROVE  z \in Batons /\ z # <<"frame", p>>
    BY <1>1, <2>1 DEF Batons
  <2>2. ASSUME NEW t \in Steps, z = <<"shown", t>>, ui'.pending = t
        PROVE  z = <<"shown", s>>
    BY <1>1, <2>2
  <2>3. ASSUME NEW q \in Sessions, z = <<"drives", q>>, sess'[q].stage \in Driving
        PROVE  z \in Batons /\ z # <<"frame", p>>
    BY <1>1, <2>3 DEF Batons
  <2>4. ASSUME NEW q \in Sessions, z = <<"decides", q>>,
               At(q, "send_patch")', sess'[q].status \in Verdicts
        PROVE  z \in Batons /\ z # <<"frame", p>>
    BY <1>1, <2>4 DEF Batons, At
  <2>5. ASSUME NEW m \in patches', z = <<"patch", m>>, m.status \in Verdicts
        PROVE  z \in Batons /\ z # <<"frame", p>>
    BY <1>1, <2>5 DEF Batons
  <2>6. ASSUME z = <<"verdict", runStatus'>>, runStatus' \in Verdicts
        PROVE  z \in Batons /\ z # <<"frame", p>>
    BY <1>1, <2>6 DEF Batons
  <2>7. QED BY <2>1, <2>2, <2>3, <2>4, <2>5, <2>6 DEF Batons
<1>4. OneBaton'
  BY <1>1, <1>3, BatonPasses DEF OrderInv
<1>5. \A r \in Requests : pc[r] \notin InFlight
  BY <1>1, BatonQuiet
<1>6. Opening'
  <2>1. ~ \A q \in Sessions : At(q, "idle")
    BY DEF HandleEvent, OrderInv, Opening
  <2>2. QED BY <1>1, <2>1 DEF Opening, At
<1>7. PatchesOK' /\ Spent'
  BY <1>1, <1>2 DEF OrderInv, PatchesOK, Spent
<1>8. \A t \in Steps : Posed(t)' => Posed(t)
  BY <1>1, StepAssumption DEF Posed
<1>9. QED BY <1>1, <1>4, <1>5, <1>6, <1>7, <1>8, HandsKept

\* The user answers.
LEMMA HandleConfirmationStep ==
    ASSUME OrderInv, AgentInv', NEW p \in Sessions, NEW approved \in BOOLEAN,
           HandleConfirmation(p, approved)
    PROVE  OrderInv'
<1>0. PICK s \in Steps : s = ui.pending
  BY DEF HandleConfirmation, ModalEnabled, OrderInv, AgentInv, AgentTypeOK
<1>1. /\ decided[s] = {}
      /\ sess'[p].stage = "confirm" /\ sess'[p].step = s /\ sess'[p].approved = approved
      /\ \A q \in Sessions \ {p} : sess'[q] = sess[q]
      /\ ui'.pending = s /\ ui'.confirm = p
      /\ UNCHANGED <<row, req, pc, nextIndex, runStatus, patches, frame>>
  BY <1>0 DEF HandleConfirmation, ModalEnabled, Spent, Becomes, OrderInv, AgentInv, AgentTypeOK,
         Session, vars
<1>2. \A t \in Steps : decided'[t] = IF t = s THEN Choice(approved) ELSE decided[t]
  <2>1. decided \in [Steps -> SUBSET {"approve", "reject"}]
    BY DEF OrderInv, AgentInv, AgentTypeOK
  <2>2. decided' = [decided EXCEPT ![s] = @ \cup Choice(approved)]
    BY <1>0 DEF HandleConfirmation, Choice
  <2>3. QED BY <1>1, <2>1, <2>2
<1>3. <<"shown", s>> \in Batons /\ Posed(s)
  BY <1>0, <1>1 DEF Batons, Posed
<1>4. \A x \in Batons : x = <<"shown", s>>
  BY <1>3 DEF OrderInv, OneBaton
<1>5. /\ \A q \in Sessions : sess[q].stage \notin Driving
      /\ \A q \in Sessions : frame[q] = NoStep
  <2>1. \A q \in Sessions : <<"drives", q>> \notin Batons /\ <<"frame", q>> \notin Batons
    BY <1>4
  <2>2. QED BY <2>1 DEF Batons
<1>6. /\ \A q \in Sessions : ~ (At(q, "send_patch") /\ sess[q].status \in Verdicts)
      /\ \A m \in patches : m.status \notin Verdicts
      /\ runStatus \notin Verdicts
  <2>1. /\ \A q \in Sessions : <<"decides", q>> \notin Batons
        /\ \A m \in patches : <<"patch", m>> \notin Batons
        /\ <<"verdict", runStatus>> \notin Batons
    BY <1>4
  <2>2. QED BY <2>1 DEF Batons
<1>7. Choice(approved) # {}
  BY DEF Choice
<1>8. Batons' \subseteq {<<"drives", p>>}
  <2> SUFFICES ASSUME NEW z \in Batons' PROVE z = <<"drives", p>>
    OBVIOUS
  <2>1. ASSUME NEW q \in Sessions, z = <<"drives", q>>, sess'[q].stage \in Driving
        PROVE  z = <<"drives", p>>
    BY <1>1, <1>5, <2>1
  <2>2. ~ \E q \in Sessions : frame'[q] # NoStep
    BY <1>1, <1>5
  <2>3. ~ \E t \in Steps : ui'.pending = t /\ decided'[t] = {}
    BY <1>1, <1>2, <1>7
  <2>4. ~ \E q \in Sessions : At(q, "send_patch")' /\ sess'[q].status \in Verdicts
    BY <1>1, <1>6 DEF At
  <2>5. (~ \E m \in patches' : m.status \in Verdicts) /\ runStatus' \notin Verdicts
    BY <1>1, <1>6
  <2>6. QED BY <2>1, <2>2, <2>3, <2>4, <2>5 DEF Batons
<1>9. OneBaton'
  BY <1>8 DEF OneBaton
<1>10. Opening'
  BY <1>1, OpeningOver DEF At
<1>11. PatchesOK' /\ Spent'
  BY <1>1, AgentAssumption DEF OrderInv, PatchesOK, Spent
<1>12. \A q \in Sessions : SessionOrder(q)' /\ ConfirmAsDecided(q)'
  <2>1. SessionOrder(p)' /\ ConfirmAsDecided(p)'
    BY <1>1, <1>2 DEF SessionOrder, ConfirmAsDecided, At, Awaiting
  <2>2. ASSUME NEW q \in Sessions \ {p} PROVE SessionOrder(q)' /\ ConfirmAsDecided(q)'
    <3>1. sess'[q] = sess[q] /\ sess[q].stage \notin Driving
      BY <1>1, <1>5
    <3>2. SessionOrder(q)'
      BY <3>1 DEF OrderInv, SessionOrder, At
    <3>3. ConfirmAsDecided(q)'
      BY <3>1 DEF ConfirmAsDecided, At, Driving, Live
    <3>4. QED BY <3>2, <3>3
  <2>3. QED BY <2>1, <2>2
<1>13. \A r \in Requests : Flight(r)' /\ NextLeads(r)'
  BY <1>1, <1>3, BatonQuiet, QuietKept
<1>14. Exists(s) /\ Unaddressed(s) /\ Reported(s)
  BY <1>1, <1>3 DEF OrderInv, HandOK
<1>15. StepsInOrder'
  <2>1. \A r \in Requests, t \in Steps : /\ Addresses(r, t)' = Addresses(r, t)
                                         /\ Creates(r, t)' = Creates(r, t)
                                         /\ Exists(t)' = Exists(t)
    BY <1>1 DEF Addresses, Creates, Exists
  <2>2. AddressedOnce' /\ CreatedOnce' /\ NamedExists' /\ AddressedReported'
    <3>1. AddressedOnce'
      BY <2>1 DEF OrderInv, StepsInOrder, AddressedOnce
    <3>2. CreatedOnce'
      BY <2>1 DEF OrderInv, StepsInOrder, CreatedOnce
    <3>3. NamedExists'
      BY <2>1 DEF OrderInv, StepsInOrder, NamedExists
    <3>4. AddressedReported'
      BY <1>1, <2>1 DEF OrderInv, StepsInOrder, AddressedReported
    <3>5. QED BY <3>1, <3>2, <3>3, <3>4
  <2>3. DecidedExists'
    <3> SUFFICES ASSUME NEW t \in Steps, decided'[t] # {} PROVE Exists(t)
      BY <1>1 DEF DecidedExists, Exists
    <3>1. t # s => decided[t] # {}
      BY <1>2
    <3>2. QED BY <1>14, <3>1 DEF OrderInv, StepsInOrder, DecidedExists
  <2>4. AddressedAsDecided'
    <3>1. \A r \in Requests, t \in Steps : Addresses(r, t) => t # s
      BY <1>14 DEF Unaddressed
    <3>2. QED BY <1>1, <1>2, <2>1, <3>1 DEF OrderInv, StepsInOrder, AddressedAsDecided
  <2>5. QED BY <2>2, <2>3, <2>4 DEF StepsInOrder
<1>16. \A t \in Steps : HandOK(t)'
  <2> SUFFICES ASSUME NEW t \in Steps PROVE HandOK(t)'
    OBVIOUS
  <2>1. ~ Coming(t)' /\ ~ ToExecute(t)'
    BY <1>1, <1>5 DEF Coming, ToExecute, At, Driving, Live, Waiting
  <2>2. ToConfirm(t)' => t = s
    BY <1>1, <1>5 DEF ToConfirm, At, Driving, Live
  <2>3. ~ Posed(t)'
    <3>1. \A q \in Sessions : frame'[q] # t
      BY <1>1, <1>5, StepAssumption
    <3>2. QED BY <1>1, <1>2, <1>7, <3>1 DEF Posed
  <2>4. Exists(s)' /\ Unaddressed(s)' /\ Reported(s)'
    BY <1>1, <1>14 DEF Exists, Unaddressed, Addresses, Reported, Creates
  <2>5. QED BY <2>1, <2>2, <2>3, <2>4 DEF HandOK
<1>17. QED
  BY <1>9, <1>10, <1>11, <1>12, <1>13, <1>15, <1>16 DEF OrderInv

------------------------------------------------------------------------------
(* What the driver does *)

\* The step is recorded: it is carried out next, or the user is asked about it.
LEMMA CreateRepliedStep ==
    ASSUME OrderInv, AgentInv', NEW p \in Sessions, CreateReplied(p)
    PROVE  OrderInv'
<1>1. At(p, "creating") /\ AnsweredWell(p) /\ Answered(p)
  BY DEF CreateReplied
<1>2. PICK r \in Requests : sess[p].req = {r} /\ req[r].op = "create"
  BY <1>1 DEF OrderInv, AgentInv, SessionOK, At
<1>3. pc[r] = "replied"
  BY <1>1, <1>2 DEF AnsweredWell
<1>4. PICK s \in Steps : s = req[r].step
  BY <1>2, <1>3 DEF OrderInv, AgentInv, RequestBacked
<1>5. req[CHOOSE x \in sess[p].req : TRUE].step = s
  BY <1>2, <1>4
<1>6. Exists(s) /\ Unaddressed(s) /\ decided[s] = {} /\ Leads(s)
  BY <1>1, <1>2, <1>3, <1>4 DEF OrderInv, HandOK, Coming, Creates
<1>7. Reported(s)
  BY <1>2, <1>3, <1>4 DEF Reported, OrderInv, StepsInOrder, CreatedOnce, Creates
<1>8. sess[p].stage \in Driving
  BY <1>1 DEF At, Driving, Live, Waiting
<1>9. Alone(p)
  BY <1>8, DriverAlone DEF OrderInv
<1>10. \A q \in Requests : pc[q] \notin InFlight
  BY <1>1, <1>8, DriverQuiet
<1>11. UNCHANGED <<row, req, pc, nextIndex, runStatus, patches, ui, decided>>
  BY DEF CreateReplied, vars
<1>12. /\ \A q \in Sessions \ {p} : sess'[q] = sess[q] /\ frame'[q] = NoStep
       /\ \/ /\ sess'[p].stage = "send_patch" /\ sess'[p].status = "awaiting_confirmation"
             /\ frame'[p] = s
          \/ /\ sess'[p].stage = "send_execute" /\ sess'[p].step = s
             /\ frame'[p] = NoStep
  <2>1. sess \in [Sessions -> Session] /\ frame \in [Sessions -> Steps \cup {NoStep}]
    BY DEF OrderInv, AgentInv, AgentTypeOK
  <2>2. \A q \in Sessions : frame[q] = NoStep
    BY <1>9 DEF Alone
  <2>3. \/ Becomes(p, Pauses(sess[p], s)) /\ frame' = [frame EXCEPT ![p] = s]
        \/ Becomes(p, [sess[p] EXCEPT !.stage = "send_execute", !.step = s])
           /\ frame' = frame
    BY <1>5 DEF CreateReplied
  <2>4. CASE Becomes(p, Pauses(sess[p], s)) /\ frame' = [frame EXCEPT ![p] = s]
    BY <2>1, <2>2, <2>4 DEF Becomes, Pauses, Session
  <2>5. CASE /\ Becomes(p, [sess[p] EXCEPT !.stage = "send_execute", !.step = s])
             /\ frame' = frame
    BY <2>1, <2>2, <2>5 DEF Becomes, Session
  <2>6. QED BY <2>3, <2>4, <2>5
<1>13. \A q \in Sessions \ {p} : sess'[q].stage \notin Driving
  BY <1>9, <1>12 DEF Alone
<1>14. OneBaton'
  <2>1. ~ \E q \in Sessions : At(q, "send_patch")' /\ sess'[q].status \in Verdicts
    BY <1>9, <1>12 DEF Alone, At, Verdicts
  <2>2. ~ \E t \in Steps : ui'.pending = t /\ decided'[t] = {}
    BY <1>9, <1>11 DEF Alone
  <2>3. (~ \E m \in patches' : m.status \in Verdicts) /\ runStatus' \notin Verdicts
    BY <1>9, <1>11 DEF Alone
  <2>4. \A z \in Batons' : \/ z = <<"drives", p>> /\ sess'[p].stage \in Driving
                           \/ z = <<"frame", p>> /\ frame'[p] # NoStep
    BY <1>12, <1>13, <2>1, <2>2, <2>3 DEF Batons
  <2>5. ~ (sess'[p].stage \in Driving /\ frame'[p] # NoStep)
    BY <1>12 DEF Driving
  <2>6. QED BY <2>4, <2>5 DEF OneBaton
<1>15. Opening'
  BY <1>12, OpeningOver DEF At
<1>16. PatchesOK' /\ Spent'
  BY <1>11 DEF OrderInv, PatchesOK, Spent
<1>17. \A q \in Sessions : SessionOrder(q)' /\ ConfirmAsDecided(q)'
  <2>1. SessionOrder(p)' /\ ConfirmAsDecided(p)'
    BY <1>12 DEF SessionOrder, ConfirmAsDecided, At, Awaiting
  <2>2. \A q \in Sessions \ {p} : SessionOrder(q)' /\ ConfirmAsDecided(q)'
    BY <1>11, <1>12 DEF OrderInv, SessionOrder, ConfirmAsDecided, At
  <2>3. QED BY <2>1, <2>2
<1>18. \A q \in Requests : Flight(q)' /\ NextLeads(q)'
  BY <1>10, <1>11, QuietKept
<1>19. RowsSame /\ RepliedKept
  BY <1>11 DEF RowsSame, RepliedKept, Exists
<1>20. StepsInOrder'
  BY <1>11, <1>19, StepsKept DEF OrderInv, RowsSame
<1>21. \A t \in Steps : HandOK(t)'
  <2>1. Exists(s)' /\ Unaddressed(s)' /\ Reported(s)' /\ decided'[s] = {} /\ Leads(s)'
    BY <1>6, <1>7, <1>11, <1>19, LeadsSame
       DEF Exists, Unaddressed, Addresses, Reported, Creates
  <2> SUFFICES ASSUME NEW t \in Steps PROVE HandOK(t)'
    OBVIOUS
  <2>2. ~ Coming(t)' /\ ~ ToConfirm(t)'
    BY <1>12, <1>13 DEF Coming, ToConfirm, At, Driving, Live, Waiting
  <2>3. ToExecute(t)' => t = s
    BY <1>12, <1>13 DEF ToExecute, At, Driving, Live
  <2>4. Posed(t)' => t = s
    BY <1>9, <1>11, <1>12, StepAssumption DEF Posed, Alone
  <2>5. QED BY <2>1, <2>2, <2>3, <2>4 DEF HandOK
<1>22. QED
  BY <1>14, <1>15, <1>16, <1>17, <1>18, <1>20, <1>21 DEF OrderInv

\* What the driver does without a step in hand.
LEMMA DriverStep ==
    ASSUME OrderInv, AgentInv', NEW p \in Sessions,
           \/ CreateRun(p) \/ LoadTools(p) \/ ConfirmReplied(p) \/ GetRun(p) \/ ReloadTools(p)
           \/ RebuildMessages(p) \/ CallLlm(p) \/ CallUnknown(p) \/ CreateFailed(p)
           \/ ExecuteReplied(p) \/ TurnEnds(p)
    PROVE  OrderInv'
<1>0. sess[p] \in Session
  BY DEF OrderInv, AgentInv, AgentTypeOK
<1>1. /\ sess[p].stage \in Driving
      /\ sess[p].stage \notin Awaiting \/ Answered(p)
      /\ UNCHANGED <<vars, patches, ui, frame, decided>>
      /\ runStatus' = runStatus \/ runStatus' = "pending"
  <2> USE DEF At, Driving, Live, Waiting, Awaiting
  <2>1. CASE CreateRun(p) \/ LoadTools(p) \/ GetRun(p) \/ ReloadTools(p)
    BY <2>1 DEF CreateRun, LoadTools, GetRun, ReloadTools
  <2>2. CASE ConfirmReplied(p) \/ CreateFailed(p) \/ ExecuteReplied(p)
    BY <2>2 DEF ConfirmReplied, CreateFailed, ExecuteReplied
  <2>3. CASE RebuildMessages(p) \/ CallLlm(p) \/ CallUnknown(p) \/ TurnEnds(p)
    BY <2>3 DEF RebuildMessages, CallLlm, CallUnknown, TurnEnds
  <2>4. QED BY <2>1, <2>2, <2>3
<1>2. PICK session : /\ Becomes(p, session)
                     /\ \/ session.stage \in {"load_tools", "ended", "llm", "get_run",
                                              "reload_tools", "rebuild", "calls"}
                        \/ session.stage = "send_patch" /\ session.status \in Verdicts
  <2>1. ASSUME NEW stage, MovesTo(p, stage)
        PROVE  \E session : Becomes(p, session) /\ session.stage = stage
    <3>1. [sess[p] EXCEPT !.stage = stage].stage = stage
      BY <1>0 DEF Session
    <3>2. QED BY <2>1, <3>1 DEF MovesTo
  <2>2. ASSUME NEW status, WillPatch(p, status)
        PROVE  \E session : /\ Becomes(p, session)
                            /\ session.stage = "send_patch" /\ session.status = status
    <3> DEFINE session == [sess[p] EXCEPT !.stage = "send_patch", !.status = status]
    <3>1. session.stage = "send_patch" /\ session.status = status
      BY <1>0 DEF Session
    <3>2. Becomes(p, session)
      BY <2>2 DEF WillPatch
    <3> HIDE DEF session
    <3>3. QED BY <3>1, <3>2
  <2>3. CASE CreateRun(p) \/ GetRun(p) \/ ReloadTools(p) \/ RebuildMessages(p) \/ TurnEnds(p)
    <3>1. \/ MovesTo(p, "load_tools") \/ MovesTo(p, "ended") \/ MovesTo(p, "reload_tools")
          \/ MovesTo(p, "rebuild") \/ MovesTo(p, "llm")
      BY <2>3 DEF CreateRun, GetRun, ReloadTools, RebuildMessages, TurnEnds
    <3>2. QED BY <2>1, <3>1
  <2>4. CASE ConfirmReplied(p)
    <3>1. MovesTo(p, "get_run") \/ MovesTo(p, "ended")
      BY <2>4 DEF ConfirmReplied
    <3>2. QED BY <2>1, <3>1
  <2>5. CASE LoadTools(p)
    <3>1. MovesTo(p, "llm") \/ WillPatch(p, "failed")
      BY <2>5 DEF LoadTools
    <3>2. QED BY <2>1, <2>2, <3>1 DEF Verdicts
  <2>6. CASE CreateFailed(p) \/ ExecuteReplied(p)
    <3> DEFINE session == [sess[p] EXCEPT !.stage = "calls", !.queue = Tail(@)]
    <3>1. session.stage = "calls"
      BY <1>0 DEF Session
    <3>2. Becomes(p, session)
      BY <2>6 DEF CreateFailed, ExecuteReplied
    <3> HIDE DEF session
    <3>3. QED BY <3>1, <3>2
  <2>7. CASE CallUnknown(p)
    <3> DEFINE session == [sess[p] EXCEPT !.queue = Tail(@)]
    <3>1. session.stage = "calls"
      BY <1>0, <2>7 DEF Session, CallUnknown, At
    <3>2. Becomes(p, session)
      BY <2>7 DEF CallUnknown
    <3> HIDE DEF session
    <3>3. QED BY <3>1, <3>2
  <2>8. CASE CallLlm(p)
    <3>1. ASSUME NEW proposed,
                 Becomes(p, [sess[p] EXCEPT !.stage = "calls", !.queue = proposed,
                                            !.iter = Iterations(p)])
          PROVE  \E session : Becomes(p, session) /\ session.stage = "calls"
      <4> DEFINE session == [sess[p] EXCEPT !.stage = "calls", !.queue = proposed,
                                            !.iter = Iterations(p)]
      <4>1. session.stage = "calls"
        BY <1>0 DEF Session
      <4>2. Becomes(p, session)
        BY <3>1
      <4> HIDE DEF session
      <4>3. QED BY <4>1, <4>2
    <3>2. \/ WillPatch(p, "failed") \/ WillPatch(p, "completed")
          \/ \E session : Becomes(p, session) /\ session.stage = "calls"
      BY <2>8, <3>1 DEF CallLlm
    <3>3. QED BY <2>2, <3>2 DEF Verdicts
  <2>9. QED BY <2>3, <2>4, <2>5, <2>6, <2>7, <2>8
<1>3. session.stage \in Stage \ (Awaiting \cup {"send_execute", "confirm", "idle"})
  BY <1>2 DEF Stage, Live, Waiting, Awaiting
<1>4. QED BY <1>1, <1>2, <1>3, DriverMoves

------------------------------------------------------------------------------
(* The driver sends a request *)

\* A step that may be addressed by a request for what the user decided of it.
MayAddress(request) ==
    /\ request.op \in {"execute", "confirm"}
    /\ request.step \in Steps
    /\ Exists(request.step) /\ Unaddressed(request.step) /\ Reported(request.step)
    /\ decided[request.step] =
          IF request.op = "confirm" THEN Choice(request.approved) ELSE {}

LEMMA Sends ==
    ASSUME OrderInv, AgentInv', NEW p \in Sessions, sess[p].stage \in Driving \ Awaiting,
           NEW stage \in Awaiting, Awaits(p, stage),
           NEW request, NEW first \in {"select_max", "load"}, Send(Fresh, request, first),
           MayAddress(request) \/ (request.op = "create" /\ request.step = NoStep),
           UNCHANGED <<runStatus, patches, ui, frame, decided>>
    PROVE  OrderInv'
<1>0. PICK f \in Requests : f = Fresh /\ pc[f] = "unsent"
  BY FreshUnsent DEF Awaits
<1>1. /\ sess'[p].stage = stage /\ sess'[p].req = {f}
      /\ \A q \in Sessions \ {p} : sess'[q] = sess[q]
  BY <1>0 DEF Awaits, Becomes, OrderInv, AgentInv, AgentTypeOK, Session
<1>2. /\ req'[f] = request /\ pc'[f] = first
      /\ \A r \in Requests \ {f} : req'[r] = req[r] /\ pc'[r] = pc[r]
      /\ UNCHANGED <<row, nextIndex>>
  BY <1>0 DEF Send, Goto, OrderInv, AgentInv, TypeOK
<1>3. Alone(p)
  BY DriverAlone DEF OrderInv
<1>4. \A r \in Requests : pc[r] \notin InFlight
  BY DriverQuiet
<1>5. \A q \in Sessions \ {p} : sess'[q].stage \notin Driving
  BY <1>1, <1>3 DEF Alone
<1>6. Batons' \subseteq {<<"drives", p>>}
  <2>1. ~ \E q \in Sessions : frame'[q] # NoStep
    BY <1>3 DEF Alone
  <2>2. ~ \E t \in Steps : ui'.pending = t /\ decided'[t] = {}
    BY <1>3 DEF Alone
  <2>3. ~ \E q \in Sessions : At(q, "send_patch")' /\ sess'[q].status \in Verdicts
    BY <1>1, <1>3 DEF Alone, At, Awaiting
  <2>4. (~ \E m \in patches' : m.status \in Verdicts) /\ runStatus' \notin Verdicts
    BY <1>3 DEF Alone
  <2>5. QED BY <1>5, <2>1, <2>2, <2>3, <2>4 DEF Batons
<1>7. OneBaton'
  BY <1>6 DEF OneBaton
<1>8. Opening'
  BY <1>1, OpeningOver DEF At, Awaiting
<1>9. PatchesOK' /\ Spent'
  BY DEF OrderInv, PatchesOK, Spent
<1>10. \A q \in Sessions : SessionOrder(q)' /\ ConfirmAsDecided(q)'
  <2>1. SessionOrder(p)' /\ ConfirmAsDecided(p)'
    BY <1>0, <1>1 DEF SessionOrder, ConfirmAsDecided, At, Awaiting
  <2>2. \A q \in Sessions \ {p} : SessionOrder(q)' /\ ConfirmAsDecided(q)'
    BY <1>1 DEF OrderInv, SessionOrder, ConfirmAsDecided, At
  <2>3. QED BY <2>1, <2>2
<1>11. ASSUME NEW r \in Requests
       PROVE  Flight(r)' /\ NextLeads(r)'
  <2>1. CASE r # f
    BY <1>2, <1>4, <2>1 DEF Flight, NextLeads, InFlight, CreateStages
  <2>2. CASE r = f
    BY <1>1, <1>2, <1>6, <2>2 DEF Flight, NextLeads, AwaitedBy
  <2>3. QED BY <2>1, <2>2
<1>12. StepsInOrder'
  <2>1. \A s \in Steps : ~ Addresses(f, s) /\ ~ Creates(f, s)
    BY <1>0, StepAssumption
       DEF Addresses, Creates, OrderInv, AgentInv, IInv, StageOK, NoRequest
  <2>2. \A r \in Requests \ {f}, s \in Steps :
            Addresses(r, s)' = Addresses(r, s) /\ Creates(r, s)' = Creates(r, s)
    BY <1>2 DEF Addresses, Creates
  <2>3. \A s \in Steps : ~ Creates(f, s)'
    BY <1>2, StepAssumption DEF Creates, MayAddress
  <2>4. \A s \in Steps : Addresses(f, s)' =>
            MayAddress(request) /\ s = request.step
    BY <1>2 DEF Addresses
  <2>5. AddressedOnce'
    BY <2>2, <2>4 DEF OrderInv, StepsInOrder, AddressedOnce, MayAddress, Unaddressed
  <2>6. CreatedOnce'
    BY <2>2, <2>3 DEF OrderInv, StepsInOrder, CreatedOnce
  <2>7. NamedExists'
    BY <1>2, <2>2, <2>3, <2>4 DEF OrderInv, StepsInOrder, NamedExists, MayAddress, Exists
  <2>8. AddressedReported'
    BY <1>2, <2>2, <2>3, <2>4
       DEF OrderInv, StepsInOrder, AddressedReported, MayAddress, Reported
  <2>9. AddressedAsDecided'
    <3> SUFFICES ASSUME NEW r \in Requests, NEW s \in Steps, Addresses(r, s)'
                 PROVE  decided[s] = IF req'[r].op = "confirm"
                                     THEN Choice(req'[r].approved) ELSE {}
      BY DEF AddressedAsDecided, Choice
    <3>1. CASE r = f
      BY <1>2, <2>4, <3>1 DEF MayAddress
    <3>2. CASE r # f
      BY <1>2, <2>2, <3>2 DEF OrderInv, StepsInOrder, AddressedAsDecided
    <3>3. QED BY <3>1, <3>2
  <2>10. DecidedExists'
    BY <1>2 DEF OrderInv, StepsInOrder, DecidedExists, Exists
  <2>11. QED BY <2>5, <2>6, <2>7, <2>8, <2>9, <2>10 DEF StepsInOrder
<1>13. \A s \in Steps : HandOK(s)'
  <2> SUFFICES ASSUME NEW s \in Steps PROVE HandOK(s)'
    OBVIOUS
  <2>1. ~ Coming(s)'
    <3> SUFFICES ASSUME NEW q \in Sessions, NEW r \in Requests, At(q, "creating")',
                        r \in sess'[q].req, pc'[r] \in {"publish_created", "replied"}
                 PROVE  FALSE
      BY DEF Coming
    <3>1. q = p
      BY <1>5 DEF At, Driving, Live, Waiting
    <3>2. r = f
      BY <1>1, <3>1
    <3>3. QED BY <1>2, <3>2
  <2>2. ~ ToExecute(s)' /\ ~ ToConfirm(s)'
    BY <1>1, <1>5 DEF ToExecute, ToConfirm, At, Driving, Live, Waiting, Awaiting
  <2>3. ~ Posed(s)'
    BY <1>3, StepAssumption DEF Posed, Alone
  <2>4. QED BY <2>1, <2>2, <2>3 DEF HandOK
<1>14. QED
  BY <1>7, <1>8, <1>9, <1>10, <1>11, <1>12, <1>13 DEF OrderInv

LEMMA SendsStep ==
    ASSUME OrderInv, AgentInv', NEW p \in Sessions,
           Confirm(p) \/ CreateStep(p) \/ ExecuteStep(p)
    PROVE  OrderInv'
<1>0. sess[p] \in Session /\ SessionOK(p)
  BY DEF OrderInv, AgentInv, AgentTypeOK
<1>1. CASE Confirm(p)
  <2> DEFINE request == [NoRequest EXCEPT !.op = "confirm", !.run = TheRun,
                                          !.step = sess[p].step, !.approved = Answer(p)]
  <2>1. PICK s \in Steps : s = sess[p].step
    BY <1>0, <1>1 DEF Confirm, At, SessionOK
  <2>2. request.op = "confirm" /\ request.step = s /\ request.approved = sess[p].approved
    BY <2>1 DEF NoRequest, Answer
  <2>3. Send(Fresh, request, "load") /\ Awaits(p, "confirming")
        /\ UNCHANGED <<runStatus, patches, ui, frame, decided>>
    BY <1>1 DEF Confirm, SendConfirm
  <2> HIDE DEF request
  <2>4. ToConfirm(s)
    BY <1>1, <2>1 DEF ToConfirm, Confirm
  <2>5. Exists(s) /\ Unaddressed(s) /\ Reported(s)
    BY <2>4 DEF OrderInv, HandOK
  <2>6. decided[s] = Choice(request.approved)
    BY <1>1, <2>1, <2>2 DEF OrderInv, ConfirmAsDecided, Confirm
  <2>7. MayAddress(request)
    BY <2>2, <2>5, <2>6 DEF MayAddress
  <2>8. sess[p].stage \in Driving \ Awaiting
    BY <1>1 DEF Confirm, At, Driving, Live, Awaiting
  <2>9. QED BY <2>3, <2>7, <2>8, Sends DEF Awaiting
<1>2. CASE CreateStep(p)
  <2> DEFINE tool == Head(sess[p].queue)
             requires == tool \in Destructive
             request == [NoRequest EXCEPT !.op = "create", !.run = TheRun, !.tool = tool,
                                          !.requires = requires]
  <2>1. Send(Fresh, request, "select_max") /\ Awaits(p, "creating")
        /\ UNCHANGED <<runStatus, patches, ui, frame, decided>>
    BY <1>2 DEF CreateStep, SendCreate
  <2> HIDE DEF tool, requires
  <2>2. request.op = "create" /\ request.step = NoStep
    BY DEF NoRequest
  <2> HIDE DEF request
  <2>3. sess[p].stage \in Driving \ Awaiting
    BY <1>2 DEF CreateStep, At, Driving, Live, Awaiting
  <2>4. QED BY <2>1, <2>2, <2>3, Sends DEF Awaiting
<1>3. CASE ExecuteStep(p)
  <2> DEFINE request == [NoRequest EXCEPT !.op = "execute", !.run = TheRun,
                                          !.step = sess[p].step]
  <2>1. PICK s \in Steps : s = sess[p].step
    BY <1>0, <1>3 DEF ExecuteStep, At, SessionOK
  <2>2. request.op = "execute" /\ request.step = s
    BY <2>1 DEF NoRequest
  <2>3. Send(Fresh, request, "load") /\ Awaits(p, "executing")
        /\ UNCHANGED <<runStatus, patches, ui, frame, decided>>
    BY <1>3 DEF ExecuteStep, SendExecute
  <2> HIDE DEF request
  <2>4. ToExecute(s)
    BY <1>3, <2>1 DEF ToExecute, ExecuteStep
  <2>5. Exists(s) /\ Unaddressed(s) /\ Reported(s) /\ decided[s] = {}
    BY <2>4 DEF OrderInv, HandOK
  <2>6. MayAddress(request)
    BY <2>2, <2>5 DEF MayAddress
  <2>7. sess[p].stage \in Driving \ Awaiting
    BY <1>3 DEF ExecuteStep, At, Driving, Live, Awaiting
  <2>8. QED BY <2>3, <2>6, <2>7, Sends DEF Awaiting
<1>4. QED BY <1>1, <1>2, <1>3

------------------------------------------------------------------------------
(* go-engine works on a request *)

\* While a request is at work nobody holds a step, and its session, if it is
\* still there, awaits nothing else.
LEMMA AtWork ==
    ASSUME OrderInv, NEW r \in Requests, pc[r] \in InFlight
    PROVE  /\ \A s \in Steps : ~ ToExecute(s) /\ ~ ToConfirm(s) /\ ~ Posed(s)
           /\ \A p \in Sessions : sess[p].stage \in Awaiting => sess[p].req = {r}
           /\ Batons # {} => \A q \in Requests : pc[q] \in InFlight => q = r
<1>1. \A x \in Batons : \E p \in Sessions : /\ x = <<"drives", p>>
                                            /\ sess[p].stage \in Awaiting /\ sess[p].req = {r}
  <2> SUFFICES ASSUME NEW x \in Batons
               PROVE  \E p \in Sessions : /\ x = <<"drives", p>>
                                          /\ sess[p].stage \in Awaiting /\ sess[p].req = {r}
    OBVIOUS
  <2>1. PICK p \in Sessions : x = <<"drives", p>> /\ AwaitedBy(r, p)
    BY DEF OrderInv, Flight
  <2>2. QED BY <2>1 DEF AwaitedBy, OrderInv, SessionOrder
<1>2. \A p \in Sessions : sess[p].stage \in Driving =>
          sess[p].stage \in Awaiting /\ sess[p].req = {r}
  <2> SUFFICES ASSUME NEW p \in Sessions, sess[p].stage \in Driving
               PROVE  sess[p].stage \in Awaiting /\ sess[p].req = {r}
    OBVIOUS
  <2>1. <<"drives", p>> \in Batons
    BY DEF Batons
  <2>2. QED BY <1>1, <2>1
<1>3. \A s \in Steps : ~ ToExecute(s) /\ ~ ToConfirm(s)
  BY <1>2 DEF ToExecute, ToConfirm, At, Driving, Live, Awaiting
<1>4. \A s \in Steps : ~ Posed(s)
  <2> SUFFICES ASSUME NEW s \in Steps, Posed(s) PROVE FALSE
    OBVIOUS
  <2>1. CASE \E p \in Sessions : frame[p] = s
    <3>1. PICK p \in Sessions : frame[p] = s
      BY <2>1
    <3>2. <<"frame", p>> \in Batons
      BY <3>1, StepAssumption DEF Batons
    <3>3. QED BY <1>1, <3>2
  <2>2. CASE ui.pending = s /\ decided[s] = {}
    <3>1. <<"shown", s>> \in Batons
      BY <2>2 DEF Batons
    <3>2. QED BY <1>1, <3>1
  <2>3. QED BY <2>1, <2>2 DEF Posed
<1>5. \A p \in Sessions : sess[p].stage \in Awaiting => sess[p].req = {r}
  BY <1>2 DEF Awaiting, Driving, Live, Waiting
<1>6. ASSUME NEW q \in Requests, pc[q] \in InFlight, NEW x \in Batons
      PROVE  q = r
  <2>1. PICK p \in Sessions : x = <<"drives", p>> /\ AwaitedBy(q, p)
    BY <1>6 DEF OrderInv, Flight
  <2>2. QED BY <1>5, <2>1 DEF AwaitedBy
<1>7. QED BY <1>3, <1>4, <1>5, <1>6

\* The parts that only the agent's own steps can disturb.
LEMMA AgentStill ==
    ASSUME OrderInv, UNCHANGED <<sess, ui, frame, patches, decided, runStatus>>,
           NEW r \in Requests, pc[r] \in InFlight,
           \A q \in Requests \ {r} : pc'[q] = pc[q]
    PROVE  /\ Batons' = Batons
           /\ OneBaton' /\ Opening' /\ PatchesOK' /\ Spent'
           /\ \A p \in Sessions : SessionOrder(p)' /\ ConfirmAsDecided(p)'
           /\ \A q \in Requests : Flight(q)'
<1>1. Batons' = Batons
  BY DEF Batons, At
<1>2. OneBaton' /\ PatchesOK' /\ Spent'
  BY <1>1 DEF OrderInv, OneBaton, PatchesOK, Spent
<1>3. Opening'
  <2>1. ~ \A p \in Sessions : At(p, "idle")
    BY DEF OrderInv, Opening, InFlight, CreateStages, RejectStages, RunStages, OwingStages
  <2>2. QED BY <2>1 DEF Opening, At
<1>4. \A p \in Sessions : SessionOrder(p)' /\ ConfirmAsDecided(p)'
  BY DEF OrderInv, SessionOrder, ConfirmAsDecided, At
<1>5. \A q \in Requests : Flight(q)'
  BY <1>1 DEF OrderInv, Flight, AwaitedBy
<1>6. QED BY <1>1, <1>2, <1>3, <1>4, <1>5

\* The other statements of the handlers: no row is inserted and no index read.
LEMMA EngineMoves ==
    ASSUME OrderInv, AgentInv',
           UNCHANGED <<sess, ui, frame, patches, decided, runStatus, req>>,
           NEW r \in Requests, pc[r] \in InFlight,
           \A q \in Requests \ {r} : pc'[q] = pc[q],
           pc'[r] # "publish_created",
           pc'[r] = "replied" => req[r].op # "create" \/ pc[r] = "publish_created",
           RowsSame, \A q \in Requests : NextLeads(q)'
    PROVE  OrderInv'
<1>1. RepliedKept
  BY DEF RepliedKept, InFlight, CreateStages, RejectStages, RunStages, OwingStages
<1>2. StepsInOrder'
  BY <1>1, StepsKept DEF OrderInv, RowsSame
<1>3. \A s \in Steps : HandOK(s)'
  <2> SUFFICES ASSUME NEW s \in Steps PROVE HandOK(s)'
    OBVIOUS
  <2>1. Coming(s)' => Coming(s)
    BY DEF Coming, Creates, At
  <2>2. /\ ToExecute(s)' => ToExecute(s)
        /\ ToConfirm(s)' => ToConfirm(s)
        /\ Posed(s)' => Posed(s)
    BY DEF ToExecute, ToConfirm, Posed, At
  <2>3. QED BY <1>1, <2>1, <2>2, HandKept DEF OrderInv
<1>4. QED BY <1>2, <1>3, AgentStill DEF OrderInv

\* The row is inserted, under the index read before.
LEMMA InsertOrder ==
    ASSUME OrderInv, AgentInv', NEW r \in Requests, NEW s \in Steps, Insert(r, s),
           UNCHANGED <<sess, ui, frame, patches, decided, runStatus>>
    PROVE  OrderInv'
<1>0. /\ pc[r] \in InFlight /\ req[r].op = "create" /\ ~ Exists(s)
      /\ row \in [Steps -> Row] /\ req \in [Requests -> Request]
  BY DEF Insert, InFlight, CreateStages, OrderInv, AgentInv, IInv, StageOK, TypeOK
<1>1. /\ pc'[r] \in {"publish_created", "failed"}
      /\ \A q \in Requests \ {r} : pc'[q] = pc[q] /\ req'[q] = req[q]
      /\ req'[r].op = "create" /\ req'[r].step = s /\ req'[r].run = req[r].run
      /\ nextIndex' = nextIndex
  BY <1>0 DEF Insert, Goto, OrderInv, AgentInv, TypeOK, Request
<1>2. /\ \A t \in Steps \ {s} : row'[t] = row[t]
      /\ row'[s].run = req[r].run /\ row'[s].index = nextIndex[r]
      /\ Exists(s)'
  <2>1. InitialStatus(req[r].requires) # "absent"
    BY DEF InitialStatus
  <2>2. QED BY <1>0, <2>1 DEF Insert, Exists
<1>3. /\ Batons' = Batons
      /\ OneBaton' /\ Opening' /\ PatchesOK' /\ Spent'
      /\ \A p \in Sessions : SessionOrder(p)' /\ ConfirmAsDecided(p)'
      /\ \A q \in Requests : Flight(q)'
  BY <1>0, <1>1, AgentStill
<1>4. \A q \in Requests : NextLeads(q)'
  <2> SUFFICES ASSUME NEW q \in Requests, pc'[q] = "insert", Batons' # {} PROVE FALSE
    BY DEF NextLeads
  <2>1. q # r
    BY <1>1
  <2>2. pc[q] \in InFlight
    BY <1>1, <2>1 DEF InFlight, CreateStages
  <2>3. QED BY <1>0, <1>3, <2>1, <2>2, AtWork
<1>5. \A t \in Steps : /\ t # s => Exists(t)' = Exists(t)
                       /\ Exists(t) => Exists(t)'
  BY <1>2 DEF Exists
<1>6. \A q \in Requests, t \in Steps :
          /\ Addresses(q, t)' = Addresses(q, t)
          /\ Creates(q, t)' = IF q = r THEN t = s ELSE Creates(q, t)
  BY <1>0, <1>1 DEF Addresses, Creates
<1>7. /\ \A q \in Requests : ~ Addresses(q, s) /\ ~ Creates(q, s)
      /\ decided[s] = {}
  BY <1>0 DEF OrderInv, StepsInOrder, NamedExists, DecidedExists
<1>8. StepsInOrder'
  <2>1. AddressedOnce'
    BY <1>6 DEF OrderInv, StepsInOrder, AddressedOnce
  <2>2. CreatedOnce'
    <3> SUFFICES ASSUME NEW q \in Requests, NEW u \in Requests, NEW t \in Steps,
                        Creates(q, t)', Creates(u, t)'
                 PROVE  q = u
      BY DEF CreatedOnce
    <3>1. CASE q # r /\ u # r
      BY <1>6, <3>1 DEF OrderInv, StepsInOrder, CreatedOnce
    <3>2. CASE (q = r \/ u = r) /\ q # u
      BY <1>6, <1>7, <3>2
    <3>3. QED BY <3>1, <3>2
  <2>3. NamedExists'
    BY <1>2, <1>5, <1>6 DEF OrderInv, StepsInOrder, NamedExists
  <2>4. AddressedReported'
    BY <1>1, <1>6, <1>7 DEF OrderInv, StepsInOrder, AddressedReported
  <2>5. AddressedAsDecided'
    <3> SUFFICES ASSUME NEW q \in Requests, NEW t \in Steps, Addresses(q, t)'
                 PROVE  decided[t] = IF req'[q].op = "confirm"
                                     THEN Choice(req'[q].approved) ELSE {}
      BY DEF AddressedAsDecided, Choice
    <3>1. q # r /\ Addresses(q, t)
      BY <1>1, <1>6 DEF Addresses
    <3>2. QED BY <1>1, <3>1 DEF OrderInv, StepsInOrder, AddressedAsDecided
  <2>6. DecidedExists'
    BY <1>5 DEF OrderInv, StepsInOrder, DecidedExists
  <2>7. QED BY <2>1, <2>2, <2>3, <2>4, <2>5, <2>6 DEF StepsInOrder
<1>9. ASSUME NEW t \in Steps
      PROVE  HandOK(t)'
  <2>1. ~ ToExecute(t)' /\ ~ ToConfirm(t)' /\ ~ Posed(t)'
    <3>1. ~ ToExecute(t) /\ ~ ToConfirm(t) /\ ~ Posed(t)
      BY <1>0, AtWork
    <3>2. QED BY <3>1 DEF ToExecute, ToConfirm, Posed, At
  <2>2. Coming(t)' => t = s /\ Batons # {}
    <3> SUFFICES ASSUME NEW p \in Sessions, NEW q \in Requests, At(p, "creating"),
                        q \in sess[p].req, Creates(q, t)'
                 PROVE  t = s /\ Batons # {}
      BY DEF Coming, At
    <3>1. sess[p].stage \in Awaiting /\ sess[p].stage \in Driving
      BY DEF At, Awaiting, Driving, Live, Waiting
    <3>2. q = r
      BY <1>0, <3>1, AtWork
    <3>3. <<"drives", p>> \in Batons
      BY <3>1 DEF Batons
    <3>4. QED BY <1>6, <3>2, <3>3
  <2>3. Exists(s)' /\ Unaddressed(s)' /\ decided'[s] = {}
    BY <1>2, <1>6, <1>7 DEF Unaddressed
  <2>4. Batons # {} => Leads(s)'
    <3> SUFFICES ASSUME Batons # {}, NEW u \in StepsOf(row[s].run)'
                 PROVE  row'[u].index <= row'[s].index
      BY DEF Leads
    <3>1. u \in Steps /\ Exists(u)' /\ row'[u].run = req[r].run
      BY <1>2 DEF StepsOf
    <3>2. CASE u = s
      BY <1>2, <3>2 DEF OrderInv, AgentInv, TypeOK
    <3>3. CASE u # s
      <4>1. u \in StepsOf(req[r].run) /\ row'[u].index = row[u].index
        BY <1>2, <1>5, <3>1, <3>3 DEF StepsOf
      <4>2. row[u].index < nextIndex[r]
        BY <4>1 DEF Insert, OrderInv, NextLeads
      <4>3. row[u].index \in Nat /\ nextIndex[r] \in Nat
        BY <3>1 DEF OrderInv, AgentInv, TypeOK, Row
      <4>4. QED BY <1>2, <4>1, <4>2, <4>3
    <3>4. QED BY <3>2, <3>3
  <2>5. QED BY <2>1, <2>2, <2>3, <2>4 DEF HandOK
<1>10. QED BY <1>3, <1>4, <1>8, <1>9 DEF OrderInv

LEMMA EngineStep ==
    ASSUME OrderInv, AgentInv', NEW r \in Requests, Engine(r)
    PROVE  OrderInv'
<1>0. /\ UNCHANGED <<sess, ui, frame, patches, decided, runStatus>>
      /\ Handler(r) \/ ApiAnswers(r) \/ DbFails(r)
      /\ TypeOK /\ StageOK(r)
  BY DEF Engine, OrderInv, AgentInv, IInv
<1>1. ASSUME NEW s \in Steps, Insert(r, s)
      PROVE  OrderInv'
  BY <1>0, <1>1, InsertOrder
<1>2. ASSUME nextIndex' = nextIndex, pc'[r] # "insert", RowsSame,
             \A q \in Requests \ {r} : pc'[q] = pc[q], req' = req
      PROVE  \A q \in Requests : NextLeads(q)'
  <2> SUFFICES ASSUME NEW q \in Requests, pc'[q] = "insert", Batons' # {},
                      NEW t \in StepsOf(req[q].run)'
               PROVE  row'[t].index < nextIndex'[q]
    BY <1>2 DEF NextLeads, StepsOf, Exists
  <2>1. Batons' = Batons
    BY <1>0 DEF Batons, At
  <2>2. t \in StepsOf(req[q].run) /\ t \in Steps
    BY <1>2 DEF StepsOf, RowsSame
  <2>3. QED BY <1>2, <2>1, <2>2 DEF OrderInv, NextLeads, RowsSame
<1>3. CASE SelectMax(r)
  <2>1. /\ pc[r] \in InFlight /\ pc'[r] = "insert" /\ req' = req /\ row' = row
        /\ \A q \in Requests \ {r} : pc'[q] = pc[q] /\ nextIndex'[q] = nextIndex[q]
        /\ \A t \in StepsOf(req[r].run) : row[t].index < nextIndex'[r]
    BY <1>0, <1>3 DEF SelectMax, Goto, TypeOK, InFlight, CreateStages, IsNextIndex
  <2>2. RowsSame
    BY <2>1 DEF RowsSame, Exists
  <2>3. Batons' = Batons
    BY <1>0 DEF Batons, At
  <2>4. \A q \in Requests : NextLeads(q)'
    <3> SUFFICES ASSUME NEW q \in Requests PROVE NextLeads(q)'
      OBVIOUS
    <3>1. CASE q = r
      BY <2>1, <3>1 DEF NextLeads, StepsOf, Exists
    <3>2. CASE q # r
      BY <2>1, <2>3, <3>2 DEF OrderInv, NextLeads, StepsOf, Exists
    <3>3. QED BY <3>1, <3>2
  <2>5. QED BY <1>0, <2>1, <2>2, <2>4, EngineMoves
<1>4. ASSUME UNCHANGED <<row, req, nextIndex>>, pc[r] \in InFlight,
             \A q \in Requests \ {r} : pc'[q] = pc[q],
             pc'[r] \notin {"insert", "publish_created"},
             pc'[r] = "replied" => req[r].op # "create" \/ pc[r] = "publish_created"
      PROVE  OrderInv'
  <2>1. RowsSame
    BY <1>4 DEF RowsSame, Exists
  <2>2. \A q \in Requests : NextLeads(q)'
    BY <1>2, <1>4, <2>1
  <2>3. QED BY <1>0, <1>4, <2>1, <2>2, EngineMoves
<1> USE DEF InFlight, CreateStages, RejectStages, RunStages, OwingStages
<1>5. CASE \/ InsertConflict(r) \/ LoadStep(r) \/ RunToolRefused(r) \/ RunToolFails(r)
           \/ CallApi(r) \/ ApiTimesOut(r) \/ ApiAnswers(r) \/ DbFails(r)
  BY <1>0, <1>4, <1>5 DEF InsertConflict, LoadStep, ExecuteLoaded, ConfirmLoaded,
                          RunToolRefused, RunToolFails, CallApi,
                          ApiTimesOut, ApiAnswers, DbFails, CreateStatements,
                          DecideStatements, RunStatements, Goto, TypeOK
<1>6. CASE PublishCreated(r)
  BY <1>0, <1>4, <1>6 DEF PublishCreated, PublishStatus, Goto, TypeOK
<1>7. CASE PublishSkipped(r) \/ PublishExecuting(r) \/ PublishSuccess(r) \/ PublishError(r)
  <2>1. req[r].op # "create"
    BY <1>0, <1>7 DEF PublishSkipped, PublishExecuting, PublishSuccess, PublishError,
                      StageOK, Asks
  <2>2. QED
    BY <1>0, <1>4, <1>7, <2>1 DEF PublishSkipped, PublishExecuting, PublishSuccess,
                                  PublishError, PublishStatus, Goto, TypeOK
<1>8. ASSUME NEW newRow, NEW next, NEW ending, Update(r, newRow, next, ending),
             pc[r] \in InFlight, Loaded(r),
             newRow.run = row[req[r].step].run, newRow.index = row[req[r].step].index,
             newRow.status # "absent",
             next \notin {"insert", "publish_created", "replied"},
             ending \notin {"insert", "publish_created", "replied"}
      PROVE  OrderInv'
  <2>1. /\ UNCHANGED <<req, nextIndex>> /\ pc'[r] \in {next, ending}
        /\ \A q \in Requests \ {r} : pc'[q] = pc[q]
    BY <1>0, <1>8 DEF Update, Goto, TypeOK
  <2>2. RowsSame
    BY <1>0, <1>8 DEF Update, TypeOK, RowsSame, Exists, Loaded
  <2>3. \A q \in Requests : NextLeads(q)'
    BY <1>2, <1>8, <2>1, <2>2
  <2>4. QED BY <1>0, <1>8, <2>1, <2>2, <2>3, EngineMoves
<1>9. CASE SkipStep(r) \/ SetConfirmed(r) \/ MarkExecuting(r) \/ PersistSuccess(r)
           \/ PersistError(r)
  <2>1. Loaded(r) /\ row[req[r].step] \in Row /\ row[req[r].step].status # "absent"
    BY <1>0, <1>9 DEF SkipStep, SetConfirmed, MarkExecuting, PersistSuccess, PersistError,
                      StageOK, TypeOK, Loaded, Exists
  <2>2. CASE SkipStep(r)
    <3> DEFINE newRow == [row[req[r].step] EXCEPT !.status = "skipped", !.confirmed = FALSE]
    <3>1. /\ newRow.run = row[req[r].step].run /\ newRow.index = row[req[r].step].index
          /\ newRow.status = "skipped"
      BY <2>1 DEF Row
    <3>2. Update(r, newRow, "publish_skipped", "failed") /\ pc[r] = "skip"
      BY <2>2 DEF SkipStep
    <3> HIDE DEF newRow
    <3>3. QED BY <1>8, <2>1, <3>1, <3>2
  <2>3. CASE SetConfirmed(r)
    BY <1>8, <2>1, <2>3 DEF SetConfirmed, Row
  <2>4. CASE MarkExecuting(r)
    BY <1>8, <2>1, <2>4 DEF MarkExecuting, Row
  <2>5. CASE PersistSuccess(r)
    BY <1>8, <2>1, <2>5 DEF PersistSuccess, Row
  <2>6. CASE PersistError(r)
    BY <1>8, <2>1, <2>6 DEF PersistError, Row
  <2>7. QED BY <1>9, <2>2, <2>3, <2>4, <2>5, <2>6
<1>10. QED BY <1>0, <1>1, <1>3, <1>5, <1>6, <1>7, <1>9 DEF Handler

------------------------------------------------------------------------------
(* The invariant *)

LEMMA OrderInvInit == Init /\ AgentInit => OrderInv
<1> SUFFICES ASSUME Init, AgentInit PROVE OrderInv
  OBVIOUS
<1>1. /\ AgentInv
      /\ \A p \in Sessions : sess[p].stage = "idle" /\ frame[p] = NoStep
      /\ runStatus = "none" /\ patches = {} /\ ui.pending = NoStep
      /\ \A s \in Steps : decided[s] = {}
      /\ \A r \in Requests : pc[r] = "unsent" /\ req[r] = NoRequest
  BY AgentInvInit DEF Init, AgentInit, IdleSession
<1>2. Batons = {}
  <2>1. ~ \E s \in Steps : ui.pending = s
    BY <1>1, StepAssumption
  <2>2. QED BY <1>1, <2>1 DEF Batons, Driving, Live, Waiting, At, Verdicts
<1>3. OneBaton /\ Opening /\ PatchesOK /\ Spent
  BY <1>1, <1>2 DEF OneBaton, Opening, PatchesOK, Spent
<1>4. \A p \in Sessions : SessionOrder(p) /\ ConfirmAsDecided(p)
  BY <1>1 DEF SessionOrder, ConfirmAsDecided, At, Awaiting
<1>5. \A r \in Requests : Flight(r) /\ NextLeads(r)
  BY <1>1, <1>2 DEF Flight, NextLeads
<1>6. \A r \in Requests, s \in Steps : ~ Addresses(r, s) /\ ~ Creates(r, s)
  BY <1>1 DEF Addresses, Creates, NoRequest
<1>7. StepsInOrder
  BY <1>1, <1>6 DEF StepsInOrder, AddressedOnce, CreatedOnce, NamedExists, AddressedReported,
                    AddressedAsDecided, DecidedExists
<1>8. \A s \in Steps : ~ Coming(s) /\ ~ ToExecute(s) /\ ~ ToConfirm(s) /\ ~ Posed(s)
  BY <1>1, StepAssumption DEF Coming, ToExecute, ToConfirm, Posed, At
<1>9. QED BY <1>1, <1>3, <1>4, <1>5, <1>7, <1>8 DEF OrderInv, HandOK

LEMMA OrderInvStep == OrderInv /\ [AgentNext]_appVars => OrderInv'
<1> SUFFICES ASSUME OrderInv, [AgentNext]_appVars PROVE OrderInv'
  OBVIOUS
<1>1. AgentInv'
  BY AgentInvStep DEF OrderInv
<1>2. CASE UNCHANGED appVars
  BY <1>1, <1>2, LossesStep
<1>3. ASSUME NEW p \in Sessions, User(p)
      PROVE  OrderInv'
  BY <1>1, <1>3, HandleSendStep, HandleConfirmationStep DEF User
<1>4. ASSUME NEW p \in Sessions, Panel(p)
      PROVE  OrderInv'
  BY <1>1, <1>4, HandleEventStep, LossesStep DEF Panel
<1>5. ASSUME NEW p \in Sessions, Planner(p)
      PROVE  OrderInv'
  <2>1. CASE Confirm(p) \/ CreateStep(p) \/ ExecuteStep(p)
    BY <1>1, <2>1, SendsStep
  <2>2. CASE CreateReplied(p)
    BY <1>1, <2>2, CreateRepliedStep
  <2>3. CASE SendPatch(p)
    BY <1>1, <2>3, SendPatchStep
  <2>4. CASE \/ CreateRun(p) \/ LoadTools(p) \/ ConfirmReplied(p) \/ GetRun(p)
             \/ ReloadTools(p) \/ RebuildMessages(p) \/ CallLlm(p) \/ CallUnknown(p)
             \/ CreateFailed(p) \/ ExecuteReplied(p) \/ TurnEnds(p)
    BY <1>1, <2>4, DriverStep
  <2>5. QED BY <1>5, <2>1, <2>2, <2>3, <2>4 DEF Planner
<1>6. ASSUME NEW p \in Sessions, TransportFails(p) \/ SessionDies(p)
      PROVE  OrderInv'
  BY <1>1, <1>6, LossesStep
<1>7. ASSUME NEW m \in patches, UpdateRunStatus(m) \/ UpdateRunStatusFails(m)
      PROVE  OrderInv'
  BY <1>1, <1>7, UpdateRunStatusStep, LossesStep
<1>8. ASSUME NEW r \in Requests, Engine(r)
      PROVE  OrderInv'
  BY <1>1, <1>8, EngineStep
<1>9. CASE EngineCrash
  BY <1>1, <1>9, LossesStep
<1>10. QED BY <1>2, <1>3, <1>4, <1>5, <1>6, <1>7, <1>8, <1>9 DEF AgentNext

\* One actor at a time goes on with the run, and each step is created, asked
\* about, decided and addressed once.
THEOREM OrderInvariance == AgentSpec => []OrderInv
BY OrderInvInit, OrderInvStep, PTL DEF AgentSpec

------------------------------------------------------------------------------
(* Theorems *)

\* A call was made for a request that addresses its step.
LEMMA CallAddresses ==
    ASSUME OrderInv, NEW r \in Requests, calls[r] > 0
    PROVE  Asks(r) /\ req[r].step \in Steps /\ Addresses(r, req[r].step)
<1>1. calls[r] = 1 /\ CallOK(r)
  BY DEF OrderInv, AgentInv, IInv, CallOK
<1>2. QED BY <1>1 DEF CallOK, Loaded, Asks, Addresses

\* No step is carried out twice, whatever times out, dies or crashes.
THEOREM CarriedOutOnce == AgentSpec => []OneCallPerStep
<1>1. OrderInv => OneCallPerStep
  BY CallAddresses DEF OneCallPerStep, OrderInv, StepsInOrder, AddressedOnce
<1>2. QED BY <1>1, OrderInvariance, PTL

\* A step the user rejected is never called.
THEOREM RejectionHolds == AgentSpec => []RejectedNeverCalled
<1>1. OrderInv => RejectedNeverCalled
  <2> SUFFICES ASSUME OrderInv, NEW s \in Steps, "reject" \in decided[s],
                      NEW r \in Requests, req[r].step = s, calls[r] # 0
               PROVE  FALSE
    BY DEF RejectedNeverCalled
  <2>1. calls[r] > 0
    BY DEF OrderInv, AgentInv, IInv, CallOK
  <2>2. Asks(r) /\ Addresses(r, s)
    BY <2>1, CallAddresses
  <2>3. decided[s] = IF req[r].op = "confirm" THEN Choice(req[r].approved) ELSE {}
    BY <2>2 DEF OrderInv, StepsInOrder, AddressedAsDecided
  <2>4. QED BY <2>2, <2>3 DEF Asks, Choice
<1>2. QED BY <1>1, OrderInvariance, PTL

\* A step the planner was told could not be recorded is never called.
THEOREM UnrecordedStays == AgentSpec => []UnrecordedNeverCalled
<1>1. OrderInv => UnrecordedNeverCalled
  <2> SUFFICES ASSUME OrderInv, NEW q \in Requests, NEW r \in Requests,
                      req[q].op = "create", pc[q] = "failed", Loaded(q), calls[r] > 0,
                      req[r].step = req[q].step
               PROVE  FALSE
    BY DEF UnrecordedNeverCalled
  <2>1. Creates(q, req[q].step) /\ Addresses(r, req[q].step) /\ req[q].step \in Steps
    BY CallAddresses DEF Creates, Loaded
  <2>2. QED BY <2>1 DEF OrderInv, StepsInOrder, AddressedReported
<1>2. QED BY <1>1, OrderInvariance, PTL

\* While the user is asked about a step nothing else of the run is carried out,
\* and nothing after it is recorded.
THEOREM QuestionStands == AgentSpec => []NothingOvertakes
<1>1. OrderInv => NothingOvertakes
  <2> SUFFICES ASSUME OrderInv, NEW s \in Steps, Asked(s)
               PROVE  Leads(s) /\ \A r \in Requests : pc[r] \notin InFlight
    BY DEF NothingOvertakes, Leads
  <2>1. Posed(s)
    BY DEF Asked, Posed
  <2>2. QED BY <2>1, AtWork DEF OrderInv, HandOK
<1>2. QED BY <1>1, OrderInvariance, PTL

\* A run is completed only when none of its requests is at work any more.
THEOREM CompletionIsQuiet == AgentSpec => []CompletedIsQuiet
<1>1. OrderInv => CompletedIsQuiet
  <2> SUFFICES ASSUME OrderInv, runStatus = "completed"
               PROVE  \A r \in Requests : pc[r] \notin InFlight
    BY DEF CompletedIsQuiet
  <2>1. <<"verdict", runStatus>> \in Batons
    BY DEF Batons, Verdicts
  <2>2. QED BY <2>1, BatonQuiet
<1>2. QED BY <1>1, OrderInvariance, PTL

\* A run gets one verdict: only the late PATCH of the session that paused the run
\* can overwrite it.
THEOREM VerdictStands == AgentSpec => OneVerdict
<1>1. OrderInv /\ [AgentNext]_appVars =>
          [(runStatus \in {"completed", "failed"}) =>
              (runStatus' \in {runStatus, "awaiting_confirmation"})]_runStatus
  <2> SUFFICES ASSUME OrderInv, [AgentNext]_appVars, runStatus \in Verdicts
               PROVE  runStatus' \in {runStatus, "awaiting_confirmation"}
    BY DEF Verdicts
  <2>1. <<"verdict", runStatus>> \in Batons
    BY DEF Batons
  <2>2. \A p \in Sessions : ~ CreateRun(p)
    <3> SUFFICES ASSUME NEW p \in Sessions, CreateRun(p) PROVE FALSE
      OBVIOUS
    <3>1. sess[p].stage \in Driving
      BY DEF CreateRun, At, Driving, Live
    <3>2. QED BY <3>1, DriverAlone DEF OrderInv, Alone
  <2>3. ASSUME NEW m \in patches, UpdateRunStatus(m)
        PROVE  runStatus' = "awaiting_confirmation"
    <3>1. m.status \in Verdicts => <<"patch", m>> \in Batons
      BY DEF Batons
    <3>2. m.status \notin Verdicts
      BY <2>1, <3>1 DEF OrderInv, OneBaton
    <3>3. QED BY <2>3, <3>2 DEF UpdateRunStatus, OrderInv, PatchesOK
  <2>4. ASSUME NEW p \in Sessions,
               User(p) \/ Panel(p) \/ Planner(p) \/ TransportFails(p) \/ SessionDies(p)
        PROVE  runStatus' = runStatus
    <3>1. CASE Planner(p)
      BY <2>2, <3>1 DEF Planner, LoadTools, Confirm, ConfirmReplied, GetRun, ReloadTools,
                        RebuildMessages, CallLlm, CallUnknown, CreateStep, CreateFailed,
                        CreateReplied, ExecuteStep, ExecuteReplied, TurnEnds, SendPatch
    <3>2. CASE User(p) \/ Panel(p) \/ TransportFails(p) \/ SessionDies(p)
      BY <3>2 DEF User, HandleSend, HandleConfirmation, Panel, HandleEvent, StreamEnds,
                  TransportFails, SessionDies
    <3>3. QED BY <2>4, <3>1, <3>2
  <2>5. ASSUME NEW m \in patches, UpdateRunStatusFails(m)
        PROVE  runStatus' = runStatus
    BY <2>5 DEF UpdateRunStatusFails
  <2>6. ASSUME NEW r \in Requests, Engine(r)
        PROVE  runStatus' = runStatus
    BY <2>6 DEF Engine
  <2>7. CASE EngineCrash \/ UNCHANGED appVars
    BY <2>7 DEF EngineCrash, appVars, agentVars
  <2>8. QED BY <2>3, <2>4, <2>5, <2>6, <2>7 DEF AgentNext
<1>2. QED BY <1>1, OrderInvariance, PTL DEF AgentSpec, OneVerdict

=============================================================================
