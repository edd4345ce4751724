------------------------- MODULE ToolRegistryProofs -------------------------
(***************************************************************************)
(* Theorems about ToolRegistry, for every set of tenants, tool names,      *)
(* registrations and bodies: a tenant has one tool of a name, connections  *)
(* are whole, and the transactions implement AtomicRegistration.           *)
(***************************************************************************)
EXTENDS ToolRegistry, TLAPS

------------------------------------------------------------------------------
(* Types *)

LEMMA BodiesTyped ==
    ASSUME NEW names \in Bodies
    PROVE  names \in Seq(ToolNames) /\ Len(names) \in Nat /\ Len(names) > 0
<1>1. names \in Seq(ToolNames) /\ names # <<>>
  BY RegistryAssumption
<1>2. QED BY <1>1

LEMMA BodyTyped ==
    ASSUME RegistryTypeOK, NEW r \in Registrations, Progress(r), stage[r] # "unsent"
    PROVE  /\ body[r] \in [tenant : Slugs, names : Bodies]
           /\ body[r].names \in Seq(ToolNames)
           /\ Len(body[r].names) \in Nat /\ Len(body[r].names) > 0
<1>1. body[r] \in [tenant : Slugs, names : Bodies]
  BY DEF RegistryTypeOK, Progress
<1>2. QED BY <1>1, BodiesTyped

LEMMA RowTyped ==
    ASSUME RegistryTypeOK, NEW r \in Registrations, Progress(r), stage[r] # "unsent",
           NEW i \in 1..Len(body[r].names)
    PROVE  Row(r, i) \in Tool
BY BodyTyped DEF Row, Tool

------------------------------------------------------------------------------
(* The invariant *)

LEMMA InitHolds == RegistryInit => RegistryInv
<1> SUFFICES ASSUME RegistryInit PROVE RegistryInv
  OBVIOUS
<1>1. RegistryTypeOK
  BY DEF RegistryInit, RegistryTypeOK, Finished, WorkStages, OpenStages
<1>2. \A r \in Registrations : Progress(r)
  BY DEF RegistryInit, Progress
<1>3. Committed
  BY DEF RegistryInit, Committed
<1>4. KeysHeld
  BY DEF RegistryInit, KeysHeld, Holding, OpenStages
<1>5. QED BY <1>1, <1>2, <1>3, <1>4 DEF RegistryInv

LEMMA TypeKept ==
    ASSUME RegistryInv, [RegistryNext]_registryVars
    PROVE  RegistryTypeOK'
<1> USE DEF RegistryTypeOK, WorkStages, OpenStages, Finished
<1>1. CASE UNCHANGED registryVars
  BY <1>1 DEF RegistryInv, registryVars
<1>2. CASE \E slug \in Slugs : CreateTenant(slug) /\ UNCHANGED <<conns, tools, body, stage, inserted>>
  BY <1>2 DEF RegistryInv, CreateTenant
<1>3. ASSUME NEW r \in Registrations,
             NEW slug \in Slugs, NEW names \in Bodies, SendRegistration(r, slug, names)
      PROVE  RegistryTypeOK'
  BY <1>3 DEF RegistryInv, SendRegistration, Moves
<1>4. ASSUME NEW r \in Registrations, InsertConnection(r)
      PROVE  RegistryTypeOK'
  BY <1>4 DEF RegistryInv, InsertConnection, Moves
<1>5. ASSUME NEW r \in Registrations, InsertTool(r)
      PROVE  RegistryTypeOK'
  BY <1>5 DEF RegistryInv, InsertTool, Moves
<1>6. ASSUME NEW r \in Registrations, InsertRefused(r) \/ Fails(r)
      PROVE  RegistryTypeOK'
  BY <1>6 DEF RegistryInv, InsertRefused, Fails, RollsBack, Moves
<1>7. ASSUME NEW r \in Registrations, Commit(r)
      PROVE  RegistryTypeOK'
  <2>1. Pending(r) \subseteq Tool
    BY <1>7, RowTyped DEF RegistryInv, Pending, Progress, Commit
  <2>2. QED BY <1>7, <2>1 DEF RegistryInv, Commit, Moves
<1>8. QED
  BY <1>1, <1>2, <1>3, <1>4, <1>5, <1>6, <1>7 DEF RegistryNext, Register

\* A step of one registration leaves the stages, bodies and rows of the others alone.
LEMMA ProgressKept ==
    ASSUME RegistryInv, [RegistryNext]_registryVars, NEW q \in Registrations
    PROVE  Progress(q)'
<1> USE DEF RegistryInv, RegistryTypeOK, WorkStages, OpenStages, Finished
<1>1. CASE UNCHANGED registryVars
  BY <1>1 DEF registryVars, Progress
<1>2. CASE \E slug \in Slugs : CreateTenant(slug) /\ UNCHANGED <<conns, tools, body, stage, inserted>>
  BY <1>2 DEF CreateTenant, Progress
<1>3. ASSUME NEW r \in Registrations,
             NEW slug \in Slugs, NEW names \in Bodies, SendRegistration(r, slug, names)
      PROVE  Progress(q)'
  <2>1. [tenant |-> slug, names |-> names] # NoBody
    BY RegistryAssumption DEF NoBody
  <2>2. QED BY <1>3, <2>1 DEF SendRegistration, Moves, Progress
<1>4. ASSUME NEW r \in Registrations, InsertConnection(r)
      PROVE  Progress(q)'
  BY <1>4, BodyTyped DEF InsertConnection, Moves, Progress
<1>5. ASSUME NEW r \in Registrations, InsertTool(r)
      PROVE  Progress(q)'
  <2>1. inserted[r] \in Nat /\ inserted[r] < Len(body[r].names) /\ Len(body[r].names) \in Nat
    BY <1>5, BodyTyped DEF InsertTool, Progress
  <2>2. QED BY <1>5, <2>1 DEF InsertTool, Moves, Progress
<1>6. ASSUME NEW r \in Registrations, InsertRefused(r) \/ Fails(r)
      PROVE  Progress(q)'
  BY <1>6 DEF InsertRefused, Fails, RollsBack, Moves, Progress
<1>7. ASSUME NEW r \in Registrations, Commit(r)
      PROVE  Progress(q)'
  BY <1>7 DEF Commit, Moves, Progress
<1>8. QED
  BY <1>1, <1>2, <1>3, <1>4, <1>5, <1>6, <1>7 DEF RegistryNext, Register

------------------------------------------------------------------------------
(* Rows *)

\* A transaction that goes from stage to stage keeps its rows, and so does a
\* committed one.
RowsSame(r) == body'[r] = body[r] /\ inserted'[r] = inserted[r]

LEMMA PendingSame ==
    ASSUME NEW r \in Registrations, RowsSame(r)
    PROVE  Pending(r)' = Pending(r) /\ \A i : Row(r, i)' = Row(r, i)
BY DEF RowsSame, Pending, Row

LEMMA CommittedSame ==
    ASSUME RegistryInv, [RegistryNext]_registryVars, NEW q \in conns
    PROVE  RowsSame(q)
<1> USE DEF RegistryInv, RegistryTypeOK, WorkStages, OpenStages, Finished, RowsSame
<1>1. q \in Registrations /\ stage[q] \in {"created", "unknown"}
  BY DEF Progress
<1>2. CASE UNCHANGED registryVars
  BY <1>2 DEF registryVars
<1>3. CASE \E slug \in Slugs : CreateTenant(slug) /\ UNCHANGED <<conns, tools, body, stage, inserted>>
  BY <1>3
<1>4. ASSUME NEW r \in Registrations,
             \/ \E slug \in Slugs, names \in Bodies : SendRegistration(r, slug, names)
             \/ Register(r) \/ Fails(r)
      PROVE  RowsSame(q)
  BY <1>1, <1>4 DEF SendRegistration, Register, InsertConnection, InsertTool, InsertRefused,
                    Commit,
                    Fails, RollsBack, Moves
<1>5. QED
  BY <1>2, <1>3, <1>4 DEF RegistryNext

LEMMA CommittedKept ==
    ASSUME RegistryInv, [RegistryNext]_registryVars
    PROVE  Committed'
<1>1. \A q \in conns : Pending(q)' = Pending(q)
  BY CommittedSame, PendingSame DEF RegistryInv, RegistryTypeOK
<1>2. CASE UNCHANGED <<tools, conns>>
  BY <1>1, <1>2 DEF RegistryInv, Committed
<1>3. ASSUME NEW r \in Registrations, Commit(r)
      PROVE  Committed'
  <2>1. Pending(r)' = Pending(r)
    BY <1>3, PendingSame DEF Commit, RowsSame
  <2>2. tools' = tools \cup Pending(r) /\ conns' = conns \cup {r}
    BY <1>3 DEF Commit
  <2>3. UNION {Pending(q)' : q \in conns'} = (UNION {Pending(q) : q \in conns}) \cup Pending(r)
    BY <1>1, <2>1, <2>2
  <2>4. QED BY <2>2, <2>3 DEF RegistryInv, Committed
<1>4. QED
  BY <1>2, <1>3 DEF RegistryNext, registryVars, Register, SendRegistration, InsertConnection,
                    InsertTool, InsertRefused, Fails, RollsBack

\* The rows a transaction may not insert are the ones others hold.
LEMMA NextRowFree ==
    ASSUME RegistryInv, NEW r \in Registrations, InsertTool(r),
           NEW q \in Holding, NEW i \in 1..inserted[q]
    PROVE  ~ SameKey(Row(q, i), NextRow(r)) /\ ~ SameKey(NextRow(r), Row(q, i))
<1>1. Row(q, i) \in Pending(q) /\ q \in Registrations
  BY DEF Pending, Holding
<1>2. CASE q \in conns
  <2>1. Row(q, i) \in tools
    BY <1>1, <1>2 DEF RegistryInv, Committed
  <2>2. QED BY <2>1 DEF InsertTool, Taken, SameKey
<1>3. CASE q = r
  BY <1>1, <1>3 DEF InsertTool, Taken, SameKey
<1>4. CASE q # r /\ stage[q] \in OpenStages
  BY <1>1, <1>4 DEF InsertTool, Blocked, WaitsFor, SameKey
<1>5. QED BY <1>2, <1>3, <1>4 DEF Holding

LEMMA KeysKept ==
    ASSUME RegistryInv, [RegistryNext]_registryVars
    PROVE  KeysHeld'
<1> USE DEF RegistryInv, RegistryTypeOK, WorkStages, OpenStages, Finished
<1>1. ASSUME Holding' \subseteq Holding, \A q \in Holding' : RowsSame(q)
      PROVE  KeysHeld'
  <2>1. \A q \in Holding' : \A i : Row(q, i)' = Row(q, i)
    BY <1>1, PendingSame DEF Holding
  <2>2. QED BY <1>1, <2>1 DEF KeysHeld, RowsSame
<1>2. CASE UNCHANGED <<conns, body, stage, inserted>>
  BY <1>1, <1>2 DEF Holding, RowsSame
<1>3. ASSUME NEW r \in Registrations,
             NEW slug \in Slugs, NEW names \in Bodies, SendRegistration(r, slug, names)
      PROVE  KeysHeld'
  <2>1. r \notin conns
    BY <1>3 DEF SendRegistration, Progress
  <2>2. QED BY <1>1, <1>3, <2>1 DEF SendRegistration, Moves, Holding, RowsSame
<1>4. ASSUME NEW r \in Registrations, InsertConnection(r)
      PROVE  KeysHeld'
  <2>1. Holding' \subseteq Holding \cup {r} /\ \A q \in Registrations : RowsSame(q)
    BY <1>4 DEF InsertConnection, Moves, Holding, RowsSame
  <2>2. inserted[r] = 0
    BY <1>4 DEF InsertConnection, Progress
  <2>3. \A q \in Registrations : \A i : Row(q, i)' = Row(q, i)
    BY <2>1, PendingSame
  <2>4. QED BY <2>1, <2>2, <2>3 DEF KeysHeld, RowsSame, Holding
<1>5. ASSUME NEW r \in Registrations, InsertTool(r)
      PROVE  KeysHeld'
  <2>1. Holding' = Holding /\ r \in Holding /\ body' = body
    BY <1>5 DEF InsertTool, Moves, Holding
  <2>2. \A q \in Registrations : \A i : Row(q, i)' = Row(q, i)
    BY <2>1 DEF Row
  <2>3. /\ inserted[r] \in Nat /\ inserted'[r] = inserted[r] + 1
        /\ \A q \in Registrations \ {r} : inserted'[q] = inserted[q]
    BY <1>5 DEF InsertTool
  <2>4. ASSUME NEW p \in Holding, NEW q \in Holding, NEW i \in 1..inserted'[p],
               NEW j \in 1..inserted'[q], SameKey(Row(p, i), Row(q, j))
        PROVE  p = q /\ i = j
    <3>1. p \in Registrations /\ q \in Registrations
      BY DEF Holding
    <3>2. i \in 1..inserted[p] \/ (p = r /\ Row(p, i) = NextRow(r) /\ i = inserted[r] + 1)
      BY <2>3, <3>1 DEF NextRow
    <3>3. j \in 1..inserted[q] \/ (q = r /\ Row(q, j) = NextRow(r) /\ j = inserted[r] + 1)
      BY <2>3, <3>1 DEF NextRow
    <3>4. QED BY <1>5, <2>4, <3>2, <3>3, NextRowFree DEF KeysHeld
  <2>5. QED BY <2>1, <2>2, <2>4 DEF KeysHeld, SameKey, Holding
<1>6. ASSUME NEW r \in Registrations, InsertRefused(r) \/ Fails(r)
      PROVE  KeysHeld'
  <2>1. r \notin conns
    BY <1>6 DEF InsertRefused, Fails, Progress
  <2>2. Holding' \subseteq Holding \ {r} /\ \A q \in Registrations \ {r} : RowsSame(q)
    BY <1>6, <2>1 DEF InsertRefused, Fails, RollsBack, Moves, Holding, RowsSame
  <2>3. QED BY <1>1, <2>2 DEF Holding
<1>7. ASSUME NEW r \in Registrations, Commit(r)
      PROVE  KeysHeld'
  BY <1>1, <1>7 DEF Commit, Moves, Holding, RowsSame
<1>8. QED
  BY <1>2, <1>3, <1>4, <1>5, <1>6, <1>7 DEF RegistryNext, Register, CreateTenant, registryVars

\* The inductive invariant holds in every state.
THEOREM RegistryInvariance == RegistrySpec => []RegistryInv
<1>1. ASSUME RegistryInv, [RegistryNext]_registryVars PROVE RegistryInv'
  BY <1>1, TypeKept, ProgressKept, CommittedKept, KeysKept DEF RegistryInv
<1>2. QED BY InitHolds, <1>1, PTL DEF RegistrySpec

------------------------------------------------------------------------------
(* Properties *)

LEMMA NamesOnce == RegistryInv => OneToolPerName
<1> SUFFICES ASSUME RegistryInv, NEW t \in tools, NEW u \in tools, t.tenant = u.tenant, t.name = u.name
             PROVE  t = u
  BY DEF OneToolPerName, ListByTenant
<1>1. \E q \in conns : \E i \in 1..inserted[q] : t = Row(q, i)
  BY DEF RegistryInv, Committed, Pending
<1>2. \E r \in conns : \E j \in 1..inserted[r] : u = Row(r, j)
  BY DEF RegistryInv, Committed, Pending
<1>3. QED BY <1>1, <1>2 DEF RegistryInv, RegistryTypeOK, KeysHeld, Holding, SameKey

LEMMA Whole == RegistryInv => WholeConnections
<1> SUFFICES ASSUME RegistryInv, NEW r \in Registrations
             PROVE  /\ {t.name : t \in {u \in tools : u.conn = r}}
                          = IF r \in conns THEN ToSet(body[r].names) ELSE {}
                    /\ stage[r] = "created" => r \in conns
                    /\ stage[r] = "refused" => r \notin conns
  BY DEF WholeConnections
<1>1. /\ stage[r] = "created" => r \in conns
      /\ stage[r] = "refused" => r \notin conns
  BY DEF RegistryInv, Progress
<1>2. {u \in tools : u.conn = r} = IF r \in conns THEN Pending(r) ELSE {}
  BY DEF RegistryInv, Committed, Pending, Row
<1>3. CASE r \in conns
  <2>1. inserted[r] = Len(body[r].names) /\ body[r].names \in Seq(ToolNames)
    BY <1>3, BodyTyped DEF RegistryInv, Progress
  <2>2. \A i : Row(r, i).name = body[r].names[i]
    BY DEF Row
  <2>3. {t.name : t \in Pending(r)} = {body[r].names[i] : i \in 1..Len(body[r].names)}
    BY <2>1, <2>2 DEF Pending
  <2>4. ToSet(body[r].names) = {body[r].names[i] : i \in 1..Len(body[r].names)}
    BY <2>1 DEF ToSet
  <2>5. QED BY <1>1, <1>2, <1>3, <2>3, <2>4
<1>4. CASE r \notin conns
  BY <1>1, <1>2, <1>4
<1>5. QED BY <1>3, <1>4

\* tool_handler.go:72, the unique constraint and its waits: however registrations overlap, a tenant
\* has one tool of a name.
THEOREM UniqueNames == RegistrySpec => []OneToolPerName
BY RegistryInvariance, NamesOnce, PTL

\* CreateConnection, tool_handler.go:46-93: connections are whole, and a client that
\* was answered was told the truth.
THEOREM AllOrNothing == RegistrySpec => []WholeConnections
BY RegistryInvariance, Whole, PTL

------------------------------------------------------------------------------
(* Refinement: the transactions are atomic registrations *)

Told == [r \in Registrations |-> IF stage[r] \in Finished THEN stage[r] ELSE "none"]

\* A step of a transaction that shows nothing outside.
LEMMA Unseen ==
    ASSUME UNCHANGED <<tools, body>>, Told' = Told
    PROVE  [Atomically!AtomicNext]_(Atomically!atomicVars)
BY DEF Atomically!atomicVars, Told

LEMMA ToldBy ==
    ASSUME RegistryInv, NEW r \in Registrations, NEW next, Moves(r, next)
    PROVE  Told' = [Told EXCEPT ![r] = IF next \in Finished THEN next ELSE "none"]
BY DEF RegistryInv, RegistryTypeOK, Moves, Told

LEMMA ToldSame ==
    ASSUME RegistryInv, NEW r \in Registrations, stage[r] \notin Finished,
           NEW next, next \notin Finished, Moves(r, next)
    PROVE  Told' = Told
<1>1. Told' = [Told EXCEPT ![r] = "none"]
  BY ToldBy
<1>2. Told[r] = "none"
  BY DEF Told
<1>3. QED BY <1>1, <1>2 DEF Told

LEMMA RefusedRefuses ==
    ASSUME RegistryInv, NEW r \in Registrations, stage[r] \in WorkStages,
           NEW next \in {"refused", "unknown"}, Moves(r, next), UNCHANGED <<tools, body>>
    PROVE  Atomically!Refuse(r)
<1>1. Told' = [Told EXCEPT ![r] = next]
  BY ToldBy DEF Finished
<1>2. body[r] # NoBody /\ Told[r] = "none"
  BY DEF RegistryInv, Progress, WorkStages, OpenStages, Finished, Told
<1>3. QED BY <1>1, <1>2 DEF Atomically!Refuse, Atomically!Open, Told

LEMMA CommitAccepts ==
    ASSUME RegistryInv, NEW r \in Registrations, Commit(r)
    PROVE  Atomically!Accept(r)
<1> DEFINE names == body[r].names
<1>1. /\ stage[r] = "commit" /\ r \in Holding /\ r \notin conns
      /\ inserted[r] = Len(names) /\ DOMAIN names = 1..inserted[r]
  <2>1. stage[r] = "commit" /\ r \notin conns /\ inserted[r] = Len(names)
    BY DEF RegistryInv, Progress, Commit
  <2>2. names \in Seq(ToolNames)
    BY <2>1, BodyTyped DEF RegistryInv
  <2>3. QED BY <2>1, <2>2 DEF Holding, OpenStages
<1>2. body[r] # NoBody /\ Told[r] = "none"
  BY <1>1 DEF RegistryInv, Progress, Finished, Told
<1>3. \A i \in DOMAIN names : Row(r, i) = [tenant |-> body[r].tenant, name |-> names[i], conn |-> r]
  BY DEF Row
<1>4. ASSUME NEW i \in DOMAIN names, NEW j \in DOMAIN names, names[i] = names[j]
      PROVE  i = j
  BY <1>1, <1>3, <1>4 DEF RegistryInv, KeysHeld, SameKey
<1>5. ASSUME NEW t \in tools, NEW i \in DOMAIN names
      PROVE  ~ (t.tenant = body[r].tenant /\ t.name = names[i])
  <2>1. \E q \in conns : \E j \in 1..inserted[q] : t = Row(q, j)
    BY DEF RegistryInv, Committed, Pending
  <2>2. QED BY <1>1, <1>3, <1>5, <2>1 DEF RegistryInv, RegistryTypeOK, KeysHeld, SameKey, Holding
<1>6. tools' = tools \cup {[tenant |-> body[r].tenant, name |-> names[i], conn |-> r] : i \in DOMAIN names}
  BY <1>1 DEF Commit, Pending, Row
<1>7. \E word \in {"created", "unknown"} : Told' = [Told EXCEPT ![r] = word]
  BY ToldBy DEF Commit, Finished
<1>8. QED
  BY <1>2, <1>4, <1>5, <1>6, <1>7 DEF Commit, Atomically!Accept, Atomically!Open, Told

LEMMA StepIsAtomic ==
    ASSUME RegistryInv, [RegistryNext]_registryVars
    PROVE  [Atomically!AtomicNext]_(Atomically!atomicVars)
<1> USE DEF Finished, WorkStages, OpenStages
<1>1. CASE UNCHANGED registryVars
  BY <1>1, Unseen DEF registryVars, Told
<1>2. CASE \E slug \in Slugs : CreateTenant(slug) /\ UNCHANGED <<conns, tools, body, stage, inserted>>
  BY <1>2, Unseen DEF Told
<1>3. ASSUME NEW r \in Registrations,
             NEW slug \in Slugs, NEW names \in Bodies, SendRegistration(r, slug, names)
      PROVE  Atomically!AtomicNext
  <2>1. Told' = Told
    BY <1>3, ToldSame DEF SendRegistration
  <2>2. body[r] = NoBody
    BY <1>3 DEF SendRegistration, RegistryInv, Progress
  <2>3. Atomically!Ask(r, slug, names)
    BY <1>3, <2>1, <2>2 DEF SendRegistration, Atomically!Ask, Told
  <2>4. QED BY <2>3 DEF Atomically!AtomicNext
<1>4. ASSUME NEW r \in Registrations, InsertConnection(r)
      PROVE  [Atomically!AtomicNext]_(Atomically!atomicVars)
  <2>1. CASE body[r].tenant \in tenants
    <3>1. Moves(r, "insert_tools") /\ stage[r] = "insert_connection"
      BY <1>4, <2>1 DEF InsertConnection
    <3>2. Told' = Told
      BY <3>1, ToldSame
    <3>3. QED BY <1>4, <3>2, Unseen DEF InsertConnection
  <2>2. CASE body[r].tenant \notin tenants
    <3>1. Atomically!Refuse(r)
      BY <1>4, <2>2, RefusedRefuses DEF InsertConnection
    <3>2. QED BY <3>1 DEF Atomically!AtomicNext
  <2>3. QED BY <2>1, <2>2
<1>5. ASSUME NEW r \in Registrations, InsertTool(r)
      PROVE  [Atomically!AtomicNext]_(Atomically!atomicVars)
  <2> DEFINE next == IF inserted[r] + 1 = Len(body[r].names) THEN "commit" ELSE "insert_tools"
  <2>1. stage[r] \notin Finished /\ Moves(r, next) /\ next \notin Finished
    BY <1>5 DEF InsertTool
  <2>2. Told' = Told
    BY <2>1, ToldSame
  <2>3. QED BY <1>5, <2>2, Unseen DEF InsertTool
<1>6. ASSUME NEW r \in Registrations, InsertRefused(r) \/ Fails(r)
      PROVE  Atomically!AtomicNext
  <2>1. Atomically!Refuse(r)
    BY <1>6, RefusedRefuses DEF InsertRefused, Fails, RollsBack
  <2>2. QED BY <2>1 DEF Atomically!AtomicNext
<1>7. ASSUME NEW r \in Registrations, Commit(r)
      PROVE  Atomically!AtomicNext
  BY <1>7, CommitAccepts DEF Atomically!AtomicNext
<1>8. QED
  BY <1>1, <1>2, <1>3, <1>4, <1>5, <1>6, <1>7 DEF RegistryNext, Register

\* CreateConnection, tool_handler.go:51-93: nobody can tell its statements, waits,
\* rollbacks and lost acknowledgements from registrations made in one step.
THEOREM RegistryRefinement == RegistrySpec => ImplementsAtomic
<1>1. RegistryInit => Atomically!AtomicInit
  BY DEF RegistryInit, Atomically!AtomicInit, Finished
<1>2. QED
  BY <1>1, RegistryInvariance, StepIsAtomic, PTL DEF RegistrySpec, ImplementsAtomic,
                                                     Atomically!AtomicSpec

=============================================================================
