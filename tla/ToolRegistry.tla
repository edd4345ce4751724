---------------------------- MODULE ToolRegistry ----------------------------
(***************************************************************************)
(* Tenants and their tools: handlers/tenant_handler.go (Create, GetBySlug) *)
(* and handlers/tool_handler.go (CreateConnection, ListByTenant).          *)
(*                                                                         *)
(* CreateConnection inserts a connection and its tools, one statement      *)
(* each, in one transaction at Postgres' default isolation level.  Rows of *)
(* an open transaction are seen by itself only, but UNIQUE (tenant_id,     *)
(* tool_name) makes an INSERT wait for the open transaction that inserted  *)
(* the same name, and Postgres ends a circle of such waits by failing one  *)
(* of the statements.                                                      *)
(***************************************************************************)
EXTENDS Naturals, Sequences, FiniteSets, SequencesExt

CONSTANTS
    Slugs,          \* slugs of tenants; a tenant is known by its slug
    NoSlug,         \* the tenant of a request not sent yet
    ToolNames,
    Registrations,  \* one-shot identities of CreateConnection requests
    Bodies          \* what they may ask for: sequences of tool names

ASSUME RegistryAssumption == NoSlug \notin Slugs /\ Bodies \subseteq Seq(ToolNames) \ {<<>>}

VARIABLES
    tenants,        \* the tenants table
    conns,          \* committed rows of api_connections, by the request that made them
    tools,          \* committed rows of tools
    body,           \* what each registration asks for
    stage,          \* where its handler stands
    inserted        \* tools its transaction has inserted so far

registryVars == <<tenants, conns, tools, body, stage, inserted>>

------------------------------------------------------------------------------

Tool == [tenant : Slugs, name : ToolNames, conn : Registrations]

NoBody == [tenant |-> NoSlug, names |-> <<>>]

OpenStages == {"insert_tools", "commit"}
WorkStages == {"insert_connection"} \cup OpenStages

\* "created": 201.  "refused": an error, before the commit.  "unknown": an error or
\* nothing at all, although the commit may have happened.
Finished == {"created", "refused", "unknown"}

RegistryTypeOK ==
    /\ tenants \subseteq Slugs
    /\ conns \subseteq Registrations
    /\ tools \subseteq Tool
    /\ body \in [Registrations -> [tenant : Slugs, names : Bodies] \cup {NoBody}]
    /\ stage \in [Registrations -> {"unsent"} \cup WorkStages \cup Finished]
    /\ inserted \in [Registrations -> Nat]

RegistryInit ==
    /\ tenants = {}
    /\ conns = {}
    /\ tools = {}
    /\ body = [r \in Registrations |-> NoBody]
    /\ stage = [r \in Registrations |-> "unsent"]
    /\ inserted = [r \in Registrations |-> 0]

------------------------------------------------------------------------------
(* Tenants *)

\* POST /api/tenants lets one request of several with the same slug through.
CreateTenant(slug) ==
    /\ slug \notin tenants
    /\ tenants' = tenants \cup {slug}

\* GET /api/tenants/:slug
Found(slug) == slug \in tenants

------------------------------------------------------------------------------
(* CreateConnection *)

Row(r, i) == [tenant |-> body[r].tenant, name |-> body[r].names[i], conn |-> r]

\* The rows of the open transaction of r.
Pending(r) == {Row(r, i) : i \in 1..inserted[r]}

NextRow(r) == Row(r, inserted[r] + 1)
SameKey(t, u) == t.tenant = u.tenant /\ t.name = u.name

\* A committed row, or one of its own, has the name already.
Taken(r) == \E t \in tools \cup Pending(r) : SameKey(t, NextRow(r))

\* r waits for the transaction of q to end.
WaitsFor(r, q) ==
    /\ q # r
    /\ stage[r] = "insert_tools" /\ stage[q] \in OpenStages
    /\ ~ Taken(r)
    /\ \E t \in Pending(q) : SameKey(t, NextRow(r))

\* (slip) An INSERT sees committed rows only and never waits.
NeverBlocked(r) == FALSE

Blocked(r) == \E q \in Registrations : WaitsFor(r, q)

\* (slip) Circles are not looked for.
NoDetector(r) == FALSE

\* r is part of a circle of waits.
Deadlocked(r) ==
    \E ring \in SUBSET Registrations :
        /\ r \in ring
        /\ \A q \in ring : (\E p \in ring : WaitsFor(q, p)) /\ (\E p \in ring : WaitsFor(p, q))

Moves(r, next) == stage' = [stage EXCEPT ![r] = next]

\* A request that passed the checks of its body.
SendRegistration(r, slug, names) ==
    /\ stage[r] = "unsent"
    /\ body' = [body EXCEPT ![r] = [tenant |-> slug, names |-> names]]
    /\ Moves(r, "insert_connection")
    /\ UNCHANGED <<tenants, conns, tools, inserted>>

\* The tenant is a foreign key.
InsertConnection(r) ==
    /\ stage[r] = "insert_connection"
    /\ Moves(r, IF body[r].tenant \in tenants THEN "insert_tools" ELSE "refused")
    /\ UNCHANGED <<tenants, conns, tools, body, inserted>>

InsertTool(r) ==
    /\ stage[r] = "insert_tools"
    /\ ~ Taken(r) /\ ~ Blocked(r)
    /\ inserted' = [inserted EXCEPT ![r] = @ + 1]
    /\ Moves(r, IF inserted[r] + 1 = Len(body[r].names) THEN "commit" ELSE "insert_tools")
    /\ UNCHANGED <<tenants, conns, tools, body>>

\* (slip) The tools inserted so far stay, as without a transaction.
KeepsRows(r) ==
    /\ Moves(r, "refused")
    /\ tools' = tools \cup Pending(r)
    /\ UNCHANGED <<tenants, conns, body, inserted>>

\* The deferred Rollback forgets the rows.
RollsBack(r) ==
    /\ Moves(r, "refused")
    /\ inserted' = [inserted EXCEPT ![r] = 0]
    /\ UNCHANGED <<tenants, conns, tools, body>>

\* The name is taken, or Postgres picks this statement to break a circle.
InsertRefused(r) ==
    /\ stage[r] = "insert_tools"
    /\ Taken(r) \/ Deadlocked(r)
    /\ RollsBack(r)

Commit(r) ==
    /\ stage[r] = "commit"
    /\ tools' = tools \cup Pending(r)
    /\ conns' = conns \cup {r}
    /\ Moves(r, "created") \/ Moves(r, "unknown")
    /\ UNCHANGED <<tenants, body, inserted>>

\* A statement fails, or go-engine stops: nothing was committed.  The client is told
\* an error, or nothing.
Fails(r) ==
    /\ stage[r] \in WorkStages
    /\ RollsBack(r) \/ (/\ Moves(r, "unknown")
                        /\ inserted' = [inserted EXCEPT ![r] = 0]
                        /\ UNCHANGED <<tenants, conns, tools, body>>)

\* GET /api/tools?tenant_id=: what the planner offers to the model.
ListByTenant(slug) == {t \in tools : t.tenant = slug}

------------------------------------------------------------------------------

Register(r) == InsertConnection(r) \/ InsertTool(r) \/ InsertRefused(r) \/ Commit(r)

\* The registry for arbitrary clients.
RegistryNext ==
    \/ \E slug \in Slugs : CreateTenant(slug) /\ UNCHANGED <<conns, tools, body, stage, inserted>>
    \/ \E r \in Registrations :
          \/ \E slug \in Slugs, names \in Bodies : SendRegistration(r, slug, names)
          \/ Register(r) \/ Fails(r)

RegistrySpec == RegistryInit /\ [][RegistryNext]_registryVars

------------------------------------------------------------------------------
(* Properties *)

\* _find_tool of the planner looks a tool up by its name alone: a tenant has one
\* tool of a name, whatever registrations commit at the same time.
OneToolPerName ==
    \A slug \in Slugs : \A t, u \in ListByTenant(slug) : t.name = u.name => t = u

\* A connection is there with all of its tools or not at all, and the client that
\* was answered 201 or refused was told the truth.
WholeConnections ==
    \A r \in Registrations :
        /\ {t.name : t \in {u \in tools : u.conn = r}}
              = IF r \in conns THEN ToSet(body[r].names) ELSE {}
        /\ stage[r] = "created" => r \in conns
        /\ stage[r] = "refused" => r \notin conns

\* Every registration ends, also when several wait for each other's names:
\* registrations are one-shot.
RegistrationsEnd == []<>(\A r \in Registrations : stage[r] \notin WorkStages)

\* Readers cannot tell the transactions from atomic registrations: the statements,
\* waits, rollbacks and lost acknowledgements implement AtomicRegistration.
Atomically == INSTANCE AtomicRegistration WITH
                  offered <- tools,
                  asked   <- body,
                  verdict <- [r \in Registrations |->
                                 IF stage[r] \in Finished THEN stage[r] ELSE "none"]

ImplementsAtomic == Atomically!AtomicSpec

------------------------------------------------------------------------------
(* The inductive invariant behind these properties *)

\* Where a handler stands says how far its transaction is.
Progress(r) ==
    /\ stage[r] = "unsent" <=> body[r] = NoBody
    /\ stage[r] \in {"unsent", "insert_connection", "refused"} => inserted[r] = 0
    /\ stage[r] = "insert_tools" => inserted[r] < Len(body[r].names)
    /\ stage[r] = "commit" => inserted[r] = Len(body[r].names)
    /\ r \in conns => stage[r] \in {"created", "unknown"} /\ inserted[r] = Len(body[r].names)
    /\ stage[r] = "created" => r \in conns

\* What is committed are the rows of the connections.
Committed == tools = UNION {Pending(r) : r \in conns}

\* No row of an open or committed transaction has the key of another one.
Holding == {r \in Registrations : stage[r] \in OpenStages \/ r \in conns}

KeysHeld ==
    \A q, r \in Holding : \A i \in 1..inserted[q], j \in 1..inserted[r] :
        SameKey(Row(q, i), Row(r, j)) => q = r /\ i = j

RegistryInv ==
    /\ RegistryTypeOK
    /\ \A r \in Registrations : Progress(r)
    /\ Committed
    /\ KeysHeld

=============================================================================
