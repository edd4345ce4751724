-------------------------------- MODULE Seed --------------------------------
(***************************************************************************)
(* go-engine/cmd/seed: the command that creates the demo tenant and        *)
(* registers its two connections, run by hand, perhaps several times,      *)
(* while others register connections of their own (ToolUploader).          *)
(*                                                                         *)
(* The command is sequential and stops at its first error.                 *)
(***************************************************************************)
EXTENDS ToolRegistry

CONSTANTS
    Seeds,          \* one-shot identities of runs of the command
    DemoSlug,       \* demoTenantSlug
    MockBody,       \* the tools parsed from mock-api/openapi.yaml
    StripeBody,     \* the hand-written tools
    NoRegistration, \* a seed that awaits no registration
    MaxTroubles     \* bound: failures of whatever kind

ASSUME SeedAssumption ==
    /\ DemoSlug \in Slugs
    /\ {MockBody, StripeBody} \subseteq Bodies
    /\ NoRegistration \notin Registrations
    /\ MaxTroubles \in Nat

VARIABLES
    seed,           \* where each run of the command stands
    awaited,        \* the registration it awaits
    troubles,       \* failures so far
    disturbed       \* history: runs during which something failed

seedVars == <<seed, awaited, troubles, disturbed>>
allVars == <<registryVars, seedVars>>

SeedStages == {"get_tenant", "post_tenant", "register_mock", "await_mock",
               "register_stripe", "await_stripe"}

SeedTypeOK ==
    /\ RegistryTypeOK
    /\ seed \in [Seeds -> {"idle", "done", "fatal"} \cup SeedStages]
    /\ awaited \in [Seeds -> Registrations \cup {NoRegistration}]
    /\ troubles \in 0..MaxTroubles
    /\ disturbed \subseteq Seeds

SeedInit ==
    /\ RegistryInit
    /\ seed = [s \in Seeds |-> "idle"]
    /\ awaited = [s \in Seeds |-> NoRegistration]
    /\ troubles = 0
    /\ disturbed = {}

------------------------------------------------------------------------------

Running == {s \in Seeds : seed[s] \in SeedStages}

\* Something fails: every run of the command in progress is disturbed.
Trouble ==
    /\ troubles < MaxTroubles
    /\ troubles' = troubles + 1
    /\ disturbed' = disturbed \cup Running

Smooth == UNCHANGED <<troubles, disturbed>>

GoesTo(s, next) == seed' = [seed EXCEPT ![s] = next]

UnsentRegistrations == {r \in Registrations : stage[r] = "unsent"}
FreshRegistration == CHOOSE r \in UnsentRegistrations : TRUE

\* Bounds: the command is not run twice at once, and only while there are
\* registrations left for it.
Start(s) ==
    /\ seed[s] = "idle"
    /\ Running = {} /\ Cardinality(UnsentRegistrations) >= 2
    /\ GoesTo(s, "get_tenant")
    /\ UNCHANGED <<registryVars, awaited, troubles, disturbed>>

\* ensureTenant, first half.  A failed GET counts as "no such tenant".
GetTenant(s) ==
    /\ seed[s] = "get_tenant"
    /\ \/ GoesTo(s, IF Found(DemoSlug) THEN "register_mock" ELSE "post_tenant") /\ Smooth
       \/ GoesTo(s, "post_tenant") /\ Trouble
    /\ UNCHANGED <<registryVars, awaited>>

\* ensureTenant, second half.  The tenant may be there and the answer lost.
PostTenant(s) ==
    /\ seed[s] = "post_tenant"
    /\ \/ CreateTenant(DemoSlug) /\ GoesTo(s, "register_mock") /\ Smooth
       \/ CreateTenant(DemoSlug) /\ GoesTo(s, "fatal") /\ Trouble
       \/ DemoSlug \in tenants /\ GoesTo(s, "fatal") /\ Smooth /\ UNCHANGED tenants
    /\ UNCHANGED <<conns, tools, body, stage, inserted, awaited>>

\* forwardConnectionToGoEngine sends its request.
Forwards(s, names, next) ==
    /\ UnsentRegistrations # {}
    /\ SendRegistration(FreshRegistration, DemoSlug, names)
    /\ awaited' = [awaited EXCEPT ![s] = FreshRegistration]
    /\ GoesTo(s, next)
    /\ Smooth

\* registerMockAPI has py-planner parse the document first.
RegisterMock(s) ==
    /\ seed[s] = "register_mock"
    /\ \/ Forwards(s, MockBody, "await_mock")
       \/ GoesTo(s, "fatal") /\ Trouble /\ UNCHANGED <<registryVars, awaited>>

RegisterStripe(s) ==
    /\ seed[s] = "register_stripe"
    /\ Forwards(s, StripeBody, "await_stripe")

\* (slip) An error of the registration is printed and the command goes on.
ErrorIgnored(s, next) == next

\* (slip) Only a 201 ends the wait.
WaitsForCreated(s, next) == IF stage[awaited[s]] = "created" THEN next ELSE seed[s]

\* (slip) An outcome without a name.
OrError(s, next) == IF stage[awaited[s]] = "created" THEN next ELSE "error"

\* log.Fatalf unless go-engine answered 201.
OrFatal(s, next) == IF stage[awaited[s]] = "created" THEN next ELSE "fatal"

Registered(s) ==
    /\ \/ seed[s] = "await_mock" /\ GoesTo(s, OrFatal(s, "register_stripe"))
       \/ seed[s] = "await_stripe" /\ GoesTo(s, OrFatal(s, "done"))
    /\ stage[awaited[s]] \in Finished
    /\ UNCHANGED <<registryVars, awaited, troubles, disturbed>>

\* The command is interrupted; what it asked for goes on.
Interrupted(s) ==
    /\ seed[s] \in SeedStages
    /\ GoesTo(s, "fatal") /\ Trouble
    /\ UNCHANGED <<registryVars, awaited>>

SeedStep(s) ==
    \/ GetTenant(s) \/ PostTenant(s)
    \/ RegisterMock(s) \/ RegisterStripe(s) \/ Registered(s)

\* A user of ToolUploader registers an API of his own for a tenant.  Bound: two
\* registrations are left for a run of the command in progress.
Upload(slug, names) ==
    /\ Cardinality(UnsentRegistrations) > (IF Running = {} THEN 0 ELSE 2)
    /\ SendRegistration(FreshRegistration, slug, names)
    /\ UNCHANGED seedVars

Engine(r) ==
    \/ Register(r) /\ (IF stage'[r] = "unknown" THEN Trouble ELSE Smooth)
    \/ Fails(r) /\ Trouble

SeedNext ==
    \/ \E s \in Seeds : Start(s) \/ SeedStep(s) \/ Interrupted(s)
    \/ \E slug \in Slugs, names \in Bodies \ {MockBody, StripeBody} : Upload(slug, names)
    \/ \E r \in Registrations : Engine(r) /\ UNCHANGED <<seed, awaited>>

SeedSpec == SeedInit /\ [][SeedNext]_allVars

\* go-engine, its database and the command go on; nobody has to start anything.
SeedFairness ==
    /\ \A r \in Registrations : WF_allVars(Register(r) /\ Engine(r) /\ UNCHANGED <<seed, awaited>>)
    /\ \A s \in Seeds : WF_allVars(SeedStep(s))

FairSeedSpec == SeedSpec /\ SeedFairness

------------------------------------------------------------------------------
(* Properties *)

Complete(names) ==
    \E r \in conns :
        /\ body[r] = [tenant |-> DemoSlug, names |-> names]
        /\ ToSet(names) \subseteq {t.name : t \in {u \in tools : u.conn = r}}

\* The command says "done" only when both connections are there with all their
\* tools, whatever failed before, and stops by itself.
DoneIsComplete ==
    (\E s \in Seeds : seed[s] = "done") => Complete(MockBody) /\ Complete(StripeBody)

\* The command comes to its end, whatever fails; its runs are one-shot.
SeedsEnd == []<>(Running = {})

------------------------------------------------------------------------------
(* The inductive invariant behind them *)

\* What a run of the command has in hand, by the place it has reached.
Awaits(s, names) ==
    /\ awaited[s] \in Registrations
    /\ stage[awaited[s]] # "unsent"
    /\ body[awaited[s]] = [tenant |-> DemoSlug, names |-> names]

Evidence(s) ==
    /\ seed[s] = "await_mock" => Awaits(s, MockBody)
    /\ seed[s] = "await_stripe" => Awaits(s, StripeBody)
    /\ seed[s] \in {"register_stripe", "await_stripe", "done"} => Complete(MockBody)
    /\ seed[s] = "done" => Complete(StripeBody)

SeedInv ==
    /\ RegistryInv
    /\ SeedTypeOK
    /\ \A s \in Seeds : Evidence(s)

------------------------------------------------------------------------------
(* What comments of the code say of it, and it does not do *)

\* main.go:68 has the tenant looked up first so that re-running seed is idempotent:
\* a run in which nothing fails and nobody else registers anything would not
\* end with an error.
RerunIsIdempotent ==
    (\A r \in Registrations : stage[r] # "unsent" => body[r].names \in {MockBody, StripeBody})
        => \A s \in Seeds \ disturbed : seed[s] # "fatal"

=============================================================================
