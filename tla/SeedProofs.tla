----------------------------- MODULE SeedProofs -----------------------------
(***************************************************************************)
(* Theorems about Seed, for any number of runs of the command,             *)
(* registrations, uploads and failures: the command is one more client of  *)
(* the registry, so that what ToolRegistryProofs shows holds of it, and    *)
(* "done" means that both connections are there with all their tools.      *)
(***************************************************************************)
EXTENDS Seed, ToolRegistryProofs, FiniteSetTheorems

------------------------------------------------------------------------------
(* The command is a client of the registry *)

LEMMA FreshIsUnsent ==
    ASSUME UnsentRegistrations # {}
    PROVE  FreshRegistration \in Registrations /\ stage[FreshRegistration] = "unsent"
<1>1. FreshRegistration \in UnsentRegistrations
  BY Zenon DEF FreshRegistration
<1>2. QED BY <1>1 DEF UnsentRegistrations

LEMMA UploadSends ==
    ASSUME NEW slug \in Slugs, NEW names \in Bodies, Upload(slug, names)
    PROVE  UnsentRegistrations # {}
<1>1. Cardinality({}) = 0
  BY FS_EmptySet
<1>2. QED BY <1>1 DEF Upload

LEMMA Sends ==
    ASSUME UnsentRegistrations # {}, NEW slug \in Slugs, NEW names \in Bodies,
           SendRegistration(FreshRegistration, slug, names)
    PROVE  RegistryNext
BY FreshIsUnsent DEF RegistryNext

LEMMA StepOfRegistry ==
    ASSUME [SeedNext]_allVars
    PROVE  [RegistryNext]_registryVars
<1> USE SeedAssumption
<1>1. CASE UNCHANGED allVars
  BY <1>1 DEF allVars
<1>2. ASSUME NEW s \in Seeds, Start(s) \/ GetTenant(s) \/ Registered(s) \/ Interrupted(s)
      PROVE  UNCHANGED registryVars
  BY <1>2 DEF Start, GetTenant, Registered, Interrupted
<1>3. ASSUME NEW s \in Seeds, PostTenant(s)
      PROVE  [RegistryNext]_registryVars
  BY <1>3 DEF PostTenant, RegistryNext, registryVars
<1>4. ASSUME NEW s \in Seeds, RegisterMock(s) \/ RegisterStripe(s)
      PROVE  [RegistryNext]_registryVars
  BY <1>4, Sends DEF RegisterMock, RegisterStripe, Forwards
<1>5. ASSUME NEW slug \in Slugs, NEW names \in Bodies, Upload(slug, names)
      PROVE  RegistryNext
  BY <1>5, UploadSends, Sends DEF Upload
<1>6. ASSUME NEW r \in Registrations, Engine(r)
      PROVE  RegistryNext
  BY <1>6 DEF Engine, RegistryNext
<1>7. QED
  BY <1>1, <1>2, <1>3, <1>4, <1>5, <1>6 DEF SeedNext, SeedStep

\* main.go:110-249: whatever the command and its users do to the registry, any client
\* might have done.
THEOREM SeedIsClient == SeedSpec => RegistrySpec
<1>1. SeedInit => RegistryInit
  BY DEF SeedInit
<1>2. QED BY <1>1, StepOfRegistry, PTL DEF SeedSpec, RegistrySpec

------------------------------------------------------------------------------
(* What a run of the command has in hand *)

LEMMA TypesKept ==
    ASSUME SeedInv, RegistryTypeOK', [SeedNext]_allVars
    PROVE  SeedTypeOK'
<1> USE DEF SeedInv, SeedTypeOK, SeedStages, Trouble, Smooth, GoesTo, Running
<1>1. CASE UNCHANGED allVars
  BY <1>1 DEF allVars, seedVars
<1>2. ASSUME NEW s \in Seeds, Start(s)
      PROVE  SeedTypeOK'
  BY <1>2 DEF Start
<1>3. ASSUME NEW s \in Seeds, GetTenant(s) \/ PostTenant(s)
      PROVE  SeedTypeOK'
  BY <1>3, SeedAssumption DEF GetTenant, PostTenant
<1>4. ASSUME NEW s \in Seeds, RegisterMock(s)
      PROVE  SeedTypeOK'
  BY <1>4, FreshIsUnsent, SeedAssumption DEF RegisterMock, Forwards
<1>5. ASSUME NEW s \in Seeds, RegisterStripe(s)
      PROVE  SeedTypeOK'
  BY <1>5, FreshIsUnsent DEF RegisterStripe, Forwards
<1>6. ASSUME NEW s \in Seeds, Registered(s)
      PROVE  SeedTypeOK'
  BY <1>6 DEF Registered, OrFatal
<1>7. ASSUME NEW s \in Seeds, Interrupted(s)
      PROVE  SeedTypeOK'
  BY <1>7, SeedAssumption DEF Interrupted
<1>8. ASSUME NEW slug \in Slugs, NEW names \in Bodies, Upload(slug, names)
      PROVE  SeedTypeOK'
  BY <1>8 DEF Upload, seedVars
<1>9. ASSUME NEW r \in Registrations, Engine(r), UNCHANGED <<seed, awaited>>
      PROVE  SeedTypeOK'
  BY <1>9, SeedAssumption DEF Engine
<1>10. QED
  BY <1>1, <1>2, <1>3, <1>4, <1>5, <1>6, <1>7, <1>8, <1>9 DEF SeedNext, SeedStep

\* A request that was sent stays what it is.
LEMMA SentStays ==
    ASSUME [RegistryNext]_registryVars, RegistryTypeOK, NEW q \in Registrations, stage[q] # "unsent"
    PROVE  stage'[q] # "unsent" /\ body'[q] = body[q]
<1> USE DEF RegistryTypeOK, Moves
<1>1. CASE UNCHANGED registryVars
  BY <1>1 DEF registryVars
<1>2. CASE \E slug \in Slugs : CreateTenant(slug) /\ UNCHANGED <<conns, tools, body, stage, inserted>>
  BY <1>2
<1>3. ASSUME NEW r \in Registrations,
             \/ \E slug \in Slugs, names \in Bodies : SendRegistration(r, slug, names)
             \/ Register(r) \/ Fails(r)
      PROVE  stage'[q] # "unsent" /\ body'[q] = body[q]
  BY <1>3 DEF SendRegistration, Register, InsertConnection, InsertTool, InsertRefused, Commit,
              Fails, RollsBack
<1>4. QED BY <1>1, <1>2, <1>3 DEF RegistryNext

\* Committed connections and tools are there for good.
LEMMA CompleteStays ==
    ASSUME RegistryInv, [RegistryNext]_registryVars, NEW names, Complete(names)
    PROVE  Complete(names)'
<1>1. conns \subseteq conns' /\ tools \subseteq tools'
  BY DEF RegistryNext, registryVars, Register, SendRegistration, InsertConnection, InsertTool,
         InsertRefused, Commit, Fails, RollsBack
<1>2. PICK r \in conns : /\ body[r] = [tenant |-> DemoSlug, names |-> names]
                         /\ ToSet(names) \subseteq {t.name : t \in {u \in tools : u.conn = r}}
  BY DEF Complete
<1>3. body'[r] = body[r]
  BY <1>2, CommittedSame DEF RowsSame
<1>4. {t.name : t \in {u \in tools : u.conn = r}} \subseteq {t.name : t \in {u \in tools' : u.conn = r}}
  BY <1>1
<1>5. QED BY <1>1, <1>2, <1>3, <1>4 DEF Complete

LEMMA CreatedIsComplete ==
    ASSUME RegistryInv, NEW s \in Seeds, NEW names, Awaits(s, names), stage[awaited[s]] = "created"
    PROVE  Complete(names)
<1>1. WholeConnections
  BY Whole
<1>2. awaited[s] \in conns
  BY <1>1 DEF WholeConnections, Awaits
<1>3. QED BY <1>1, <1>2 DEF WholeConnections, Awaits, Complete

LEMMA EvidenceKept ==
    ASSUME SeedInv, [SeedNext]_allVars, NEW q \in Seeds
    PROVE  Evidence(q)'
<1>1. RegistryInv /\ RegistryTypeOK /\ Evidence(q) /\ [RegistryNext]_registryVars
  BY StepOfRegistry DEF SeedInv, RegistryInv
<1>2. \A names : Complete(names) => Complete(names)'
  BY <1>1, CompleteStays
<1>3. ASSUME seed'[q] = seed[q], awaited'[q] = awaited[q]
      PROVE  Evidence(q)'
  <2>1. \A names : Awaits(q, names) => Awaits(q, names)'
    BY <1>1, <1>3, SentStays DEF Awaits
  <2>2. QED BY <1>1, <1>2, <1>3, <2>1 DEF Evidence
<1>4. ASSUME seed'[q] \notin {"await_mock", "register_stripe", "await_stripe", "done"}
      PROVE  Evidence(q)'
  BY <1>4 DEF Evidence
<1> USE DEF GoesTo
<1>5. CASE UNCHANGED <<seed, awaited>>
  BY <1>3, <1>5
<1>6. ASSUME NEW s \in Seeds, Start(s) \/ GetTenant(s) \/ PostTenant(s) \/ Interrupted(s)
      PROVE  Evidence(q)'
  BY <1>3, <1>4, <1>6 DEF Start, GetTenant, PostTenant, Interrupted, SeedInv, SeedTypeOK
<1>7. ASSUME NEW s \in Seeds, NEW names \in Bodies, NEW next, Forwards(s, names, next)
      PROVE  /\ q # s => seed'[q] = seed[q] /\ awaited'[q] = awaited[q]
             /\ q = s => seed'[q] = next /\ Awaits(q, names)'
  <2>1. FreshRegistration \in Registrations /\ stage[FreshRegistration] = "unsent"
    BY <1>7, FreshIsUnsent DEF Forwards
  <2>2. /\ body'[FreshRegistration] = [tenant |-> DemoSlug, names |-> names]
        /\ stage'[FreshRegistration] = "insert_connection"
    BY <1>1, <1>7, <2>1 DEF Forwards, SendRegistration, Moves, RegistryTypeOK
  <2>3. QED BY <1>7, <2>1, <2>2 DEF Forwards, Awaits, SeedInv, SeedTypeOK
<1>8. ASSUME NEW s \in Seeds, RegisterMock(s)
      PROVE  Evidence(q)'
  <2>1. CASE Forwards(s, MockBody, "await_mock")
    BY <1>3, <1>7, <2>1, SeedAssumption DEF Evidence
  <2>2. CASE GoesTo(s, "fatal") /\ UNCHANGED awaited
    BY <1>3, <1>4, <2>2 DEF SeedInv, SeedTypeOK
  <2>3. QED BY <1>8, <2>1, <2>2 DEF RegisterMock
<1>9. ASSUME NEW s \in Seeds, RegisterStripe(s)
      PROVE  Evidence(q)'
  <2>1. Forwards(s, StripeBody, "await_stripe") /\ seed[s] = "register_stripe"
    BY <1>9 DEF RegisterStripe
  <2>2. QED BY <1>1, <1>2, <1>3, <1>7, <2>1, SeedAssumption DEF Evidence
<1>10. ASSUME NEW s \in Seeds, Registered(s)
       PROVE  Evidence(q)'
  <2>1. CASE q # s
    BY <1>3, <1>10, <2>1 DEF Registered, SeedInv, SeedTypeOK
  <2>2. CASE q = s /\ stage[awaited[s]] # "created"
    BY <1>4, <1>10, <2>2 DEF Registered, OrFatal, SeedInv, SeedTypeOK
  <2>3. CASE q = s /\ stage[awaited[s]] = "created"
    <3>1. \/ seed[q] = "await_mock" /\ seed'[q] = "register_stripe" /\ Complete(MockBody)'
          \/ seed[q] = "await_stripe" /\ seed'[q] = "done" /\ Complete(MockBody)' /\ Complete(StripeBody)'
      BY <1>1, <1>2, <1>10, <2>3, CreatedIsComplete DEF Registered, OrFatal, Evidence, SeedInv,
         SeedTypeOK
    <3>2. QED BY <3>1 DEF Evidence
  <2>4. QED BY <2>1, <2>2, <2>3
<1>11. QED
  BY <1>5, <1>6, <1>8, <1>9, <1>10 DEF SeedNext, SeedStep, Upload, allVars, seedVars

LEMMA SeedInitHolds == SeedInit => SeedInv
<1> SUFFICES ASSUME SeedInit PROVE SeedInv
  OBVIOUS
<1>1. RegistryInv
  BY InitHolds DEF SeedInit
<1>2. SeedTypeOK
  BY <1>1, SeedAssumption DEF SeedInit, SeedTypeOK, RegistryInv
<1>3. \A s \in Seeds : Evidence(s)
  BY DEF SeedInit, Evidence
<1>4. QED BY <1>1, <1>2, <1>3 DEF SeedInv

\* The inductive invariant holds in every state.
THEOREM SeedInvariance == SeedSpec => []SeedInv
<1>1. ASSUME SeedInv, [SeedNext]_allVars PROVE SeedInv'
  <2>1. RegistryInv'
    BY <1>1, StepOfRegistry, TypeKept, ProgressKept, CommittedKept, KeysKept DEF SeedInv,
       RegistryInv
  <2>2. QED BY <1>1, <2>1, TypesKept, EvidenceKept DEF SeedInv, RegistryInv
<1>2. QED BY SeedInitHolds, <1>1, PTL DEF SeedSpec

------------------------------------------------------------------------------
(* Properties *)

\* The runs of the command, the registrations and the failures are well typed.
THEOREM SeedTypes == SeedSpec => []SeedTypeOK
<1>1. SeedInv => SeedTypeOK
  BY DEF SeedInv
<1>2. QED BY <1>1, SeedInvariance, PTL

\* main.go:43-63: a run of the command ends with "done" only if both connections of
\* the demo tenant are there with all their tools, whatever failed or was repeated.
THEOREM DoneMeansComplete == SeedSpec => []DoneIsComplete
<1>1. SeedInv => DoneIsComplete
  BY DEF SeedInv, Evidence, DoneIsComplete
<1>2. QED BY <1>1, SeedInvariance, PTL

=============================================================================
