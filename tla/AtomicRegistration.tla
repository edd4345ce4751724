------------------------- MODULE AtomicRegistration -------------------------
(***************************************************************************)
(* What the tool registry promises, with nothing about statements, locks   *)
(* or transactions: a registration is accepted or refused in one step, its *)
(* tools are offered all at once, and only if no tool offered to the same  *)
(* tenant has one of their names.  A verdict is final.  A client that is   *)
(* told "created" or "refused" is told the truth; one that is told nothing *)
(* certain ("unknown") may find either.                                    *)
(***************************************************************************)
EXTENDS Sequences

CONSTANTS
    Slugs,          \* tenants
    Registrations,  \* identities of registrations
    Bodies,         \* sequences of tool names that may be registered
    NoBody          \* what a registration not made yet asks for

VARIABLES
    offered,        \* the tools offered: tenant, name and the registration they are of
    asked,          \* what each registration asks for
    verdict         \* what its client was told

atomicVars == <<offered, asked, verdict>>

AtomicInit ==
    /\ offered = {}
    /\ asked = [r \in Registrations |-> NoBody]
    /\ verdict = [r \in Registrations |-> "none"]

Ask(r, slug, names) ==
    /\ asked[r] = NoBody
    /\ asked' = [asked EXCEPT ![r] = [tenant |-> slug, names |-> names]]
    /\ UNCHANGED <<offered, verdict>>

Open(r) == asked[r] # NoBody /\ verdict[r] = "none"

Accept(r) ==
    LET names == asked[r].names
    IN  /\ Open(r)
        /\ \A i, j \in DOMAIN names : names[i] = names[j] => i = j
        /\ \A t \in offered, i \in DOMAIN names :
              ~ (t.tenant = asked[r].tenant /\ t.name = names[i])
        /\ offered' = offered \cup
              {[tenant |-> asked[r].tenant, name |-> names[i], conn |-> r] : i \in DOMAIN names}
        /\ \E word \in {"created", "unknown"} : verdict' = [verdict EXCEPT ![r] = word]
        /\ UNCHANGED asked

Refuse(r) ==
    /\ Open(r)
    /\ \E word \in {"refused", "unknown"} : verdict' = [verdict EXCEPT ![r] = word]
    /\ UNCHANGED <<offered, asked>>

AtomicNext ==
    \E r \in Registrations :
        \/ \E slug \in Slugs, names \in Bodies : Ask(r, slug, names)
        \/ Accept(r) \/ Refuse(r)

AtomicSpec == AtomicInit /\ [][AtomicNext]_atomicVars

=============================================================================
