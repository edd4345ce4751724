-------------------------- MODULE ConfirmationGate --------------------------
(***************************************************************************)
(* What IntegraDock promises about the calls it makes to a customer's API, *)
(* with nothing about rows, statuses or handlers:                          *)
(*                                                                         *)
(*   - a step names one tool when it is proposed and never another;        *)
(*   - a call is made on behalf of one request about a proposed step;      *)
(*   - one request makes at most one call;                                 *)
(*   - the call of a destructive tool is made only for a request that      *)
(*     carries a human's approval of that very step.                       *)
(*                                                                         *)
(* StepLifecycle implements this specification; its StepAssumption is what *)
(* the constants are assumed to satisfy.                                   *)
(***************************************************************************)
EXTENDS Naturals

CONSTANTS
    Steps,          \* identities of execution steps
    Requests,       \* requests that ask for a step to be carried out
    Tools,          \* what a proposed step may name
    Destructive,    \* the tools whose calls need approval
    NoTool,         \* the tool of a step not proposed yet
    NoStep          \* the step of a request not made yet

VARIABLES
    named,          \* the tool each step names
    asked,          \* the step each request asks for
    approving,      \* the requests that carry an approval
    made            \* the number of calls made for each request

gateVars == <<named, asked, approving, made>>

GateInit ==
    /\ named = [s \in Steps |-> NoTool]
    /\ asked = [r \in Requests |-> NoStep]
    /\ approving = {}
    /\ made = [r \in Requests |-> 0]

\* A step is proposed: it names its tool, once.
Propose(s, t) ==
    /\ named[s] = NoTool
    /\ named' = [named EXCEPT ![s] = t]
    /\ UNCHANGED <<asked, approving, made>>

\* A client asks for a step to be carried out, with or without an approval.
Ask(r, s, approved) ==
    /\ asked[r] = NoStep
    /\ asked' = [asked EXCEPT ![r] = s]
    /\ approving' = IF approved THEN approving \cup {r} ELSE approving
    /\ UNCHANGED <<named, made>>

\* The one call of a request.
Call(r) ==
    /\ asked[r] \in Steps
    /\ named[asked[r]] \in Tools
    /\ named[asked[r]] \in Destructive => r \in approving
    /\ made[r] = 0
    /\ made' = [made EXCEPT ![r] = 1]
    /\ UNCHANGED <<named, asked, approving>>

GateNext ==
    \/ \E s \in Steps, t \in Tools : Propose(s, t)
    \/ \E r \in Requests, s \in Steps, approved \in BOOLEAN : Ask(r, s, approved)
    \/ \E r \in Requests : Call(r)

GateSpec == GateInit /\ [][GateNext]_gateVars

=============================================================================
