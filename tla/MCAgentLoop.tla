----------------------------- MODULE MCAgentLoop -----------------------------
(* Small instances of AgentLoop. *)
EXTENDS AgentLoop, TLC

CONSTANTS a, b, c

\* The database may give a new step any unused id.
MCSymmetry == Permutations({a, b, c})

=============================================================================
