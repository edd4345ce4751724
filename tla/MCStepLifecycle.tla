--------------------------- MODULE MCStepLifecycle ---------------------------
(* Small instances of StepLifecycle. *)
EXTENDS StepLifecycle, TLC

CONSTANTS a, b, u, v, w


\* Requests and steps are only compared with each other, so their names may be
\* exchanged.  Used for safety only.
MCSymmetry == Permutations({u, v, w}) \cup Permutations({a, b})

=============================================================================
