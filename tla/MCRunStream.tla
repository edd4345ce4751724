----------------------------- MODULE MCRunStream -----------------------------
(* Small instances of RunStream: PATCH requests and browser tabs. *)
EXTENDS RunStream

CONSTANTS patch1, patch2, tab

=============================================================================
