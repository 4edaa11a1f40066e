------------------------------- MODULE MCRestCalls -------------------------------
(* Two calls that may name one key, three attempts, two polls. *)
EXTENDS RestCalls
=============================================================================
