----------------------------- MODULE MCBlePush -----------------------------
(* Small instances of BlePush for TLC. *)
EXTENDS BlePush

CONSTANTS shelf, bar    \* tags

=============================================================================
