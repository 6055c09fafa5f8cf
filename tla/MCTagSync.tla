----------------------------- MODULE MCTagSync -----------------------------
(* Small instances of TagSync for TLC. *)
EXTENDS TagSync

CONSTANTS shelf, bar,      \* tags
          coffee, tea,     \* items
          h1, h2           \* handlers

=============================================================================
