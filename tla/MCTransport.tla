---------------------------- MODULE MCTransport ----------------------------
(* Small instances of Transport for TLC. *)
EXTENDS Transport

CONSTANTS front, back,   \* addresses
          esp1, esp2     \* bridges

EachItsOwn == [a \in Names |-> IF a = front THEN esp1 ELSE esp2]
=============================================================================
