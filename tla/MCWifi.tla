------------------------------- MODULE MCWifi -------------------------------
(* Small instances of Wifi for TLC: two networks, two passwords. *)
EXTENDS Wifi

CONSTANTS shop, empty, key, lock

=============================================================================
