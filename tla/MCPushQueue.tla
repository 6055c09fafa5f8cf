---------------------------- MODULE MCPushQueue ----------------------------
(* Small instances of PushQueue for TLC.  Its state is finite, so no bound *)
(* beyond the constants is needed.                                         *)
EXTENDS PushQueue

CONSTANTS kitchen, bar,          \* tags
          soup, stew,            \* bindings
          http, poller           \* goroutines that enqueue

=============================================================================
