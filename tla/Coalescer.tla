----------------------------- MODULE Coalescer -----------------------------
(***************************************************************************)
(* What the push queue promises its callers (queue.go:19-21, 51-52): one   *)
(* delivery at a time, and at most one waiting request per tag, the latest *)
(* one.  Nothing is said about the order in which waiting tags are served, *)
(* only that none of them is passed over for ever.                         *)
(***************************************************************************)
CONSTANTS MACs,       \* the tags
          Bindings,   \* what a request asks a tag to show
          None        \* no request

VARIABLES waiting,    \* the latest request of each tag that waits, or None
          job         \* the delivery in progress, or None

vars == <<waiting, job>>

Job == [mac : MACs, binding : Bindings]

TypeOK ==
  /\ waiting \in [MACs -> Bindings \cup {None}]
  /\ job \in Job \cup {None}

Init ==
  /\ waiting = [m \in MACs |-> None]
  /\ job = None

(* A request replaces the one its tag may already have waiting. *)
Request(m, b) ==
  /\ waiting' = [waiting EXCEPT ![m] = b]
  /\ UNCHANGED job

(* The radio is free, and a waiting tag gets it. *)
Start(m) ==
  /\ job = None
  /\ waiting[m] # None
  /\ job' = [mac |-> m, binding |-> waiting[m]]
  /\ waiting' = [waiting EXCEPT ![m] = None]

(* The delivery ends, well or badly. *)
Finish ==
  /\ job # None
  /\ job' = None
  /\ UNCHANGED waiting

Next ==
  \/ \E m \in MACs, b \in Bindings : Request(m, b)
  \/ \E m \in MACs : Start(m)
  \/ Finish

SafeSpec == Init /\ [][Next]_vars

Spec ==
  /\ SafeSpec
  /\ WF_vars(Finish)
  /\ \A m \in MACs : SF_vars(Start(m))
=============================================================================
