----------------------------- MODULE ChangeFeed -----------------------------
(***************************************************************************)
(* What the poller promises the rest of the service (poller.go:12, 48-55): *)
(* every change in the catalog is reported by the first poll that begins   *)
(* after it and succeeds; an edit that comes while a poll runs counts for  *)
(* the next one.  An item that is taken out of the catalog under a poll    *)
(* may cost the report of one other.                                       *)
(***************************************************************************)
CONSTANT Items

VARIABLES listed,    \* the items of the catalog
          pending,   \* those with a change not yet reported
          due        \* those the poll under way has to report

vars == <<listed, pending, due>>

TypeOK ==
  /\ listed \subseteq Items
  /\ pending \subseteq listed
  /\ due \subseteq pending

Init ==
  /\ listed \subseteq Items
  /\ pending = {}
  /\ due = {}

(* An item is added or edited. *)
Edit(i) ==
  /\ listed' = listed \cup {i}
  /\ pending' = pending \cup {i}
  /\ due' = due \ {i}

Remove(i) ==
  /\ i \in listed
  /\ listed' = listed \ {i}
  /\ \E lost \in {i} \cup due :
       /\ pending' = pending \ {i, lost}
       /\ due' = due \ {i, lost}

Begin ==
  /\ due = {}
  /\ due' = pending
  /\ UNCHANGED <<listed, pending>>

(* The poll reports all that was due. *)
Report ==
  /\ pending' = pending \ due
  /\ due' = {}
  /\ UNCHANGED listed

Fail ==
  /\ due' = {}
  /\ UNCHANGED <<listed, pending>>

Next ==
  \/ \E i \in Items : Edit(i) \/ Remove(i)
  \/ Begin \/ Report \/ Fail

Spec == Init /\ [][Next]_vars
=============================================================================
