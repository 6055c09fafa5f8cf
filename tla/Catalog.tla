------------------------------ MODULE Catalog ------------------------------
(***************************************************************************)
(* How the poller learns of the merchant's changes: the Clover client,     *)
(* which reads the catalog page by page by offset and tries a request      *)
(* again when it is told to wait (clover.go), and the poller, which asks   *)
(* for what was modified since its last poll, less an overlap, by the      *)
(* service's clock (poller.go).  The merchant goes on editing between any  *)
(* two requests.  TagSync takes both calls for one step each; this module  *)
(* is about what happens inside them.                                      *)
(*                                                                         *)
(* Items are numbers, and Clover lists them in that order, whatever their  *)
(* modification times: a new item may enter anywhere.  A request is        *)
(* answered in one instant; time passes between requests.                  *)
(***************************************************************************)
EXTENDS Integers, FiniteSets

CONSTANTS Items,
          PageLimit,     \* pageLimit, 100 in the code
          Overlap,       \* the overlap of two polls, 30 s
          MaxAttempts,   \* how often a request is sent, 6
          MaxDelay,      \* the longest delay of its own between them, 30 s
          RetryAfters,   \* the delays Clover asks for
          Lag,           \* how far Clover's clock is behind the service's
          Slowest,       \* the longest a call takes, all its requests included
          MaxTime        \* bound: the clock

ASSUME CatalogAssumption ==
  /\ Items \subseteq Int /\ IsFiniteSet(Items)
  /\ PageLimit \in Nat \ {0} /\ MaxAttempts \in Nat \ {0}
  /\ Overlap \in Nat /\ MaxDelay \in Nat /\ Lag \in Int
  /\ Slowest \in Nat /\ MaxTime \in Nat

(* What the overlap has to make up for. *)
Roomy == Slowest + Lag <= Overlap

VARIABLES
  now,                       \* the service's clock
  listed, hidden, modified,  \* the catalog: its items, and their modifiedTime
  at,                        \* the call under way, or "wait"
  begun,                     \* when it began
  offset, attempt,           \* of the request under way
  notBefore,                 \* the end of the delay before that request
  out,                       \* what the call has collected
  lastPoll,
  cache,                     \* the items in Cache.byID
  pending,                   \* history: items with a change not yet reported
  due                        \* history: items the call under way must return

shop == <<listed, hidden, modified>>
call == <<at, begun, offset, attempt, notBefore, out>>
vars == <<now, shop, call, lastPoll, cache, pending, due>>

TypeOK ==
  /\ now \in 0 .. MaxTime
  /\ listed \subseteq Items /\ hidden \subseteq listed
  /\ modified \in [Items -> Int]
  /\ at \in {"boot", "wait", "changes", "list"}
  /\ begun \in 0 .. now
  /\ offset \in Nat
  /\ attempt \in 1 .. MaxAttempts
  /\ notBefore \in Nat
  /\ out \subseteq Items /\ cache \subseteq Items
  /\ lastPoll \in 0 .. now
  /\ pending \subseteq listed /\ due \subseteq listed

(* Every call starts with the first page, and leaves nothing behind. *)
CallAt(place, time) ==
  /\ at' = place
  /\ begun' = time /\ notBefore' = time
  /\ offset' = 0 /\ attempt' = 1
  /\ out' = {}
Call(place) == CallAt(place, now)
Return == CallAt("wait", 0) /\ due' = {}

(* Run begins with a List; nothing has changed since then. *)
Init ==
  /\ now = 0 /\ begun = 0 /\ notBefore = 0 /\ lastPoll = 0
  /\ listed \in SUBSET Items /\ hidden = {}
  /\ modified = [i \in Items |-> - Overlap - Lag - 1]
  /\ at = "boot" /\ offset = 0 /\ attempt = 1 /\ out = {}
  /\ cache = {} /\ pending = {}
  /\ due = listed

-----------------------------------------------------------------------------
(* What Clover answers *)

(* A slip, for ImplementsChangeFeed: no overlap. *)
SinceLastPoll == lastPoll
Since == lastPoll - Overlap

(* ChangedSince filters by modification time, ListItems does not. *)
Matching ==
  IF at = "changes" THEN {i \in listed : modified[i] >= Since} ELSE listed

Rank(i) == Cardinality({j \in Matching : j < i})
Page == {i \in Matching : offset <= Rank(i) /\ Rank(i) < offset + PageLimit}

LastPage == Cardinality(Page) < PageLimit

(* ListItems skips hidden items, ChangedSince does not. *)
Collected == out \cup (IF at = "changes" THEN Page ELSE Page \ hidden)

-----------------------------------------------------------------------------
(* The merchant *)

(* An item is added or edited, and shown or hidden by it.  ChangedSince    *)
(* may have read it before: the edit is for the next poll to report.       *)
Edit(i, hide) ==
  /\ listed' = listed \cup {i}
  /\ hidden' = IF hide THEN hidden \cup {i} ELSE hidden \ {i}
  /\ modified' = [modified EXCEPT ![i] = now - Lag]
  /\ pending' = pending \cup {i}
  /\ due' = IF hide \/ at = "changes" THEN due \ {i} ELSE due
  /\ UNCHANGED <<now, call, lastPoll, cache>>

(* When an item before the offset goes, those behind it move up by one, and *)
(* the first unread one is now on a page that was read already.             *)
Missed(d) ==
  {u \in due \ out : d \in Matching /\ d < u /\ Rank(u) = offset}

Delete(d) ==
  LET missed == Missed(d) IN
  /\ d \in listed
  /\ listed' = listed \ {d}
  /\ hidden' = hidden \ {d}
  /\ due' = due \ ({d} \cup missed)
  /\ pending' = pending \ ({d} \cup IF at = "changes" THEN missed ELSE {})
  /\ UNCHANGED <<now, modified, call, lastPoll, cache>>

-----------------------------------------------------------------------------
(* The client: a request at a time *)

(* A call ends in time, and so does every delay of it. *)
InTime(t) == t <= MaxTime /\ (at # "wait" => t <= begun + Slowest)

Tick ==
  /\ InTime(now + 1)
  /\ now' = now + 1
  /\ UNCHANGED <<shop, call, lastPoll, cache, pending, due>>

Asking == at # "wait" /\ now >= notBefore

(* A slip, for FullCatalog: the offset of the next page is off by one. *)
OffsetPlusOne == offset + PageLimit + 1
NextOffset == offset + PageLimit

(* A full page: there may be another. *)
NextPage ==
  /\ Asking /\ ~LastPage
  /\ out' = Collected
  /\ offset' = NextOffset
  /\ attempt' = 1
  /\ UNCHANGED <<now, shop, at, begun, notBefore, lastPoll, cache, pending, due>>

(* The delays of retryAfter: the one Clover asks for, or 1, 2, 4, ... s.    *)
Delays(n) ==
  RetryAfters \cup {IF 2^(n - 1) > MaxDelay THEN MaxDelay ELSE 2^(n - 1)}

(* A slip, for TypeOK: the bound is checked one attempt late. *)
OneTryMore == attempt <= MaxAttempts
MayRetry == attempt < MaxAttempts

(* 429: the same page again, after a delay. *)
Throttled(d) ==
  /\ Asking /\ MayRetry
  /\ d \in Delays(attempt)
  /\ InTime(now + d)
  /\ attempt' = attempt + 1
  /\ notBefore' = now + d
  /\ UNCHANGED <<now, shop, at, begun, offset, out, lastPoll, cache, pending, due>>

-----------------------------------------------------------------------------
(* The poller *)

Poll ==
  /\ at = "wait"
  /\ Call("changes")
  /\ due' = pending
  /\ UNCHANGED <<now, shop, lastPoll, cache, pending>>

(* lastPoll is the time at which ChangedSince has returned.  With changes   *)
(* the catalog is listed; they are reported however that ends.              *)
ChangesEnd ==
  /\ at = "changes" /\ Asking /\ LastPage
  /\ lastPoll' = now
  /\ pending' = pending \ (Collected \cap due)
  /\ IF Collected = {} THEN Return
                       ELSE Call("list") /\ due' = listed \ hidden
  /\ UNCHANGED <<now, shop, cache>>

(* A slip, for ChangesReported: a poll that fails sets it as well. *)
AfterAnyCall == now

(* The first List sets lastPoll, well or badly ended; the others do not. *)
AfterList == IF at = "boot" THEN now ELSE lastPoll

ListEnd ==
  /\ at \in {"boot", "list"} /\ Asking /\ LastPage
  /\ cache' = Collected
  /\ lastPoll' = AfterList
  /\ Return
  /\ UNCHANGED <<now, shop, pending>>

(* A sixth 429, another status, no connection, a body that is no JSON: the *)
(* whole call fails and what it has collected is dropped.                  *)
CallFails ==
  /\ Asking
  /\ lastPoll' = AfterList
  /\ Return
  /\ UNCHANGED <<now, shop, cache, pending>>

Answer ==
  \/ \E d \in 1 .. Slowest : Throttled(d)
  \/ NextPage \/ ChangesEnd \/ ListEnd \/ CallFails

Next ==
  \/ \E i \in Items, hide \in BOOLEAN : Edit(i, hide)
  \/ \E d \in Items : Delete(d)
  \/ Tick \/ Poll \/ Answer

(* Time goes on, the ticker starts polls, and every request is answered:   *)
(* the HTTP client gives up after 20 s.                                    *)
SafeSpec == Init /\ [][Next]_vars
Spec == SafeSpec /\ WF_vars(Tick) /\ WF_vars(Poll) /\ WF_vars(Answer)

-----------------------------------------------------------------------------
(* Properties *)

(* The catalog that replaces the cached one holds every item that was       *)
(* listed and not hidden while it was read (clover.go:130), but for the one *)
(* that moves onto a page already read when another is deleted.             *)
FullCatalog == [][cache' # cache => due \subseteq cache']_vars

(* Every change is reported by the first successful poll that begins after  *)
(* it (README.md:81): what is edited while ChangedSince runs, or before a   *)
(* call of it that fails, the next one still asks for.  Holds when the      *)
(* overlap is Roomy.                                                        *)
Feed == INSTANCE ChangeFeed WITH due <- IF at = "changes" THEN due ELSE {}
ImplementsChangeFeed == Feed!Spec

(* A change does not stay unreported once calls stop failing and the item   *)
(* is left alone, however the merchant goes on with the others: polls end,  *)
(* and begin again (poller.go:38-55).                                       *)
LeftAlone(i) == <>[][\A hide \in BOOLEAN : ~Edit(i, hide)]_vars
ChangesReported ==
  <>[][~CallFails]_vars =>
    \A i \in Items : LeftAlone(i) => ((i \in pending) ~> (i \notin pending))
=============================================================================
