----------------------------- MODULE PushQueue -----------------------------
(***************************************************************************)
(* The push queue of the service, src/service/internal/web/queue.go: the   *)
(* mutex-protected state, the goroutines that call enqueue (HTTP handlers  *)
(* and the poller) and the single worker goroutine of run.                 *)
(*                                                                         *)
(* A step is what one goroutine does while it holds q.mu, or one channel   *)
(* operation: enqueue is two steps, because its wake-up is sent after the  *)
(* unlock.  The push itself is the environment: it takes any time and      *)
(* succeeds or fails.                                                      *)
(***************************************************************************)
EXTENDS Naturals, Sequences

CONSTANTS MACs,       \* the tags
          Bindings,   \* what a request asks a tag to show
          Callers,    \* the goroutines that enqueue
          None        \* no binding

ASSUME NoneAssumption ==
  /\ None \notin Bindings
  /\ None \notin [mac : MACs, binding : Bindings]

VARIABLES
  pending,     \* q.pending: the latest queued binding of a tag, or None
  order,       \* q.order: FIFO of the waiting tags
  status,      \* q.status: the state the UI shows for a tag ("none": no entry)
  wake,        \* TRUE when the one-slot channel q.wake holds a token
  caller,      \* "signal": between the unlock and the send of enqueue
  worker,      \* where the worker goroutine is in run
  cur,         \* the worker's b while it pushes, or None
  latest,      \* history: the binding last enqueued for a tag
  delivered,   \* history: the binding the last successful push delivered
  ahead        \* history: the tags that waited before this one and still do

queueVars == <<pending, order>>
vars == <<pending, order, status, wake, caller, worker, cur,
          latest, delivered, ahead>>

Job == [mac : MACs, binding : Bindings]
Statuses == {"none", "queued", "pushing", "ok", "failed"}
WorkerStates == {"next", "sleep", "taken", "pushing", "gap"}

TypeOK ==
  /\ pending \in [MACs -> Bindings \cup {None}]
  /\ order \in Seq(MACs)
  /\ status \in [MACs -> Statuses]
  /\ wake \in BOOLEAN
  /\ caller \in [Callers -> {"idle", "signal"}]
  /\ worker \in WorkerStates
  /\ cur \in Job \cup {None}
  /\ latest \in [MACs -> Bindings \cup {None}]
  /\ delivered \in [MACs -> Bindings \cup {None}]
  /\ ahead \in [MACs -> SUBSET MACs]

Waiting == {m \in MACs : pending[m] # None}
InFlight(m) == cur # None /\ cur.mac = m

Init ==
  /\ pending = [m \in MACs |-> None]
  /\ order = <<>>
  /\ status = [m \in MACs |-> "none"]
  /\ wake = FALSE
  /\ caller = [c \in Callers |-> "idle"]
  /\ worker = "next"
  /\ cur = None
  /\ latest = [m \in MACs |-> None]
  /\ delivered = [m \in MACs |-> None]
  /\ ahead = [m \in MACs |-> {}]

-----------------------------------------------------------------------------
(* enqueue *)

(* Slips that enqueue could have made, for QueueShape (no "already waiting" *)
(* test), FirstComeFirstServed (the newest request goes first),             *)
(* NoTagStarves (a tag asked for again loses its place) and LatestWins (a   *)
(* request for a waiting tag is dropped).                                   *)
LineAlwaysGrows(m) == Append(order, m)
LineFromTheFront(m) == IF m \in Waiting THEN order ELSE <<m>> \o order
LineLosesPlace(m) == Append(SelectSeq(order, LAMBDA n : n # m), m)
KeptFirst(m, b) == IF m \in Waiting THEN pending[m] ELSE b

(* The FIFO and the waiting binding of m after a request for b. *)
Line(m) == IF m \in Waiting THEN order ELSE Append(order, m)
Kept(m, b) == b

(* The part of enqueue under the lock. *)
Enqueue(c, m, b) ==
  /\ caller[c] = "idle"
  /\ order' = Line(m)
  /\ pending' = [pending EXCEPT ![m] = Kept(m, b)]
  /\ ahead' = [ahead EXCEPT ![m] = IF m \in Waiting THEN @ ELSE Waiting]
  /\ latest' = [latest EXCEPT ![m] = b]
  /\ status' = [status EXCEPT ![m] = "queued"]
  /\ caller' = [caller EXCEPT ![c] = "signal"]
  /\ UNCHANGED <<wake, worker, cur, delivered>>

(* The non-blocking send: the token is dropped when the slot is full. *)
Signal(c) ==
  /\ caller[c] = "signal"
  /\ caller' = [caller EXCEPT ![c] = "idle"]
  /\ wake' = TRUE
  /\ UNCHANGED <<pending, order, status, worker, cur, latest, delivered, ahead>>

-----------------------------------------------------------------------------
(* run *)

(* Slips that the worker could make, for ImplementsCoalescer (the entry     *)
(* stays in q.pending), StatusSettles and TypeOK (the outcome recorded) and *)
(* NoLostWakeup (one token of q.wake is taken to mean one request).         *)
LeftBehind(m) == pending
RetriedOutcome(ok) == IF ok THEN "ok" ELSE "queued"
DetailedOutcome(ok) == IF ok THEN "ok" ELSE "context deadline exceeded"
OneRequestPerToken == "sleep"

(* q.pending without m, the state a push leaves and where run goes after.  *)
Without(m) == [pending EXCEPT ![m] = None]
Outcome(ok) == IF ok THEN "ok" ELSE "failed"
AfterGap == "next"

(* The first place of order whose tag still has a pending binding. *)
IsFirst(k) ==
  /\ pending[order[k]] # None
  /\ \A j \in 1 .. (k - 1) : pending[order[j]] = None

(* next finds a binding: everything up to its tag leaves order. *)
Take ==
  /\ worker = "next"
  /\ \E k \in DOMAIN order :
       LET m == order[k] IN
       /\ IsFirst(k)
       /\ order' = SubSeq(order, k + 1, Len(order))
       /\ cur' = [mac |-> m, binding |-> pending[m]]
       /\ pending' = Without(m)
       /\ ahead' = [n \in MACs |-> ahead[n] \ {m}]
  /\ worker' = "taken"
  /\ UNCHANGED <<status, wake, caller, latest, delivered>>

(* next finds none: the worker blocks on the channel. *)
Sleep ==
  /\ worker = "next"
  /\ \A k \in DOMAIN order : pending[order[k]] = None
  /\ order' = <<>>
  /\ worker' = "sleep"
  /\ UNCHANGED <<pending, status, wake, caller, cur, latest, delivered, ahead>>

WakeUp ==
  /\ worker = "sleep"
  /\ wake
  /\ wake' = FALSE
  /\ worker' = "next"
  /\ UNCHANGED <<pending, order, status, caller, cur, latest, delivered, ahead>>

MarkPushing ==
  /\ worker = "taken"
  /\ status' = [status EXCEPT ![cur.mac] = "pushing"]
  /\ worker' = "pushing"
  /\ UNCHANGED <<pending, order, wake, caller, cur, latest, delivered, ahead>>

(* q.push returns and its outcome is recorded. *)
PushDone(ok) ==
  /\ worker = "pushing"
  /\ status' = [status EXCEPT ![cur.mac] = Outcome(ok)]
  /\ delivered' = IF ok THEN [delivered EXCEPT ![cur.mac] = cur.binding]
                        ELSE delivered
  /\ cur' = None
  /\ worker' = "gap"
  /\ UNCHANGED <<pending, order, wake, caller, latest, ahead>>

GapOver ==
  /\ worker = "gap"
  /\ worker' = AfterGap
  /\ UNCHANGED <<pending, order, status, wake, caller, cur, latest, delivered,
                 ahead>>

Worker ==
  \/ Take
  \/ Sleep
  \/ WakeUp
  \/ MarkPushing
  \/ \E ok \in BOOLEAN : PushDone(ok)
  \/ GapOver

Next ==
  \/ \E c \in Callers, m \in MACs, b \in Bindings : Enqueue(c, m, b)
  \/ \E c \in Callers : Signal(c)
  \/ Worker

(* A push ends: its context expires after a minute, and the worker and a    *)
(* caller past its unlock are goroutines the runtime keeps scheduling.  No  *)
(* caller has to enqueue anything.                                          *)
Fairness ==
  /\ WF_vars(Worker)
  /\ \A c \in Callers : WF_vars(Signal(c))

SafeSpec == Init /\ [][Next]_vars
Spec == SafeSpec /\ Fairness

-----------------------------------------------------------------------------
(* Properties *)

(* order lists exactly the tags that have a pending binding, each once, so  *)
(* the skip loop of next (queue.go:70-77) never finds a stale entry and no  *)
(* waiting tag can be missing from the FIFO.                                *)
QueueShape ==
  /\ \A i, j \in DOMAIN order : order[i] = order[j] => i = j
  /\ \A m \in MACs : (m \in Waiting) <=> (\E i \in DOMAIN order : order[i] = m)

(* The worker never sleeps on work: when it blocks on q.wake and a tag      *)
(* waits, a token is in the channel or a caller is about to put one there   *)
(* (queue.go:61-64, 102-107).                                               *)
NoLostWakeup ==
  worker = "sleep" /\ Waiting # {} =>
    wake \/ \E c \in Callers : caller[c] = "signal"

(* "Latest wins": a tag the UI shows as ok, with nothing waiting and no     *)
(* push under way, was last delivered the binding last requested for it,    *)
(* however requests and pushes interleaved (queue.go:20-21, 58, 116).       *)
LatestWins ==
  \A m \in MACs :
    status[m] = "ok" /\ pending[m] = None /\ ~InFlight(m) =>
      delivered[m] = latest[m]

(* Coalescing keeps a tag's place: whoever the worker takes had no tag      *)
(* waiting before it, however often the others were asked for again         *)
(* (queue.go:55-57, 71-72).                                                 *)
FirstComeFirstServed ==
  [][\A m \in MACs :
       pending[m] # None /\ pending'[m] = None => ahead[m] = {}]_vars

(* Once nothing waits for a tag and nothing is in flight, the UI shows the  *)
(* end of its last push, never a leftover "queued" or "pushing" that would  *)
(* keep the page polling (queue.go:59, 109, 115-120).                       *)
StatusSettles ==
  \A m \in MACs :
    pending[m] = None /\ ~InFlight(m) =>
      status[m] \in IF latest[m] = None THEN {"none"} ELSE {"ok", "failed"}

(* Every request is eventually handed to the radio, even while other tags   *)
(* are asked for again and again.                                           *)
NoTagStarves == \A m \in MACs : pending[m] # None ~> pending[m] = None

(* The queue implements the Coalescer, fairness included. *)
Promise == INSTANCE Coalescer WITH waiting <- pending, job <- cur
ImplementsCoalescer == Promise!Spec
=============================================================================
