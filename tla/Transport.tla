----------------------------- MODULE Transport -----------------------------
(***************************************************************************)
(* The calls the service makes to its bridges: NetBridge and Router        *)
(* (src/service/internal/transport), the table of bridges and those who    *)
(* call: the queue's worker (pushBinding), a test pattern, a scan, and the *)
(* pages that ask for a bridge's health.  A bridge serves HTTP on one task *)
(* (bridge/main/httpserver.c).                                             *)
(*                                                                         *)
(* Time passes in Ticks, and only when nobody has something to do at once: *)
(* deadlines and the length of a push are counted in the same unit.  A     *)
(* request whose caller has given up (its context expired, or the          *)
(* connection broke) may be lost, or may still be served.  A scan and a    *)
(* health page ask the bridges one after the other: each round is a call   *)
(* of its own here, and the order of the rounds is left open.              *)
(***************************************************************************)
EXTENDS Naturals, Sequences, FiniteSets

CONSTANTS Names,       \* addresses a bridge is registered under, also its id
          Devices,     \* the bridges themselves
          At,          \* the bridge at an address
          None, Gone,  \* no caller; a caller that gave up
          HealthLimit, ScanLimit, TestLimit, PushLimit,  \* deadlines
          ScanTime, PushTime,                            \* at the bridge
          FakeHealthy, \* INKTAGS_FAKE_HEALTHY: the fake pretends to push
          MaxPushes,   \* bound: how many pushes the worker begins
          MaxGone      \* bound: connections break while fewer callers than
                       \* this have left a request waiting at the bridge

Callers == {"worker", "tester", "scanner", "prober"}

Requests == [kind : {"scan", "push"}, by : Callers \cup {Gone}, n : 0 .. MaxPushes]

ASSUME TransportAssumption ==
  /\ At \in [Names -> Devices]
  /\ None \notin Callers \cup Names \cup Requests /\ Gone \notin Callers
  /\ HealthLimit \in Nat /\ TestLimit \in Nat /\ PushLimit \in Nat
  /\ ScanTime \in Nat /\ PushTime \in Nat /\ MaxPushes \in Nat /\ MaxGone \in Nat
  /\ ScanLimit \in Nat /\ ScanTime < ScanLimit /\ FakeHealthy \in BOOLEAN

VARIABLES
  bridges,  \* the table of bridges, in the order of created_at
  pc,       \* a caller: idle, probing, locking (waits for ble), waiting
  name,     \* the address it calls
  probe,    \* what is left of its health probe's 4 s
  left,     \* what is left of the deadline of its context
  lock,     \* NetBridge.ble: who holds it
  up,       \* the bridge has power and network
  inbox,    \* requests that wait at a bridge
  op,       \* the request its HTTP task serves, and for how long
  count,    \* the worker's pushes, numbered in the order it takes them
  shown,    \* the push whose picture the tag shows, and whether it came
            \* from the worker, still waiting for it
  lastOk,   \* history: the last push the queue recorded as ok
  clear     \* history: callers whose request met a free bridge, in good time

calls == <<pc, name, probe, left>>
firmware == <<up, inbox, op>>
picture == <<count, shown, lastOk>>
vars == <<bridges, calls, lock, firmware, picture, clear>>

Idle == [req |-> None, time |-> 0]

Registered == {bridges[i] : i \in 1 .. Len(bridges)}

CallsOK ==
  /\ bridges \in Seq(Names)
  /\ \A i, j \in 1 .. Len(bridges) : bridges[i] = bridges[j] => i = j
  /\ pc \in [Callers -> {"idle", "probing", "locking", "waiting"}]
  /\ name \in [Callers -> Names \cup {None}]
  /\ probe \in [Callers -> 0 .. HealthLimit]
  /\ left \in [Callers -> Nat]
  /\ lock \in [Names -> Callers \cup {None}]
  /\ clear \subseteq Callers

FirmwareOK ==
  /\ up \in [Devices -> BOOLEAN]
  /\ inbox \in [Devices -> Seq(Requests)]
  /\ op \in [Devices -> [req : Requests, time : Nat] \cup {Idle}]

PictureOK ==
  /\ count \in 0 .. MaxPushes /\ lastOk \in 0 .. count
  /\ shown \in [n : 0 .. count, own : BOOLEAN]

TypeOK == CallsOK /\ FirmwareOK /\ PictureOK

Init ==
  /\ bridges = <<>>
  /\ pc = [c \in Callers |-> "idle"] /\ name = [c \in Callers |-> None]
  /\ probe = [c \in Callers |-> 0] /\ left = [c \in Callers |-> 0]
  /\ lock = [a \in Names |-> None]
  /\ up = [d \in Devices |-> TRUE] /\ inbox = [d \in Devices |-> <<>>]
  /\ op = [d \in Devices |-> Idle]
  /\ count = 0 /\ lastOk = 0 /\ shown = [n |-> 0, own |-> FALSE]
  /\ clear = {}

-----------------------------------------------------------------------------
(* The table of bridges *)

(* A slip for TypeOK: a bridge added again gets another row.                *)
Appended(a) == Append(bridges, a)

Without(s, i) == SubSeq(s, 1, i - 1) \o SubSeq(s, i + 1, Len(s))

(* The address is the key of the row.                                       *)
Upserted(a) == IF a \in Registered THEN bridges ELSE Append(bridges, a)

DeleteBridge(a) ==
  /\ \E i \in 1 .. Len(bridges) : bridges[i] = a /\ bridges' = Without(bridges, i)
  /\ UNCHANGED <<calls, lock, firmware, picture, clear>>

(* txFor: the bridge of the row, or the first one when that is gone.        *)
Route(id) == IF id \in Registered THEN id ELSE Head(bridges)

-----------------------------------------------------------------------------
(* The callers up to the request *)

Turn(c, to, a, limit) ==
  /\ pc' = [pc EXCEPT ![c] = to]
  /\ name' = [name EXCEPT ![c] = a]
  /\ probe' = [probe EXCEPT ![c] = IF to = "probing" THEN HealthLimit ELSE 0]
  /\ left' = [left EXCEPT ![c] = limit]

(* handleAddBridge: the row, then a probe for the page *)
AddBridge(a) ==
  /\ pc["prober"] = "idle"
  /\ bridges' = Upserted(a)
  /\ Turn("prober", "probing", a, 0)
  /\ UNCHANGED <<lock, firmware, picture, clear>>

(* The worker takes a binding: its minute covers all that follows.          *)
BeginPush(id) ==
  /\ pc["worker"] = "idle" /\ bridges # <<>> /\ count < MaxPushes
  /\ count' = count + 1
  /\ Turn("worker", "probing", Route(id), PushLimit)
  /\ UNCHANGED <<bridges, lock, firmware, shown, lastOk, clear>>

(* With no bridge at all the router hands out the fake, which answers at    *)
(* once and reaches no tag: it refuses the push, or pretends.               *)
PushToFake ==
  /\ pc["worker"] = "idle" /\ bridges = <<>> /\ count < MaxPushes
  /\ count' = count + 1
  /\ lastOk' = IF FakeHealthy THEN count' ELSE lastOk
  /\ UNCHANGED <<bridges, calls, lock, firmware, shown, clear>>

(* A test pattern goes by the first bridge.  Health pages and scans ask     *)
(* every bridge of the table, and a scan does not probe.                    *)
Begin(c, a) ==
  /\ c # "worker" /\ pc[c] = "idle" /\ a \in Registered
  /\ c = "tester" => a = Head(bridges)
  /\ Turn(c, IF c = "scanner" THEN "locking" ELSE "probing", a, 0)
  /\ UNCHANGED <<bridges, lock, firmware, picture, clear>>

(* The call ends; AnyHealthy asks the next bridge, if at all, by another.   *)
Finish(c) == Turn(c, "idle", None, 0)

(* The bridge's task answers a probe when it has nothing else to do.        *)
Answers(d) == up[d] /\ op[d] = Idle

(* The test pattern's 30 s begin after its probe.                           *)
Healthy(c) ==
  /\ pc[c] = "probing" /\ Answers(At[name[c]])
  /\ \/ c = "prober" /\ Finish(c)
     \/ c = "worker" /\ Turn(c, "locking", name[c], left[c])
     \/ c = "tester" /\ Turn(c, "locking", name[c], TestLimit)
  /\ UNCHANGED <<bridges, lock, firmware, picture, clear>>

(* After 4 s, or when the connection fails, a push is skipped, and a page   *)
(* shows the bridge as unreachable.                                         *)
Unhealthy(c) ==
  /\ pc[c] = "probing"
  /\ probe[c] = 0 \/ ~up[At[name[c]]]
  /\ Finish(c)
  /\ UNCHANGED <<bridges, lock, firmware, picture, clear>>

-----------------------------------------------------------------------------
(* NetBridge.Push and Scan *)

(* A slip for InTime: the probe's deadline is used for the scan.            *)
ShortDeadline(c) == IF c = "scanner" THEN HealthLimit ELSE left[c]

(* The scan's own deadline begins when it has the lock, the push's is its   *)
(* caller's.                                                                *)
Deadline(c) == IF c = "scanner" THEN ScanLimit ELSE left[c]

(* A slip for OneCallPerBridge: a scan does not take the lock.              *)
OnlyPushesLock(c) == lock[name[c]] = None \/ c = "scanner"

MayEnter(c) == lock[name[c]] = None

Request(c) == [kind |-> IF c = "scanner" THEN "scan" ELSE "push", by |-> c,
               n |-> IF c = "worker" THEN count ELSE 0]

InGoodTime(c) ==
  LET d == At[name[c]] IN
  /\ Answers(d) /\ inbox[d] = <<>>
  /\ c = "scanner" \/ left[c] > PushTime

(* Lock, then the request *)
Send(c) ==
  LET d == At[name[c]] IN
  /\ pc[c] = "locking" /\ MayEnter(c) /\ Deadline(c) > 0
  /\ lock' = [lock EXCEPT ![name[c]] = c]
  /\ inbox' = IF up[d] THEN [inbox EXCEPT ![d] = Append(@, Request(c))] ELSE inbox
  /\ clear' = IF InGoodTime(c) THEN clear \cup {c} ELSE clear
  /\ Turn(c, "waiting", name[c], Deadline(c))
  /\ UNCHANGED <<bridges, up, op, picture>>

(* The context expired while the caller waited for the lock: the request is *)
(* not made, and the lock released at once.                                 *)
TooLate(c) ==
  /\ pc[c] = "locking" /\ MayEnter(c) /\ Deadline(c) = 0
  /\ Finish(c)
  /\ UNCHANGED <<bridges, lock, firmware, picture, clear>>

(* The call returns: the deferred Unlock *)
Return(c) ==
  /\ lock' = [lock EXCEPT ![name[c]] = None]
  /\ clear' = clear \ {c}
  /\ Finish(c)

Disowned(r, c) == IF r # None /\ r.by = c THEN [r EXCEPT !.by = Gone] ELSE r

(* The caller is gone.  Its request may be lost with the connection if it   *)
(* waits; if it is served, that goes on.                                    *)
Leave(c) ==
  LET d == At[name[c]] IN
  /\ pc[c] = "waiting"
  /\ \/ inbox' = [inbox EXCEPT ![d] = [i \in DOMAIN @ |-> Disowned(@[i], c)]]
     \/ \E i \in 1 .. Len(inbox[d]) :
          inbox[d][i].by = c /\ inbox' = [inbox EXCEPT ![d] = Without(@, i)]
  /\ op' = [op EXCEPT ![d].req = Disowned(@, c)]
  /\ Return(c)
  /\ UNCHANGED <<bridges, up, picture>>

Expire(c) == left[c] = 0 /\ Leave(c)

GoneAt(d) == {i \in 1 .. Len(inbox[d]) : inbox[d][i].by = Gone}

ConnectionBreaks(c) ==
  /\ Leave(c)
  /\ Cardinality(GoneAt(At[name[c]])) < MaxGone

-----------------------------------------------------------------------------
(* The bridges: one HTTP task each.  Its server looks at the connections in *)
(* the order of their slots, not of their requests.                         *)

Serve(d) ==
  /\ Answers(d)
  /\ \E i \in 1 .. Len(inbox[d]) :
       /\ op' = [op EXCEPT ![d] = [req |-> inbox[d][i], time |-> 0]]
       /\ inbox' = [inbox EXCEPT ![d] = Without(@, i)]
  /\ UNCHANGED <<bridges, calls, lock, up, picture, clear>>

Serving(d, kind) == op[d] # Idle /\ op[d].req.kind = kind

Respond(c) == IF c = Gone THEN UNCHANGED <<calls, lock, clear>> ELSE Return(c)

ScanEnds(d) ==
  /\ Serving(d, "scan") /\ op[d].time = ScanTime
  /\ Respond(op[d].req.by)
  /\ op' = [op EXCEPT ![d] = Idle]
  /\ UNCHANGED <<bridges, up, inbox, picture>>

(* A slip for OkIsShown: the status of the answer is not looked at.         *)
AnyAnswer(ok) == TRUE

Accepted(ok) == ok

(* h_push answers 200 or 500.  A push that failed may have reached the tag. *)
PushEnds(d, ok, reached) ==
  LET r == op[d].req IN
  /\ Serving(d, "push") /\ (ok => reached)
  /\ Respond(r.by)
  /\ op' = [op EXCEPT ![d] = Idle]
  /\ shown' = IF reached THEN [n |-> r.n, own |-> r.by = "worker"] ELSE shown
  /\ lastOk' = IF r.by = "worker" /\ Accepted(ok) THEN r.n ELSE lastOk
  /\ UNCHANGED <<bridges, up, inbox, count>>

PowerLost(d) ==
  /\ up[d]
  /\ up' = [up EXCEPT ![d] = FALSE]
  /\ inbox' = [inbox EXCEPT ![d] = <<>>] /\ op' = [op EXCEPT ![d] = Idle]
  /\ clear' = {c \in clear : At[name[c]] # d}
  /\ UNCHANGED <<bridges, calls, lock, picture>>

PowerBack(d) ==
  /\ ~up[d]
  /\ up' = [up EXCEPT ![d] = TRUE]
  /\ UNCHANGED <<bridges, calls, lock, inbox, op, picture, clear>>

-----------------------------------------------------------------------------
(* Time *)

Limit(d) == IF op[d].req.kind = "scan" THEN ScanTime ELSE PushTime

Urgent ==
  \/ \E c \in Callers :
       \/ pc[c] = "probing" /\ (probe[c] = 0 \/ Answers(At[name[c]]))
       \/ pc[c] = "locking" /\ MayEnter(c)
       \/ pc[c] = "waiting" /\ left[c] = 0
  \/ \E d \in Devices :
       \/ Answers(d) /\ inbox[d] # <<>>
       \/ op[d] # Idle /\ op[d].time = Limit(d)

Less(k) == IF k > 0 THEN k - 1 ELSE 0

Tick ==
  /\ ~Urgent
  /\ probe' = [c \in Callers |-> Less(probe[c])]
  /\ left' = [c \in Callers |-> Less(left[c])]
  /\ op' = [d \in Devices |-> IF op[d] = Idle THEN Idle
                              ELSE [op[d] EXCEPT !.time = @ + 1]]
  /\ UNCHANGED <<bridges, pc, name, lock, up, inbox, picture, clear>>

-----------------------------------------------------------------------------
Caller(c) == Healthy(c) \/ Unhealthy(c) \/ Send(c) \/ TooLate(c) \/ Expire(c)
Task(d) ==
  \/ Serve(d) \/ ScanEnds(d)
  \/ \E ok \in BOOLEAN, reached \in BOOLEAN : PushEnds(d, ok, reached)

Next ==
  \/ \E a \in Names : AddBridge(a) \/ DeleteBridge(a) \/ BeginPush(a)
                    \/ \E c \in Callers : Begin(c, a)
  \/ \E c \in Callers : Caller(c) \/ ConnectionBreaks(c)
  \/ \E d \in Devices : Task(d) \/ PowerLost(d) \/ PowerBack(d)
  \/ PushToFake
  \/ Tick

Spec == Init /\ [][Next]_vars

-----------------------------------------------------------------------------
(* The bridge at an address has one push or scan at a time that somebody    *)
(* waits for, so none waits at the bridge behind another one's              *)
(* (netbridge.go:26-28).                                                    *)
OneCallPerBridge ==
  \A c1, c2 \in Callers :
    pc[c1] = "waiting" /\ pc[c2] = "waiting" /\ name[c1] = name[c2] => c1 = c2

(* A scan, or a push with a push's time left, that met a free bridge is     *)
(* answered before its deadline while the bridge has power, however many    *)
(* callers come after it (netbridge.go:38-39, 95-97).                       *)
InTime == \A c \in clear : left[c] > 0

(* The tag shows nothing older than the last push the queue recorded as ok, *)
(* unless the picture is one nobody waited for any more, or a test pattern, *)
(* or the fake has been told to pretend.                                    *)
OkIsShown == shown.own => shown.n >= lastOk

(* netbridge.go:27: "Health (/healthz) runs on a separate firmware task and *)
(* skips this lock."  A probe would not expire because the bridge, which    *)
(* has had power all the while, scans or pushes for longer than it waits.   *)
HealthIsSeparate ==
  \A c \in Callers :
    pc[c] = "probing" /\ op[At[name[c]]].time >= HealthLimit => probe[c] > 0

=============================================================================
