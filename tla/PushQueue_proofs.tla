-------------------------- MODULE PushQueue_proofs --------------------------
(***************************************************************************)
(* Proofs about the push queue for any set of tags, bindings and callers.  *)
(* The inductive invariant IInv relates the FIFO to the pending map, the   *)
(* worker's binding to the last request and the history of who waited      *)
(* first; the properties of PushQueue follow from it.                      *)
(***************************************************************************)
EXTENDS PushQueue, SequenceTheorems, TLAPS

(* A binding is in flight exactly between next and the end of the push, and *)
(* what waits or flies is what was asked for last, unless something newer   *)
(* waits.                                                                   *)
RequestsInv ==
  /\ cur # None <=> worker \in {"taken", "pushing"}
  /\ \A m \in MACs : pending[m] # None => pending[m] = latest[m]
  /\ cur # None => latest[cur.mac] # None
  /\ cur # None /\ pending[cur.mac] = None => cur.binding = latest[cur.mac]

(* Only tags nearer the front of the FIFO waited before. *)
AheadInv ==
  \A i \in DOMAIN order :
    ahead[order[i]] \subseteq {order[j] : j \in 1 .. (i - 1)}

IInv ==
  /\ TypeOK
  /\ QueueShape
  /\ NoLostWakeup
  /\ RequestsInv
  /\ LatestWins
  /\ StatusSettles
  /\ AheadInv

-----------------------------------------------------------------------------
(* With the FIFO and the pending map in step, next takes the head. *)
LEMMA TakesHead ==
  ASSUME TypeOK, QueueShape, NEW k \in DOMAIN order, IsFirst(k)
  PROVE  k = 1
<1>1. order \in Seq(MACs)
  BY DEF TypeOK
<1>2. DOMAIN order = 1 .. Len(order) /\ Len(order) \in Nat
  BY <1>1
<1>3. SUFFICES ASSUME k # 1 PROVE FALSE
  OBVIOUS
<1>4. 1 \in DOMAIN order /\ 1 \in 1 .. (k - 1)
  BY <1>2, <1>3
<1>5. order[1] \in MACs
  BY <1>1, <1>4
<1>6. pending[order[1]] # None
  BY <1>4, <1>5 DEF QueueShape, Waiting
<1> QED
  BY <1>4, <1>6 DEF IsFirst

(* What a step of next that finds a binding does to the FIFO. *)
LEMMA TakeShifts ==
  ASSUME TypeOK, QueueShape, Take
  PROVE  /\ order # <<>>
         /\ order[1] \in MACs
         /\ pending[order[1]] # None
         /\ order' \in Seq(MACs)
         /\ DOMAIN order' = 1 .. (Len(order) - 1)
         /\ \A i \in DOMAIN order' : order'[i] = order[i + 1]
         /\ cur' = [mac |-> order[1], binding |-> pending[order[1]]]
         /\ pending' = [pending EXCEPT ![order[1]] = None]
         /\ ahead' = [n \in MACs |-> ahead[n] \ {order[1]}]
<1>1. order \in Seq(MACs)
  BY DEF TypeOK
<1>2. PICK k \in DOMAIN order :
        /\ IsFirst(k)
        /\ order' = SubSeq(order, k + 1, Len(order))
        /\ cur' = [mac |-> order[k], binding |-> pending[order[k]]]
        /\ pending' = [pending EXCEPT ![order[k]] = None]
        /\ ahead' = [n \in MACs |-> ahead[n] \ {order[k]}]
  BY DEF Take, Without
<1>3. k = 1
  BY <1>2, TakesHead
<1>4. Len(order) \in Nat \ {0} /\ order # <<>> /\ order[1] \in MACs
  BY <1>1, <1>2, <1>3
<1>5. /\ order' \in Seq(MACs)
      /\ DOMAIN order' = 1 .. (Len(order) - 1)
      /\ \A i \in DOMAIN order' : order'[i] = order[i + 1]
  BY <1>1, <1>2, <1>3, <1>4
<1> QED
  BY <1>2, <1>3, <1>4, <1>5 DEF IsFirst

-----------------------------------------------------------------------------
LEMMA InitIInv == Init => IInv
<1> SUFFICES ASSUME Init PROVE IInv
  OBVIOUS
<1>1. order = <<>> /\ DOMAIN order = {} /\ order \in Seq(MACs)
  BY DEF Init
<1>2. Waiting = {}
  BY DEF Init, Waiting
<1>3. TypeOK
  BY <1>1 DEF Init, TypeOK, Statuses, WorkerStates
<1>4. QueueShape /\ AheadInv
  BY <1>1, <1>2 DEF QueueShape, AheadInv
<1>5. NoLostWakeup /\ RequestsInv /\ LatestWins /\ StatusSettles
  BY <1>2 DEF Init, NoLostWakeup, RequestsInv, LatestWins, StatusSettles, InFlight
<1> QED
  BY <1>3, <1>4, <1>5 DEF IInv

(* enqueue under the lock: the tag joins the end of the FIFO unless it      *)
(* already waits.                                                           *)
LEMMA EnqueueKeepsIInv ==
  ASSUME IInv, NEW c \in Callers, NEW m \in MACs, NEW b \in Bindings,
         Enqueue(c, m, b)
  PROVE  IInv'
<1> USE DEF IInv
<1>1. order \in Seq(MACs) /\ b # None
  BY NoneAssumption DEF TypeOK
<1>2. pending' = [pending EXCEPT ![m] = b] /\ pending'[m] = b
  BY DEF Enqueue, Kept, TypeOK
<1>3. Waiting' = Waiting \cup {m}
  BY <1>1, <1>2 DEF Waiting, TypeOK
<1>4. TypeOK'
  <2>1. order' \in Seq(MACs)
    BY <1>1, AppendProperties DEF Enqueue, Line
  <2>2. ahead' \in [MACs -> SUBSET MACs]
    BY DEF Enqueue, TypeOK, Waiting
  <2> QED
    BY <1>2, <2>1, <2>2 DEF Enqueue, TypeOK, Statuses
<1>5. QueueShape' /\ AheadInv'
  <2>1. CASE m \in Waiting
    BY <1>3, <2>1 DEF Enqueue, Line, QueueShape, AheadInv, TypeOK
  <2>2. CASE m \notin Waiting
    <3>1. order' = Append(order, m)
      BY <2>2 DEF Enqueue, Line
    <3>2. /\ Len(order) \in Nat
          /\ DOMAIN order = 1 .. Len(order)
          /\ DOMAIN order' = 1 .. (Len(order) + 1)
          /\ order'[Len(order) + 1] = m
          /\ \A i \in DOMAIN order : order'[i] = order[i]
      BY <1>1, <3>1
    <3>3. \A i \in DOMAIN order : order[i] \in MACs /\ order[i] \in Waiting
      BY <1>1, <3>2 DEF QueueShape
    <3>4. QueueShape'
      <4>1. \A i, j \in DOMAIN order' : order'[i] = order'[j] => i = j
        BY <2>2, <3>2, <3>3 DEF QueueShape
      <4>2. \A n \in MACs :
              (n \in Waiting') <=> (\E i \in DOMAIN order' : order'[i] = n)
        <5>1. TAKE n \in MACs
        <5>2. CASE n = m
          BY <1>3, <3>2, <5>2
        <5>3. CASE n # m
          BY <1>3, <3>2, <5>3 DEF QueueShape
        <5> QED
          BY <5>2, <5>3
      <4> QED
        BY <4>1, <4>2 DEF QueueShape
    <3>5. AheadInv'
      <4>1. SUFFICES ASSUME NEW i \in DOMAIN order', NEW n \in ahead'[order'[i]]
                     PROVE  \E j \in 1 .. (i - 1) : order'[j] = n
        BY DEF AheadInv
      <4>2. CASE i \in DOMAIN order
        <5>1. ahead'[order'[i]] = ahead[order[i]]
          BY <2>2, <3>2, <3>3, <4>2 DEF Enqueue, TypeOK
        <5>2. PICK j \in 1 .. (i - 1) : order[j] = n
          BY <4>1, <4>2, <5>1 DEF AheadInv
        <5> QED
          BY <3>2, <4>2, <5>2
      <4>3. CASE i = Len(order) + 1
        <5>1. ahead'[order'[i]] = Waiting
          BY <2>2, <3>2, <4>3 DEF Enqueue, TypeOK
        <5>2. PICK j \in DOMAIN order : order[j] = n
          BY <4>1, <5>1 DEF QueueShape, Waiting
        <5> QED
          BY <3>2, <4>3, <5>2
      <4> QED
        BY <3>2, <4>2, <4>3
    <3> QED
      BY <3>4, <3>5
  <2> QED
    BY <2>1, <2>2
<1>6. NoLostWakeup'
  BY DEF Enqueue, NoLostWakeup, TypeOK
<1>7. RequestsInv'
  BY <1>1, <1>2 DEF Enqueue, RequestsInv, TypeOK, Job
<1>8. LatestWins' /\ StatusSettles'
  BY <1>1, <1>2 DEF Enqueue, LatestWins, StatusSettles, InFlight, TypeOK
<1> QED
  BY <1>4, <1>5, <1>6, <1>7, <1>8

(* next finds a binding: the head leaves the FIFO and nobody counts it as   *)
(* ahead of them any more.                                                  *)
LEMMA TakeKeepsIInv == IInv /\ Take => IInv'
<1> SUFFICES ASSUME IInv, Take PROVE IInv'
  OBVIOUS
<1> USE DEF IInv
<1> DEFINE m == order[1]
<1>1. /\ order # <<>>
      /\ m \in MACs
      /\ pending[m] # None
      /\ order' \in Seq(MACs)
      /\ DOMAIN order' = 1 .. (Len(order) - 1)
      /\ \A i \in DOMAIN order' : order'[i] = order[i + 1]
      /\ cur' = [mac |-> m, binding |-> pending[m]]
      /\ pending' = [pending EXCEPT ![m] = None]
      /\ ahead' = [n \in MACs |-> ahead[n] \ {m}]
  BY TakeShifts
<1>2. /\ order \in Seq(MACs)
      /\ Len(order) \in Nat \ {0}
      /\ DOMAIN order = 1 .. Len(order)
  BY <1>1 DEF TypeOK
<1>3. UNCHANGED <<status, wake, caller, latest, delivered>> /\ worker' = "taken"
  BY DEF Take
<1>4. cur' # None
  BY <1>1, NoneAssumption DEF TypeOK
<1> HIDE DEF m
<1>5. TypeOK'
  BY <1>1, <1>3 DEF TypeOK, Job, WorkerStates
<1>6. Waiting' = Waiting \ {m}
  BY <1>1 DEF Waiting, TypeOK
<1>7. QueueShape'
  <2>1. \A i, j \in DOMAIN order' : order'[i] = order'[j] => i = j
    BY <1>1, <1>2 DEF QueueShape
  <2>2. ASSUME NEW n \in MACs
        PROVE  (n \in Waiting') <=> (\E i \in DOMAIN order' : order'[i] = n)
    <3>1. ASSUME n \in Waiting' PROVE \E i \in DOMAIN order' : order'[i] = n
      <4>1. n # m /\ n \in Waiting
        BY <1>6, <3>1
      <4>2. PICK k \in DOMAIN order : order[k] = n
        BY <4>1 DEF QueueShape
      <4>3. k # 1
        BY <4>1, <4>2 DEF m
      <4>4. k - 1 \in DOMAIN order' /\ order'[k - 1] = n
        BY <1>1, <1>2, <4>2, <4>3
      <4> QED
        BY <4>4
    <3>2. ASSUME NEW i \in DOMAIN order', order'[i] = n PROVE n \in Waiting'
      <4>1. i + 1 \in DOMAIN order /\ i + 1 # 1 /\ 1 \in DOMAIN order
        BY <1>1, <1>2
      <4>2. order[i + 1] = n
        BY <1>1, <3>2
      <4>3. n # m
        BY <4>1, <4>2 DEF QueueShape, m
      <4>4. n \in Waiting
        BY <4>1, <4>2 DEF QueueShape
      <4> QED
        BY <1>6, <4>3, <4>4
    <3> QED
      BY <3>1, <3>2
  <2> QED
    BY <2>1, <2>2 DEF QueueShape
<1>8. AheadInv'
  <2>1. SUFFICES ASSUME NEW i \in DOMAIN order', NEW n \in ahead'[order'[i]]
                 PROVE  \E j \in 1 .. (i - 1) : order'[j] = n
    BY DEF AheadInv
  <2>2. i + 1 \in DOMAIN order /\ order'[i] = order[i + 1] /\ order[i + 1] \in MACs
    BY <1>1, <1>2
  <2>3. n \in ahead[order[i + 1]] /\ n # m
    BY <1>1, <2>1, <2>2
  <2>4. PICK k \in 1 .. i : order[k] = n
    <3>1. i \in Nat /\ (i + 1) - 1 = i
      BY <1>2, <2>2, <1>1
    <3>2. ahead[order[i + 1]] \subseteq {order[j] : j \in 1 .. ((i + 1) - 1)}
      BY <2>2 DEF AheadInv
    <3> QED
      BY <2>3, <3>1, <3>2
  <2>5. k # 1
    BY <2>3, <2>4 DEF m
  <2>6. k - 1 \in 1 .. (i - 1) /\ order'[k - 1] = n
    <3>1. i \in 1 .. (Len(order) - 1)
      BY <1>1
    <3>2. k - 1 \in 1 .. (i - 1) /\ k - 1 \in DOMAIN order' /\ (k - 1) + 1 = k
      BY <1>1, <1>2, <2>4, <2>5, <3>1
    <3>3. order'[k - 1] = order[(k - 1) + 1]
      BY <1>1, <3>2
    <3> QED
      BY <2>4, <3>2, <3>3
  <2> QED
    BY <2>6
<1>9. NoLostWakeup'
  BY <1>3 DEF NoLostWakeup
<1>10. RequestsInv'
  BY <1>1, <1>3, <1>4 DEF RequestsInv, TypeOK, Take
<1>11. LatestWins' /\ StatusSettles'
  BY <1>1, <1>3, <1>4 DEF LatestWins, StatusSettles, InFlight, RequestsInv, TypeOK, Take
<1> QED
  BY <1>5, <1>7, <1>8, <1>9, <1>10, <1>11

(* q.push returns. *)
LEMMA PushDoneKeepsIInv ==
  ASSUME IInv, NEW ok \in BOOLEAN, PushDone(ok)
  PROVE  IInv'
<1> USE DEF IInv
<1>1. cur # None /\ cur \in Job /\ cur' = None /\ worker' = "gap"
  BY DEF PushDone, RequestsInv, TypeOK
<1>2. cur.mac \in MACs /\ cur.binding \in Bindings
  BY <1>1 DEF Job
<1>3. TypeOK'
  BY <1>1, <1>2 DEF PushDone, TypeOK, Statuses, WorkerStates, Outcome
<1>4. QueueShape' /\ AheadInv' /\ NoLostWakeup'
  BY <1>1 DEF PushDone, QueueShape, AheadInv, NoLostWakeup, Waiting
<1>5. RequestsInv'
  BY <1>1 DEF PushDone, RequestsInv
<1>6. LatestWins'
  BY <1>1, <1>2 DEF PushDone, LatestWins, RequestsInv, InFlight, TypeOK, Outcome
<1>7. StatusSettles'
  BY <1>1, <1>2 DEF PushDone, StatusSettles, RequestsInv, InFlight, TypeOK, Outcome
<1> QED
  BY <1>3, <1>4, <1>5, <1>6, <1>7

(* Every step keeps the invariant. *)
LEMMA NextIInv == IInv /\ [Next]_vars => IInv'
<1> SUFFICES ASSUME IInv, [Next]_vars PROVE IInv'
  OBVIOUS
<1> USE DEF IInv
<1>1. CASE \E c \in Callers, m \in MACs, b \in Bindings : Enqueue(c, m, b)
  BY <1>1, EnqueueKeepsIInv
<1>2. CASE \E c \in Callers : Signal(c)
  BY <1>2 DEF Signal, TypeOK, QueueShape, NoLostWakeup, RequestsInv, LatestWins,
              StatusSettles, AheadInv, Waiting, InFlight
<1>3. CASE Take
  BY <1>3, TakeKeepsIInv
<1>4. CASE Sleep
  <2>1. \A m \in MACs : m \notin Waiting
    BY <1>4 DEF Sleep, QueueShape, Waiting
  <2>2. order' = <<>> /\ DOMAIN order' = {} /\ order' \in Seq(MACs)
    BY <1>4 DEF Sleep
  <2>3. Waiting' = Waiting /\ Waiting = {}
    BY <1>4, <2>1 DEF Sleep, Waiting
  <2>4. TypeOK' /\ QueueShape' /\ AheadInv' /\ NoLostWakeup'
    BY <1>4, <2>2, <2>3
       DEF Sleep, TypeOK, QueueShape, AheadInv, NoLostWakeup, WorkerStates
  <2>5. RequestsInv' /\ LatestWins' /\ StatusSettles'
    BY <1>4 DEF Sleep, RequestsInv, LatestWins, StatusSettles, InFlight
  <2> QED
    BY <2>4, <2>5
<1>5. CASE WakeUp
  <2>1. TypeOK'
    BY <1>5 DEF WakeUp, TypeOK, WorkerStates
  <2>2. QueueShape' /\ AheadInv' /\ NoLostWakeup'
    BY <1>5 DEF WakeUp, QueueShape, AheadInv, NoLostWakeup, Waiting
  <2>3. RequestsInv' /\ LatestWins' /\ StatusSettles'
    BY <1>5 DEF WakeUp, RequestsInv, LatestWins, StatusSettles, InFlight
  <2> QED
    BY <2>1, <2>2, <2>3
<1>6. CASE MarkPushing
  BY <1>6 DEF MarkPushing, TypeOK, QueueShape, NoLostWakeup, RequestsInv, LatestWins,
              StatusSettles, AheadInv, Waiting, InFlight, WorkerStates, Statuses, Job
<1>7. CASE \E ok \in BOOLEAN : PushDone(ok)
  BY <1>7, PushDoneKeepsIInv
<1>8. CASE GapOver
  BY <1>8 DEF GapOver, AfterGap, TypeOK, QueueShape, NoLostWakeup, RequestsInv,
              LatestWins, StatusSettles, AheadInv, Waiting, InFlight, WorkerStates
<1>9. CASE UNCHANGED vars
  BY <1>9 DEF vars, TypeOK, QueueShape, NoLostWakeup, RequestsInv, LatestWins,
              StatusSettles, AheadInv, Waiting, InFlight
<1> QED
  BY <1>1, <1>2, <1>3, <1>4, <1>5, <1>6, <1>7, <1>8, <1>9 DEF Next, Worker

THEOREM InductiveInvariant == SafeSpec => []IInv
BY InitIInv, NextIInv, PTL DEF SafeSpec

-----------------------------------------------------------------------------
(* The types of the queue's state, for any tags, bindings and callers. *)
THEOREM TypeCorrect == SafeSpec => []TypeOK
BY InductiveInvariant, PTL DEF IInv

(* The FIFO and the pending map never disagree (queue.go:55-58, 70-77). *)
THEOREM QueueShapeHolds == SafeSpec => []QueueShape
BY InductiveInvariant, PTL DEF IInv

(* However many goroutines enqueue, the worker never sleeps on work         *)
(* (queue.go:61-64, 102-107).                                               *)
THEOREM NoWakeupIsLost == SafeSpec => []NoLostWakeup
BY InductiveInvariant, PTL DEF IInv

(* A tag shown as ok and at rest was last delivered what was asked for      *)
(* last (queue.go:20-21).                                                   *)
THEOREM LatestRequestWins == SafeSpec => []LatestWins
BY InductiveInvariant, PTL DEF IInv

(* A tag at rest is shown with the outcome of its last push.                *)
THEOREM StatusSettlesHolds == SafeSpec => []StatusSettles
BY InductiveInvariant, PTL DEF IInv

(* Only a tag nobody waits longer than is served (queue.go:71-74).          *)
THEOREM ServedInOrder == SafeSpec => FirstComeFirstServed
<1> DEFINE Served == \A m \in MACs :
                       pending[m] # None /\ pending'[m] = None => ahead[m] = {}
<1>1. IInv /\ [Next]_vars => [Served]_vars
  <2> SUFFICES ASSUME IInv, [Next]_vars, NEW m \in MACs,
                      pending[m] # None, pending'[m] = None
               PROVE  ahead[m] = {}
    BY DEF vars
  <2>1. CASE Take
    <3>1. order # <<>> /\ order[1] \in MACs /\ pending' = [pending EXCEPT ![order[1]] = None]
      BY <2>1, TakeShifts DEF IInv
    <3>2. m = order[1] /\ 1 \in DOMAIN order
      BY <3>1 DEF IInv, TypeOK
    <3>3. ahead[order[1]] \subseteq {order[j] : j \in 1 .. (1 - 1)}
      BY <3>2 DEF IInv, AheadInv
    <3>4. 1 .. (1 - 1) = {}
      OBVIOUS
    <3> QED
      BY <3>2, <3>3, <3>4
  <2>2. CASE \E c \in Callers, n \in MACs, b \in Bindings : Enqueue(c, n, b)
    BY <2>2, NoneAssumption DEF Enqueue, Kept, IInv, TypeOK
  <2>3. CASE UNCHANGED pending
    BY <2>3
  <2> QED
    BY <2>1, <2>2, <2>3 DEF Next, Worker, Signal, Sleep, WakeUp, MarkPushing,
                            PushDone, GapOver, vars
<1> QED
  BY <1>1, InductiveInvariant, PTL DEF SafeSpec, FirstComeFirstServed

-----------------------------------------------------------------------------
(* The queue keeps the promise of the Coalescer: at most one delivery at a  *)
(* time, of the latest binding requested, and one waiting request per tag   *)
(* (queue.go:19-21).                                                        *)
THEOREM KeepsThePromise == SafeSpec => Promise!SafeSpec
<1>1. Init => Promise!Init
  BY DEF Init, Promise!Init
<1>2. IInv /\ [Next]_vars => [Promise!Next]_(Promise!vars)
  <2> SUFFICES ASSUME IInv, [Next]_vars
               PROVE  Promise!Next \/ UNCHANGED <<pending, cur>>
    BY DEF Promise!vars
  <2>1. CASE \E c \in Callers, m \in MACs, b \in Bindings : Enqueue(c, m, b)
    BY <2>1 DEF Enqueue, Kept, Promise!Next, Promise!Request
  <2>2. CASE Take
    <3>1. cur = None
      BY <2>2 DEF Take, IInv, RequestsInv
    <3> QED
      BY <2>2, <3>1, TakeShifts DEF IInv, Promise!Next, Promise!Start
  <2>3. CASE \E ok \in BOOLEAN : PushDone(ok)
    <3>1. cur # None /\ cur' = None /\ UNCHANGED pending
      BY <2>3 DEF PushDone, IInv, RequestsInv
    <3> QED
      BY <3>1 DEF Promise!Next, Promise!Finish
  <2>4. CASE UNCHANGED <<pending, cur>>
    BY <2>4
  <2> QED
    BY <2>1, <2>2, <2>3, <2>4
       DEF Next, Worker, Signal, Sleep, WakeUp, MarkPushing, GapOver, vars
<1> QED
  BY <1>1, <1>2, InductiveInvariant, PTL DEF SafeSpec, Promise!SafeSpec

=============================================================================
