-------------------------- MODULE Transport_proofs --------------------------
(***************************************************************************)
(* Proofs about Transport, for any addresses, bridges, deadlines and       *)
(* numbers of pushes: the types, one call per bridge, the order of the     *)
(* pictures, and, when no bridge is registered under two addresses, that a *)
(* request that met a free bridge is answered in time.                     *)
(***************************************************************************)
EXTENDS Transport, SequenceTheorems, TLAPS

NameFits == \A c \in Callers : pc[c] # "idle" => name[c] \in Names

(* Who waits for an answer holds the lock of the address.                   *)
LockFits == \A c \in Callers : pc[c] = "waiting" => lock[name[c]] = c

(* A request somebody still owns belongs to a caller who waits for it, at   *)
(* the bridge it called; the worker's is its latest push.                   *)
Mine(r, d) ==
  /\ r.n <= count
  /\ r.by # Gone => /\ pc[r.by] = "waiting" /\ At[name[r.by]] = d
                    /\ r.by = "worker" => r.n = count

(* ... and it is at the bridge once: on the task, or in one place in line.  *)
OpFits == \A d \in Devices : op[d] # Idle => Mine(op[d].req, d)

InboxFits ==
  \A d \in Devices : \A i \in 1 .. Len(inbox[d]) :
    /\ Mine(inbox[d][i], d)
    /\ op[d] # Idle /\ inbox[d][i].by # Gone => op[d].req.by # inbox[d][i].by

InboxOnce ==
  \A d \in Devices : \A i, j \in 1 .. Len(inbox[d]) :
    inbox[d][i].by = inbox[d][j].by /\ inbox[d][i].by # Gone => i = j

FirmwareFits == OpFits /\ InboxFits /\ InboxOnce

IInv ==
  TypeOK /\ NameFits /\ LockFits /\ FirmwareFits /\ (FakeHealthy \/ OkIsShown)

(* What a request whose caller is in clear still has to go through: a place *)
(* at the head of an otherwise empty line, or the rest of its own time on   *)
(* the task; in both the caller has more time left than that takes.         *)
TimeOf(kind) == IF kind = "scan" THEN ScanTime ELSE PushTime

NextInLine(c, d) ==
  /\ op[d] = Idle
  /\ Len(inbox[d]) = 1 /\ inbox[d][1].by = c
  /\ left[c] > TimeOf(inbox[d][1].kind)

OnTheTask(c, d) ==
  /\ op[d] # Idle /\ op[d].req.by = c
  /\ op[d].time <= Limit(d) /\ op[d].time + left[c] > Limit(d)

OnItsWay(c) == LET d == At[name[c]] IN up[d] /\ (NextInLine(c, d) \/ OnTheTask(c, d))

ClearFits == \A c \in clear : pc[c] = "waiting" /\ OnItsWay(c)

OneAddressEach == \A a, b \in Names : At[a] = At[b] => a = b

-----------------------------------------------------------------------------
(* The data: a sequence without one element, the requests, the turns of a   *)
(* caller                                                                   *)

LEMMA WithoutOne ==
  ASSUME NEW S, NEW s \in Seq(S), NEW i \in 1 .. Len(s)
  PROVE  /\ Without(s, i) \in Seq(S)
         /\ Len(Without(s, i)) = Len(s) - 1
         /\ \A j \in 1 .. Len(s) - 1 :
              Without(s, i)[j] = s[IF j < i THEN j ELSE j + 1]
<1> DEFINE a == SubSeq(s, 1, i - 1)
           b == SubSeq(s, i + 1, Len(s))
<1>1. Len(s) \in Nat /\ \A j \in 1 .. Len(s) : s[j] \in S
  BY LenProperties
<1>2. /\ a \in Seq(S) /\ Len(a) = i - 1
      /\ \A j \in 1 .. i - 1 : a[j] = s[j]
  <2>1. 1 \in Int /\ i - 1 \in Int /\ \A j \in 1 .. i - 1 : s[j] \in S
    BY <1>1
  <2>2. /\ a \in Seq(S) /\ Len(a) = IF 1 <= i - 1 THEN i - 1 - 1 + 1 ELSE 0
        /\ \A j \in 1 .. i - 1 - 1 + 1 : a[j] = s[1 + j - 1]
    BY <2>1, SubSeqProperties
  <2> QED BY <2>2, <1>1
<1>3. /\ b \in Seq(S) /\ Len(b) = Len(s) - i
      /\ \A j \in 1 .. Len(s) - i : b[j] = s[i + j]
  <2>1. i + 1 \in Int /\ Len(s) \in Int /\ \A j \in i + 1 .. Len(s) : s[j] \in S
    BY <1>1
  <2>2. /\ b \in Seq(S)
        /\ Len(b) = IF i + 1 <= Len(s) THEN Len(s) - (i + 1) + 1 ELSE 0
        /\ \A j \in 1 .. Len(s) - (i + 1) + 1 : b[j] = s[i + 1 + j - 1]
    BY <2>1, SubSeqProperties
  <2> QED BY <2>2, <1>1
<1>4. /\ a \o b \in Seq(S) /\ Len(a \o b) = Len(a) + Len(b)
      /\ \A j \in 1 .. Len(a) + Len(b) :
           (a \o b)[j] = IF j <= Len(a) THEN a[j] ELSE b[j - Len(a)]
  <2> HIDE DEF a, b
  <2> QED BY <1>2, <1>3, ConcatProperties
<1>5. Without(s, i) = a \o b
  BY DEF Without
<1> HIDE DEF a, b
<1>6. Len(a) + Len(b) = Len(s) - 1
  BY <1>1, <1>2, <1>3
<1>7. ASSUME NEW j \in 1 .. Len(s) - 1
      PROVE  (a \o b)[j] = s[IF j < i THEN j ELSE j + 1]
  <2>1. CASE j < i
    BY <2>1, <1>1, <1>2, <1>4, <1>6
  <2>2. CASE ~(j < i)
    <3>1. j - Len(a) \in 1 .. Len(s) - i /\ ~(j <= Len(a))
      BY <2>2, <1>1, <1>2
    <3>2. (a \o b)[j] = b[j - Len(a)]
      BY <3>1, <1>4, <1>6
    <3>3. b[j - Len(a)] = s[j + 1]
      BY <3>1, <1>2, <1>3
    <3> QED BY <3>2, <3>3, <2>2
  <2> QED BY <2>1, <2>2
<1> QED BY <1>1, <1>4, <1>5, <1>6, <1>7

LEMMA RequestTyped ==
  ASSUME NEW r \in Requests
  PROVE  /\ r # None /\ r.by \in Callers \cup {Gone} /\ r.n \in Nat
         /\ r.kind \in {"scan", "push"}
BY TransportAssumption DEF Requests

(* A bridge's task is idle, or serves a request.                            *)
LEMMA OpTyped ==
  ASSUME TypeOK, NEW d \in Devices
  PROVE  /\ op[d] = Idle => op[d].req = None /\ op[d].time = 0
         /\ op[d] # Idle => /\ op[d] \in [req : Requests, time : Nat]
                            /\ op[d].req \in Requests /\ op[d].time \in Nat
BY DEF TypeOK, FirmwareOK, Idle

LEMMA InboxTyped ==
  ASSUME TypeOK, NEW d \in Devices
  PROVE  /\ inbox[d] \in Seq(Requests) /\ Len(inbox[d]) \in Nat
         /\ inbox[d] \in [1 .. Len(inbox[d]) -> Requests]
         /\ DOMAIN inbox[d] = 1 .. Len(inbox[d])
         /\ \A i \in 1 .. Len(inbox[d]) : inbox[d][i] \in Requests
<1>1. inbox[d] \in Seq(Requests)
  BY DEF TypeOK, FirmwareOK
<1>2. /\ Len(inbox[d]) \in Nat /\ inbox[d] \in [1 .. Len(inbox[d]) -> Requests]
      /\ DOMAIN inbox[d] = 1 .. Len(inbox[d])
  BY <1>1, LenProperties
<1> QED BY <1>1, <1>2

LEMMA DisownedRequest ==
  ASSUME NEW r \in Requests, NEW c \in Callers
  PROVE  /\ Disowned(r, c) \in Requests
         /\ Disowned(r, c).by = (IF r.by = c THEN Gone ELSE r.by)
         /\ Disowned(r, c).n = r.n /\ Disowned(r, c).kind = r.kind
<1>1. r # None
  BY RequestTyped
<1>2. CASE r.by = c
  BY <1>1, <1>2 DEF Disowned, Requests
<1>3. CASE r.by # c
  BY <1>3 DEF Disowned
<1> QED BY <1>2, <1>3

(* What a caller's turn does to its own entries, and to nobody else's.      *)
LEMMA TurnTaken ==
  ASSUME CallsOK, NEW c \in Callers, NEW a \in Names \cup {None},
         NEW to \in {"idle", "probing", "locking", "waiting"},
         NEW limit \in Nat, Turn(c, to, a, limit)
  PROVE  /\ pc' \in [Callers -> {"idle", "probing", "locking", "waiting"}]
         /\ name' \in [Callers -> Names \cup {None}]
         /\ probe' \in [Callers -> 0 .. HealthLimit]
         /\ left' \in [Callers -> Nat]
         /\ pc'[c] = to /\ name'[c] = a /\ left'[c] = limit
         /\ \A x \in Callers : x # c =>
              pc'[x] = pc[x] /\ name'[x] = name[x] /\ left'[x] = left[x]
BY TransportAssumption DEF CallsOK, Turn

LEMMA AllDisowned ==
  ASSUME NEW s \in Seq(Requests), NEW c \in Callers
  PROVE  LET t == [i \in DOMAIN s |-> Disowned(s[i], c)] IN
         /\ t \in Seq(Requests) /\ Len(t) = Len(s)
         /\ \A i \in 1 .. Len(s) : t[i] = Disowned(s[i], c)
<1> DEFINE t == [i \in DOMAIN s |-> Disowned(s[i], c)]
<1>1. Len(s) \in Nat /\ DOMAIN s = 1 .. Len(s) /\ \A i \in 1 .. Len(s) : s[i] \in Requests
  BY LenProperties
<1>2. \A i \in 1 .. Len(s) : Disowned(s[i], c) \in Requests
  BY <1>1, DisownedRequest
<1>3. t \in [1 .. Len(s) -> Requests] /\ \A i \in 1 .. Len(s) : t[i] = Disowned(s[i], c)
  BY <1>1, <1>2
<1> HIDE DEF t
<1>4. t \in Seq(Requests) /\ Len(t) = Len(s)
  BY <1>1, <1>3
<1> QED BY <1>3, <1>4 DEF t

-----------------------------------------------------------------------------
(* What the actions on a bridge do to its line and its task *)

(* What the two ways to leave have in common: the caller's request is no    *)
(* longer its own, and the others stay in their order.                      *)
LEMMA LeaveEffect ==
  ASSUME TypeOK, NameFits, OpFits, InboxFits, InboxOnce,
         NEW c \in Callers, Leave(c)
  PROVE  /\ At[name[c]] \in Devices
         /\ FirmwareOK'
         /\ \A d \in Devices :
              /\ op'[d] = Idle <=> op[d] = Idle
              /\ op[d] # Idle => /\ op'[d].time = op[d].time
                                 /\ op'[d].req = Disowned(op[d].req, c)
              /\ \A i \in 1 .. Len(inbox'[d]) : \E j \in 1 .. Len(inbox[d]) :
                   /\ inbox'[d][i] = Disowned(inbox[d][j], c)
                   /\ \A k \in 1 .. Len(inbox'[d]) : k # i =>
                        \E l \in 1 .. Len(inbox[d]) :
                          l # j /\ inbox'[d][k] = Disowned(inbox[d][l], c)
              /\ d # At[name[c]] => inbox'[d] = inbox[d] /\ op'[d] = op[d]
<1> DEFINE e == At[name[c]]
<1>1. e \in Devices /\ name[c] \in Names
  BY TransportAssumption DEF Leave, NameFits
<1>2. /\ op \in [Devices -> [req : Requests, time : Nat] \cup {Idle}]
      /\ inbox \in [Devices -> Seq(Requests)] /\ up' = up /\ up \in [Devices -> BOOLEAN]
  BY DEF TypeOK, FirmwareOK, Leave
<1>3. op' = [op EXCEPT ![e].req = Disowned(@, c)]
  BY DEF Leave
<1>4. ASSUME NEW d \in Devices
      PROVE  /\ op'[d] \in [req : Requests, time : Nat] \cup {Idle}
             /\ op'[d] = Idle <=> op[d] = Idle
             /\ op[d] # Idle => /\ op'[d].time = op[d].time
                                /\ op'[d].req = Disowned(op[d].req, c)
             /\ d # e => op'[d] = op[d]
  <2>1. CASE d # e
    <3>1. op'[d] = op[d]
      BY <1>1, <1>2, <1>3, <2>1
    <3>2. ASSUME op[d] # Idle PROVE Disowned(op[d].req, c) = op[d].req
      <4>1. op[d].req.by # c
        BY <2>1, <3>2, TransportAssumption DEF OpFits, Mine
      <4> QED BY <4>1 DEF Disowned
    <3> QED BY <1>2, <3>1, <3>2
  <2>2. CASE d = e /\ op[d] = Idle
    <3>1. Disowned(op[d].req, c) = None
      BY <2>2 DEF Disowned, Idle
    <3>2. op'[d] = [op[d] EXCEPT !.req = Disowned(op[d].req, c)]
      BY <1>2, <1>3, <2>2
    <3>3. op'[d] = Idle
      BY <2>2, <3>1, <3>2 DEF Idle
    <3> QED BY <2>2, <3>3
  <2>3. CASE d = e /\ op[d] # Idle
    <3>1. op[d] \in [req : Requests, time : Nat] /\ op[d].req \in Requests
      BY <1>2, <2>3
    <3>2. op'[d] = [op[d] EXCEPT !.req = Disowned(op[d].req, c)]
      BY <1>2, <1>3, <2>3
    <3>3. Disowned(op[d].req, c) \in Requests
      BY <3>1, DisownedRequest
    <3> HIDE DEF Disowned
    <3>4. /\ op'[d] \in [req : Requests, time : Nat]
          /\ op'[d].time = op[d].time /\ op'[d].req = Disowned(op[d].req, c)
      BY <3>1, <3>2, <3>3
    <3>5. op'[d] # Idle
      BY <3>4, RequestTyped DEF Idle
    <3> QED BY <2>3, <3>4, <3>5
  <2> QED BY <2>1, <2>2, <2>3
<1>5. op' \in [Devices -> [req : Requests, time : Nat] \cup {Idle}]
  <2>1. DOMAIN op' = Devices /\ op' = [x \in Devices |-> op'[x]]
    BY <1>2, <1>3
  <2> QED BY <1>4, <2>1
<1>6. \A d \in Devices : d # e => inbox'[d] = inbox[d]
  BY <1>1, <1>2 DEF Leave
<1> DEFINE Kept(d) ==
      \A i \in 1 .. Len(inbox'[d]) : \E j \in 1 .. Len(inbox[d]) :
        /\ inbox'[d][i] = Disowned(inbox[d][j], c)
        /\ \A k \in 1 .. Len(inbox'[d]) : k # i =>
             \E l \in 1 .. Len(inbox[d]) :
               l # j /\ inbox'[d][k] = Disowned(inbox[d][l], c)
<1>7. ASSUME NEW d \in Devices, d # e PROVE Kept(d)
  <2>1. \A i \in 1 .. Len(inbox[d]) : inbox[d][i].by # c
    BY <1>7, TransportAssumption DEF InboxFits, Mine
  <2>2. \A i \in 1 .. Len(inbox[d]) : Disowned(inbox[d][i], c) = inbox[d][i]
    BY <2>1 DEF Disowned
  <2> QED BY <1>6, <1>7, <2>2
<1>8. Kept(e) /\ inbox'[e] \in Seq(Requests) /\ inbox' \in [Devices -> Seq(Requests)]
  <2>1. CASE inbox' = [inbox EXCEPT ![e] = [i \in DOMAIN @ |-> Disowned(@[i], c)]]
    <3>1. inbox'[e] = [i \in DOMAIN inbox[e] |-> Disowned(inbox[e][i], c)]
      BY <1>1, <1>2, <2>1
    <3>2. /\ inbox'[e] \in Seq(Requests) /\ Len(inbox'[e]) = Len(inbox[e])
          /\ \A i \in 1 .. Len(inbox[e]) : inbox'[e][i] = Disowned(inbox[e][i], c)
      BY <1>1, <1>2, <3>1, AllDisowned
    <3>3. inbox' \in [Devices -> Seq(Requests)]
      BY <1>1, <1>2, <2>1, <3>1, <3>2
    <3> QED BY <3>2, <3>3
  <2>2. CASE \E i \in 1 .. Len(inbox[e]) :
               inbox[e][i].by = c /\ inbox' = [inbox EXCEPT ![e] = Without(@, i)]
    <3>1. PICK m \in 1 .. Len(inbox[e]) :
            inbox[e][m].by = c /\ inbox' = [inbox EXCEPT ![e] = Without(@, m)]
      BY <2>2
    <3>2. inbox'[e] = Without(inbox[e], m) /\ Len(inbox[e]) \in Nat
      BY <1>1, <1>2, <3>1, InboxTyped
    <3>3. /\ inbox'[e] \in Seq(Requests) /\ Len(inbox'[e]) = Len(inbox[e]) - 1
          /\ \A j \in 1 .. Len(inbox[e]) - 1 :
               inbox'[e][j] = inbox[e][IF j < m THEN j ELSE j + 1]
      BY <1>1, <1>2, <3>2, WithoutOne
    <3>4. inbox' \in [Devices -> Seq(Requests)]
      BY <1>1, <1>2, <3>1, <3>2, <3>3
    <3>5. \A i \in 1 .. Len(inbox[e]) : i # m => inbox[e][i].by # c
      BY <1>1, <3>1, TransportAssumption DEF InboxOnce
    <3>6. \A i \in 1 .. Len(inbox[e]) : i # m => Disowned(inbox[e][i], c) = inbox[e][i]
      BY <3>5 DEF Disowned
    <3> DEFINE From(j) == IF j < m THEN j ELSE j + 1
    <3>7. \A j \in 1 .. Len(inbox[e]) - 1 :
            /\ From(j) \in 1 .. Len(inbox[e]) /\ From(j) # m
            /\ inbox'[e][j] = Disowned(inbox[e][From(j)], c)
      BY <3>2, <3>3, <3>6
    <3>8. \A j, k \in 1 .. Len(inbox[e]) - 1 : j # k => From(j) # From(k)
      BY <3>2
    <3> HIDE DEF From, e
    <3>9. ASSUME NEW i \in 1 .. Len(inbox'[e])
          PROVE  \E j \in 1 .. Len(inbox[e]) :
                   /\ inbox'[e][i] = Disowned(inbox[e][j], c)
                   /\ \A k \in 1 .. Len(inbox'[e]) : k # i =>
                        \E l \in 1 .. Len(inbox[e]) :
                          l # j /\ inbox'[e][k] = Disowned(inbox[e][l], c)
      <4>1. i \in 1 .. Len(inbox[e]) - 1
        BY <3>3
      <4>2. /\ From(i) \in 1 .. Len(inbox[e])
            /\ inbox'[e][i] = Disowned(inbox[e][From(i)], c)
        BY <3>7, <4>1
      <4>3. ASSUME NEW k \in 1 .. Len(inbox'[e]), k # i
            PROVE  /\ From(k) \in 1 .. Len(inbox[e]) /\ From(k) # From(i)
                   /\ inbox'[e][k] = Disowned(inbox[e][From(k)], c)
        BY <3>3, <3>7, <3>8, <4>1, <4>3
      <4> QED BY <4>2, <4>3
    <3> QED BY <3>3, <3>4, <3>9
  <2> QED BY <2>1, <2>2 DEF Leave
<1>9. \A d \in Devices : Kept(d)
  <2> HIDE DEF Kept, e
  <2> QED BY <1>7, <1>8
<1>10. FirmwareOK'
  BY <1>2, <1>5, <1>8 DEF FirmwareOK
<1> QED BY <1>1, <1>4, <1>6, <1>9, <1>10

(* What waits at the bridges still fits when nothing there changes and      *)
(* those who wait go on waiting.                                            *)
LEMMA StillFits ==
  ASSUME TypeOK, FirmwareFits, op' = op, inbox' = inbox,
         count' \in Nat, count <= count',
         \A x \in Callers : pc[x] = "waiting" =>
           /\ pc'[x] = "waiting" /\ name'[x] = name[x]
           /\ x = "worker" => count' = count
  PROVE  FirmwareFits'
<1>0. count \in Nat
  BY TransportAssumption DEF TypeOK, PictureOK
<1>1. ASSUME NEW r \in Requests, NEW d \in Devices, Mine(r, d)
      PROVE  Mine(r, d)'
  BY <1>0, <1>1, RequestTyped DEF Mine
<1>2. OpFits'
  BY <1>1, OpTyped DEF FirmwareFits, OpFits
<1>3. InboxFits'
  BY <1>1, InboxTyped DEF FirmwareFits, InboxFits
<1>4. InboxOnce'
  BY DEF FirmwareFits, InboxOnce
<1> QED BY <1>2, <1>3, <1>4 DEF FirmwareFits

(* A caller's turn before its request, and after one it did not make *)
LEMMA EarlyTurn ==
  ASSUME IInv, NEW c \in Callers, pc[c] # "waiting",
         NEW to \in {"idle", "probing", "locking"},
         NEW a \in Names \cup {None}, to # "idle" => a \in Names,
         NEW limit \in Nat, Turn(c, to, a, limit),
         UNCHANGED <<lock, firmware, shown, lastOk, clear>>,
         \/ count' = count
         \/ c = "worker" /\ count < MaxPushes /\ count' = count + 1,
         bridges' \in Seq(Names),
         \A i, j \in 1 .. Len(bridges') : bridges'[i] = bridges'[j] => i = j
  PROVE  IInv'
<1> USE DEF IInv
<1>1. /\ pc' \in [Callers -> {"idle", "probing", "locking", "waiting"}]
      /\ name' \in [Callers -> Names \cup {None}]
      /\ probe' \in [Callers -> 0 .. HealthLimit] /\ left' \in [Callers -> Nat]
      /\ pc'[c] = to /\ name'[c] = a
      /\ \A x \in Callers : x # c => pc'[x] = pc[x] /\ name'[x] = name[x]
  BY TurnTaken DEF TypeOK
<1>2. /\ count \in 0 .. MaxPushes /\ count' \in 0 .. MaxPushes /\ count <= count'
      /\ lastOk \in 0 .. count /\ shown \in [n : 0 .. count, own : BOOLEAN]
  BY TransportAssumption DEF TypeOK, PictureOK
<1>3. CallsOK'
  BY <1>1 DEF TypeOK, CallsOK
<1>4. FirmwareOK'
  BY DEF TypeOK, FirmwareOK, firmware
<1>5. PictureOK'
  <2>1. 0 .. count \subseteq 0 .. count'
    BY <1>2, TransportAssumption
  <2>2. shown \in [n : 0 .. count', own : BOOLEAN] /\ lastOk \in 0 .. count'
    BY <1>2, <2>1
  <2> QED BY <1>2, <2>2 DEF PictureOK
<1>6. NameFits' /\ LockFits'
  BY <1>1 DEF NameFits, LockFits
<1>7. FirmwareFits'
  <2>1. op' = op /\ inbox' = inbox /\ count' \in Nat
    BY <1>2 DEF firmware
  <2>2. ASSUME NEW x \in Callers, pc[x] = "waiting"
        PROVE  /\ pc'[x] = "waiting" /\ name'[x] = name[x]
               /\ x = "worker" => count' = count
    BY <1>1, <2>2
  <2> QED BY <1>2, <2>1, <2>2, StillFits
<1>8. FakeHealthy \/ OkIsShown'
  BY DEF OkIsShown
<1> QED BY <1>3, <1>4, <1>5, <1>6, <1>7, <1>8 DEF TypeOK

-----------------------------------------------------------------------------
(* Each action keeps the invariant *)

LEMMA Routed ==
  ASSUME CallsOK, bridges # <<>>, NEW id \in Names
  PROVE  Route(id) \in Names
<1>1. Head(bridges) \in Names
  BY HeadTailProperties DEF CallsOK
<1> QED BY <1>1 DEF Route

LEMMA AddBridgeKeeps == ASSUME IInv, NEW a \in Names, AddBridge(a) PROVE IInv'
<1>1. CallsOK /\ bridges \in Seq(Names)
  BY DEF IInv, TypeOK, CallsOK
<1>2. /\ bridges' \in Seq(Names)
      /\ \A i, j \in 1 .. Len(bridges') : bridges'[i] = bridges'[j] => i = j
  <2>1. CASE a \in Registered
    BY <1>1, <2>1 DEF AddBridge, Upserted, CallsOK
  <2>2. CASE a \notin Registered
    <3>1. bridges' = Append(bridges, a)
      BY <2>2 DEF AddBridge, Upserted
    <3>2. /\ Append(bridges, a) \in Seq(Names) /\ Len(bridges) \in Nat
          /\ Len(Append(bridges, a)) = Len(bridges) + 1
          /\ \A i \in 1 .. Len(bridges) : Append(bridges, a)[i] = bridges[i]
          /\ Append(bridges, a)[Len(bridges) + 1] = a
      BY <1>1, AppendProperties, LenProperties
    <3>3. \A i \in 1 .. Len(bridges) : bridges[i] # a
      BY <2>2 DEF Registered
    <3> QED BY <1>1, <3>1, <3>2, <3>3 DEF CallsOK
  <2> QED BY <2>1, <2>2
<1>3. /\ "prober" \in Callers /\ pc["prober"] # "waiting"
      /\ Turn("prober", "probing", a, 0) /\ count' = count
      /\ UNCHANGED <<lock, firmware, shown, lastOk, clear>>
  BY DEF AddBridge, picture, Callers
<1> QED BY <1>2, <1>3, EarlyTurn

LEMMA BeginPushKeeps == ASSUME IInv, NEW id \in Names, BeginPush(id) PROVE IInv'
<1>1. CallsOK
  BY DEF IInv, TypeOK
<1>2. /\ "worker" \in Callers /\ pc["worker"] # "waiting" /\ Route(id) \in Names
      /\ Turn("worker", "probing", Route(id), PushLimit) /\ PushLimit \in Nat
      /\ count < MaxPushes /\ count' = count + 1
      /\ UNCHANGED <<lock, firmware, shown, lastOk, clear>>
  BY <1>1, Routed, TransportAssumption DEF BeginPush, Callers
<1>3. /\ bridges' \in Seq(Names)
      /\ \A i, j \in 1 .. Len(bridges') : bridges'[i] = bridges'[j] => i = j
  BY <1>1 DEF BeginPush, CallsOK
<1> QED BY <1>2, <1>3, EarlyTurn

LEMMA PushToFakeKeeps == ASSUME IInv, PushToFake PROVE IInv'
<1> USE DEF IInv
<1>1. /\ UNCHANGED <<bridges, pc, name, probe, left, lock, up, inbox, op, shown, clear>>
      /\ pc["worker"] = "idle"
  BY DEF PushToFake, calls, firmware
<1>2. /\ count \in 0 .. MaxPushes /\ count' \in 0 .. MaxPushes /\ count' = count + 1
      /\ lastOk \in 0 .. count /\ shown \in [n : 0 .. count, own : BOOLEAN]
      /\ lastOk' = IF FakeHealthy THEN count' ELSE lastOk
  BY TransportAssumption DEF PushToFake, TypeOK, PictureOK
<1>3. 0 .. count \subseteq 0 .. count' /\ count' \in 0 .. count'
  BY <1>2
<1>4. PictureOK' /\ (FakeHealthy \/ OkIsShown')
  <2>1. shown \in [n : 0 .. count', own : BOOLEAN] /\ lastOk' \in 0 .. count'
    BY <1>2, <1>3
  <2>2. FakeHealthy \/ OkIsShown'
    BY <1>1, <1>2 DEF OkIsShown
  <2> QED BY <1>1, <1>2, <2>1, <2>2 DEF PictureOK
<1>5. CallsOK' /\ FirmwareOK' /\ NameFits' /\ LockFits'
  BY <1>1 DEF TypeOK, CallsOK, FirmwareOK, NameFits, LockFits
<1>6. FirmwareFits'
  BY <1>1, <1>2, StillFits
<1> QED BY <1>4, <1>5, <1>6 DEF TypeOK

(* The actions of a caller that leave the table alone *)
LEMMA OtherTurnsKeep ==
  ASSUME IInv, NEW c \in Callers,
         \/ \E a \in Names : Begin(c, a)
         \/ Healthy(c) \/ Unhealthy(c) \/ TooLate(c)
  PROVE  IInv'
<1>1. /\ CallsOK /\ bridges' = bridges /\ count' = count
      /\ UNCHANGED <<lock, firmware, shown, lastOk, clear>>
  BY DEF IInv, TypeOK, Begin, Healthy, Unhealthy, TooLate, picture
<1>2. /\ bridges' \in Seq(Names)
      /\ \A i, j \in 1 .. Len(bridges') : bridges'[i] = bridges'[j] => i = j
  BY <1>1 DEF CallsOK
<1>3. ASSUME Finish(c), pc[c] # "waiting" PROVE IInv'
  BY <1>1, <1>2, <1>3, EarlyTurn, TransportAssumption DEF Finish
<1>4. ASSUME NEW a \in Names, Begin(c, a) PROVE IInv'
  BY <1>1, <1>2, <1>4, EarlyTurn DEF Begin
<1>5. ASSUME Healthy(c) PROVE IInv'
  <2>1. pc[c] # "waiting" /\ name[c] \in Names /\ left[c] \in Nat /\ TestLimit \in Nat
    BY <1>1, <1>5, TransportAssumption DEF Healthy, IInv, NameFits, CallsOK
  <2>2. ASSUME NEW limit \in Nat, Turn(c, "locking", name[c], limit) PROVE IInv'
    BY <1>1, <1>2, <2>1, <2>2, EarlyTurn
  <2> QED BY <1>3, <1>5, <2>1, <2>2 DEF Healthy
<1>6. ASSUME Unhealthy(c) \/ TooLate(c) PROVE IInv'
  BY <1>3, <1>6 DEF Unhealthy, TooLate
<1> QED BY <1>4, <1>5, <1>6

LEMMA DeleteBridgeKeeps == ASSUME IInv, NEW a \in Names, DeleteBridge(a) PROVE IInv'
<1> USE DEF IInv
<1>1. PICK m \in 1 .. Len(bridges) : bridges' = Without(bridges, m)
  BY DEF DeleteBridge
<1>2. bridges \in Seq(Names) /\ Len(bridges) \in Nat
  BY LenProperties DEF TypeOK, CallsOK
<1>3. /\ bridges' \in Seq(Names) /\ Len(bridges') = Len(bridges) - 1
      /\ \A j \in 1 .. Len(bridges) - 1 :
           bridges'[j] = bridges[IF j < m THEN j ELSE j + 1]
  BY <1>1, <1>2, WithoutOne
<1>4. \A i, j \in 1 .. Len(bridges) : bridges[i] = bridges[j] => i = j
  BY DEF TypeOK, CallsOK
<1>5. \A i, j \in 1 .. Len(bridges') : bridges'[i] = bridges'[j] => i = j
  <2> DEFINE From(j) == IF j < m THEN j ELSE j + 1
  <2>1. \A j \in 1 .. Len(bridges') :
          From(j) \in 1 .. Len(bridges) /\ bridges'[j] = bridges[From(j)]
    BY <1>2, <1>3
  <2>2. \A i, j \in 1 .. Len(bridges') : From(i) = From(j) => i = j
    BY <1>2, <1>3
  <2> HIDE DEF From
  <2> QED BY <1>4, <2>1, <2>2
<1>6. UNCHANGED <<pc, name, probe, left, lock, up, op, inbox, count, shown, lastOk, clear>>
  BY DEF DeleteBridge, calls, firmware, picture
<1>7. TypeOK'
  BY <1>3, <1>5, <1>6 DEF TypeOK, CallsOK, FirmwareOK, PictureOK
<1>8. FirmwareFits'
  BY <1>6 DEF FirmwareFits, OpFits, InboxFits, InboxOnce, Mine
<1> QED BY <1>6, <1>7, <1>8 DEF NameFits, LockFits, OkIsShown

LEMMA SendKeeps == ASSUME IInv, NEW c \in Callers, Send(c) PROVE IInv'
<1> USE DEF IInv
<1> DEFINE e == At[name[c]]
<1>1. /\ pc[c] = "locking" /\ name[c] \in Names /\ e \in Devices
      /\ Deadline(c) \in Nat /\ lock[name[c]] = None
  BY TransportAssumption DEF Send, NameFits, MayEnter, Deadline, TypeOK, CallsOK
<1>2. /\ pc' \in [Callers -> {"idle", "probing", "locking", "waiting"}]
      /\ name' \in [Callers -> Names \cup {None}]
      /\ probe' \in [Callers -> 0 .. HealthLimit] /\ left' \in [Callers -> Nat]
      /\ pc'[c] = "waiting" /\ name'[c] = name[c]
      /\ \A x \in Callers : x # c => pc'[x] = pc[x] /\ name'[x] = name[x]
  <2>1. CallsOK /\ Turn(c, "waiting", name[c], Deadline(c))
    BY DEF TypeOK, Send
  <2> QED BY <1>1, <2>1, TurnTaken
<1>3. UNCHANGED <<bridges, up, op, count, shown, lastOk>>
  BY DEF Send, picture
<1>4. lock' = [lock EXCEPT ![name[c]] = c] /\ clear' \subseteq Callers
  BY DEF Send, TypeOK, CallsOK
<1>5. /\ Request(c) \in Requests /\ Request(c).by = c /\ Request(c).n <= count
      /\ c = "worker" => Request(c).n = count
  BY TransportAssumption DEF Request, Requests, TypeOK, PictureOK
<1>6. CallsOK'
  BY <1>2, <1>3, <1>4 DEF TypeOK, CallsOK
<1>7. PictureOK' /\ (FakeHealthy \/ OkIsShown')
  BY <1>3 DEF TypeOK, PictureOK, OkIsShown
<1>8. NameFits' /\ LockFits'
  <2>1. NameFits'
    BY <1>1, <1>2 DEF NameFits
  <2>2. lock'[name[c]] = c /\ \A a \in Names : a # name[c] => lock'[a] = lock[a]
    BY <1>1, <1>4 DEF TypeOK, CallsOK
  <2>3. ASSUME NEW x \in Callers, x # c, pc[x] = "waiting"
        PROVE  lock'[name[x]] = x
    <3>1. name[x] \in Names /\ lock[name[x]] = x /\ x # None
      BY <2>3, TransportAssumption DEF NameFits, LockFits
    <3> QED BY <1>1, <2>2, <3>1
  <2>4. LockFits'
    BY <1>2, <2>2, <2>3 DEF LockFits
  <2> QED BY <2>1, <2>4
<1>9. ASSUME NEW r \in Requests, NEW d \in Devices, Mine(r, d)
      PROVE  r.by # c /\ Mine(r, d)'
  BY <1>1, <1>2, <1>3, <1>9, RequestTyped, TransportAssumption DEF Mine
<1>11. OpFits'
  BY <1>3, <1>9, OpTyped DEF FirmwareFits, OpFits
<1>12. ASSUME NEW d \in Devices
       PROVE  \/ inbox'[d] = inbox[d]
              \/ /\ d = e /\ inbox'[d] \in Seq(Requests)
                 /\ Len(inbox'[d]) = Len(inbox[d]) + 1
                 /\ \A i \in 1 .. Len(inbox[d]) : inbox'[d][i] = inbox[d][i]
                 /\ inbox'[d][Len(inbox[d]) + 1] = Request(c)
  <2>1. inbox \in [Devices -> Seq(Requests)]
    BY DEF TypeOK, FirmwareOK
  <2>2. CASE ~up[e]
    BY <2>2 DEF Send
  <2>3. CASE up[e]
    <3>1. inbox' = [inbox EXCEPT ![e] = Append(inbox[e], Request(c))]
      BY <2>3, <2>1, <1>1 DEF Send
    <3>2. CASE d # e
      BY <1>1, <2>1, <3>1, <3>2
    <3>3. CASE d = e
      <4>1. inbox'[d] = Append(inbox[d], Request(c)) /\ inbox[d] \in Seq(Requests)
        BY <1>1, <2>1, <3>1, <3>3
      <4>2. LET t == Append(inbox[d], Request(c)) IN
            /\ t \in Seq(Requests) /\ Len(t) = Len(inbox[d]) + 1
            /\ \A i \in 1 .. Len(inbox[d]) : t[i] = inbox[d][i]
            /\ t[Len(inbox[d]) + 1] = Request(c)
        <5> HIDE DEF e
        <5> QED BY <1>5, <4>1, AppendProperties
      <4> HIDE DEF e
      <4> QED BY <3>3, <4>1, <4>2
    <3> QED BY <3>2, <3>3
  <2> QED BY <2>2, <2>3
<1>13. FirmwareOK'
  <2>1. inbox \in [Devices -> Seq(Requests)]
    BY DEF TypeOK, FirmwareOK
  <2>2. inbox' = [d \in Devices |-> inbox'[d]]
    BY <2>1 DEF Send
  <2>3. \A d \in Devices : inbox'[d] \in Seq(Requests)
    BY <1>12, <2>1
  <2>4. inbox' \in [Devices -> Seq(Requests)]
    BY <2>2, <2>3
  <2> QED BY <1>3, <2>4 DEF TypeOK, FirmwareOK
<1> HIDE DEF e
<1>14. ASSUME NEW d \in Devices, NEW i \in 1 .. Len(inbox'[d])
       PROVE  \/ /\ i \in 1 .. Len(inbox[d]) /\ inbox'[d][i] = inbox[d][i]
                 /\ inbox[d][i] \in Requests /\ Mine(inbox[d][i], d)
              \/ d = e /\ i = Len(inbox[d]) + 1 /\ inbox'[d][i] = Request(c)
  <2>1. /\ Len(inbox[d]) \in Nat
        /\ \A j \in 1 .. Len(inbox[d]) : inbox[d][j] \in Requests /\ Mine(inbox[d][j], d)
    BY InboxTyped DEF FirmwareFits, InboxFits
  <2> QED BY <1>12, <2>1
<1>15. InboxFits'
  <2> SUFFICES ASSUME NEW d \in Devices, NEW i \in 1 .. Len(inbox'[d])
               PROVE  /\ Mine(inbox[d][i], d)'
                      /\ op'[d] # Idle /\ inbox'[d][i].by # Gone =>
                           op'[d].req.by # inbox'[d][i].by
    BY DEF InboxFits
  <2>1. CASE i \in 1 .. Len(inbox[d]) /\ inbox'[d][i] = inbox[d][i]
    <3>1. Mine(inbox[d][i], d) /\ inbox[d][i] \in Requests
      BY <2>1, InboxTyped DEF FirmwareFits, InboxFits
    <3> DEFINE r == inbox[d][i]
    <3>2. Mine(r, d)'
      <4>1. \A q \in Requests : Mine(q, d) => Mine(q, d)'
        BY <1>9
      <4> QED BY <2>1, <3>1, <4>1 DEF Mine
    <3> QED BY <1>3, <2>1, <3>2 DEF FirmwareFits, InboxFits
  <2>2. CASE d = e /\ inbox'[d][i] = Request(c)
    <3>1. op[d] # Idle => op[d].req.by # c
      BY <1>9, OpTyped DEF FirmwareFits, OpFits
    <3>2. Mine(inbox[d][i], d)'
      BY <1>2, <1>3, <1>5, <2>2 DEF Mine, e
    <3> QED BY <1>3, <1>5, <2>2, <3>1, <3>2
  <2> QED BY <1>14, <2>1, <2>2
<1>16. InboxOnce'
  <2> SUFFICES ASSUME NEW d \in Devices, NEW i \in 1 .. Len(inbox'[d]),
                      NEW j \in 1 .. Len(inbox'[d]),
                      inbox'[d][i].by = inbox'[d][j].by, inbox'[d][i].by # Gone
               PROVE  i = j
    BY DEF InboxOnce
  <2>1. \A k \in 1 .. Len(inbox[d]) : inbox[d][k].by # c
    BY <1>9, InboxTyped DEF FirmwareFits, InboxFits
  <2>2. \A k \in 1 .. Len(inbox'[d]) :
          \/ k \in 1 .. Len(inbox[d]) /\ inbox'[d][k] = inbox[d][k] /\ inbox[d][k].by # c
          \/ k = Len(inbox[d]) + 1 /\ inbox'[d][k].by = c
    BY <1>5, <1>14, <2>1
  <2>3. \A k, l \in 1 .. Len(inbox[d]) :
          inbox[d][k].by = inbox[d][l].by /\ inbox[d][k].by # Gone => k = l
    BY DEF FirmwareFits, InboxOnce
  <2> QED BY <2>2, <2>3
<1> QED BY <1>6, <1>7, <1>8, <1>11, <1>13, <1>15, <1>16 DEF TypeOK, FirmwareFits

(* A call that returns gives back its own lock and nobody else's.           *)
LEMMA Returned ==
  ASSUME IInv, NEW c \in Callers, pc[c] = "waiting", Return(c), bridges' = bridges
  PROVE  /\ CallsOK' /\ NameFits' /\ LockFits'
         /\ pc'[c] = "idle" /\ clear' = clear \ {c}
         /\ \A x \in Callers : x # c =>
              pc'[x] = pc[x] /\ name'[x] = name[x] /\ left'[x] = left[x]
<1>1. CallsOK /\ Turn(c, "idle", None, 0) /\ lock' = [lock EXCEPT ![name[c]] = None]
  BY DEF IInv, TypeOK, Return, Finish
<1>2. /\ pc' \in [Callers -> {"idle", "probing", "locking", "waiting"}]
      /\ name' \in [Callers -> Names \cup {None}]
      /\ probe' \in [Callers -> 0 .. HealthLimit] /\ left' \in [Callers -> Nat]
      /\ pc'[c] = "idle" /\ name'[c] = None
      /\ \A x \in Callers : x # c =>
           pc'[x] = pc[x] /\ name'[x] = name[x] /\ left'[x] = left[x]
  BY <1>1, TurnTaken
<1>3. CallsOK'
  BY <1>1, <1>2 DEF CallsOK, Return
<1>4. NameFits'
  BY <1>2 DEF IInv, NameFits
<1>5. LockFits'
  <2> SUFFICES ASSUME NEW x \in Callers, x # c, pc[x] = "waiting"
               PROVE  lock'[name[x]] = x
    BY <1>2 DEF LockFits
  <2>1. name[x] \in Names /\ lock[name[x]] = x /\ lock[name[c]] = c
    BY DEF IInv, NameFits, LockFits
  <2> QED BY <1>1, <2>1 DEF CallsOK
<1> QED BY <1>2, <1>3, <1>4, <1>5 DEF Return

LEMMA LeaveKeeps == ASSUME IInv, NEW c \in Callers, Leave(c) PROVE IInv'
<1> USE DEF IInv
<1>1. /\ FirmwareOK'
      /\ \A d \in Devices :
           /\ op'[d] = Idle <=> op[d] = Idle
           /\ op[d] # Idle => op'[d].req = Disowned(op[d].req, c)
           /\ \A i \in 1 .. Len(inbox'[d]) : \E j \in 1 .. Len(inbox[d]) :
                /\ inbox'[d][i] = Disowned(inbox[d][j], c)
                /\ \A k \in 1 .. Len(inbox'[d]) : k # i =>
                     \E l \in 1 .. Len(inbox[d]) :
                       l # j /\ inbox'[d][k] = Disowned(inbox[d][l], c)
  BY LeaveEffect DEF FirmwareFits
<1>2. /\ pc[c] = "waiting" /\ Return(c) /\ bridges' = bridges
      /\ UNCHANGED <<count, shown, lastOk>>
  BY DEF Leave, picture
<1>3. /\ CallsOK' /\ NameFits' /\ LockFits' /\ pc'[c] = "idle"
      /\ \A x \in Callers : x # c => pc'[x] = pc[x] /\ name'[x] = name[x]
  BY <1>2, Returned
<1>4. PictureOK' /\ (FakeHealthy \/ OkIsShown')
  BY <1>2 DEF TypeOK, PictureOK, OkIsShown
<1>5. ASSUME NEW r \in Requests, NEW d \in Devices, Mine(r, d)
      PROVE  \A q : q = Disowned(r, c) => Mine(q, d)'
  <2>1. /\ Disowned(r, c).by = (IF r.by = c THEN Gone ELSE r.by)
        /\ Disowned(r, c).n = r.n
    BY DisownedRequest
  <2> HIDE DEF Disowned
  <2> QED BY <1>2, <1>3, <1>5, <2>1, RequestTyped DEF Mine
<1>6. \A d \in Devices :
        /\ op[d] # Idle => op[d].req \in Requests /\ Mine(op[d].req, d)
        /\ \A i \in 1 .. Len(inbox[d]) :
             inbox[d][i] \in Requests /\ Mine(inbox[d][i], d)
  BY OpTyped, InboxTyped DEF FirmwareFits, OpFits, InboxFits
<1>7. OpFits'
  <2> SUFFICES ASSUME NEW d \in Devices, op'[d] # Idle
               PROVE  Mine(op[d].req, d)'
    BY DEF OpFits
  <2>1. op'[d].req = Disowned(op[d].req, c) /\ op[d].req \in Requests /\ Mine(op[d].req, d)
    BY <1>1, <1>6
  <2>2. \A q : q = Disowned(op[d].req, c) => Mine(q, d)'
    BY <1>5, <2>1
  <2> QED BY <2>1, <2>2 DEF Mine
<1>8. InboxFits'
  <2> SUFFICES ASSUME NEW d \in Devices, NEW i \in 1 .. Len(inbox'[d])
               PROVE  /\ Mine(inbox[d][i], d)'
                      /\ op'[d] # Idle /\ inbox'[d][i].by # Gone =>
                           op'[d].req.by # inbox'[d][i].by
    BY DEF InboxFits
  <2>1. PICK j \in 1 .. Len(inbox[d]) : inbox'[d][i] = Disowned(inbox[d][j], c)
    BY <1>1
  <2>2. inbox[d][j] \in Requests /\ Mine(inbox[d][j], d)
    BY <1>6
  <2>3. \A q : q = Disowned(inbox[d][j], c) => Mine(q, d)'
    BY <1>5, <2>2
  <2>4. Mine(inbox[d][i], d)'
    BY <2>1, <2>3 DEF Mine
  <2>5. ASSUME op'[d] # Idle, inbox'[d][i].by # Gone
        PROVE  op'[d].req.by # inbox'[d][i].by
    <3>1. /\ op[d] # Idle /\ op'[d].req = Disowned(op[d].req, c) /\ op[d].req \in Requests
      BY <1>1, <1>6, <2>5
    <3>2. /\ Disowned(op[d].req, c).by = (IF op[d].req.by = c THEN Gone ELSE op[d].req.by)
          /\ Disowned(inbox[d][j], c).by
               = (IF inbox[d][j].by = c THEN Gone ELSE inbox[d][j].by)
      BY <2>2, <3>1, DisownedRequest
    <3>3. inbox[d][j].by # Gone => op[d].req.by # inbox[d][j].by
      BY <3>1 DEF FirmwareFits, InboxFits
    <3> HIDE DEF Disowned
    <3> QED BY <2>1, <2>5, <3>1, <3>2, <3>3
  <2> QED BY <2>4, <2>5
<1>9. InboxOnce'
  <2> SUFFICES ASSUME NEW d \in Devices, NEW i \in 1 .. Len(inbox'[d]),
                      NEW k \in 1 .. Len(inbox'[d]), k # i,
                      inbox'[d][i].by = inbox'[d][k].by, inbox'[d][i].by # Gone
               PROVE  FALSE
    BY DEF InboxOnce
  <2>1. PICK j \in 1 .. Len(inbox[d]) :
          /\ inbox'[d][i] = Disowned(inbox[d][j], c)
          /\ \E l \in 1 .. Len(inbox[d]) :
               l # j /\ inbox'[d][k] = Disowned(inbox[d][l], c)
    BY <1>1
  <2>2. PICK l \in 1 .. Len(inbox[d]) : l # j /\ inbox'[d][k] = Disowned(inbox[d][l], c)
    BY <2>1
  <2>3. /\ Disowned(inbox[d][j], c).by
             = (IF inbox[d][j].by = c THEN Gone ELSE inbox[d][j].by)
        /\ Disowned(inbox[d][l], c).by
             = (IF inbox[d][l].by = c THEN Gone ELSE inbox[d][l].by)
    BY <1>6, DisownedRequest
  <2>4. inbox[d][j].by = inbox[d][l].by /\ inbox[d][j].by # Gone => j = l
    BY DEF FirmwareFits, InboxOnce
  <2> HIDE DEF Disowned
  <2> QED BY <2>1, <2>2, <2>3, <2>4
<1> QED BY <1>1, <1>3, <1>4, <1>7, <1>8, <1>9 DEF TypeOK, FirmwareFits

LEMMA ServeKeeps == ASSUME IInv, NEW e \in Devices, Serve(e) PROVE IInv'
<1> USE DEF IInv
<1>1. PICK m \in 1 .. Len(inbox[e]) :
        /\ op' = [op EXCEPT ![e] = [req |-> inbox[e][m], time |-> 0]]
        /\ inbox' = [inbox EXCEPT ![e] = Without(@, m)]
  BY DEF Serve
<1>2. UNCHANGED <<bridges, pc, name, probe, left, lock, up, count, shown, lastOk, clear>>
  BY DEF Serve, calls, picture
<1>3. /\ op \in [Devices -> [req : Requests, time : Nat] \cup {Idle}]
      /\ inbox \in [Devices -> Seq(Requests)]
  BY DEF TypeOK, FirmwareOK
<1>4. /\ inbox[e] \in Seq(Requests) /\ Len(inbox[e]) \in Nat
      /\ \A i \in 1 .. Len(inbox[e]) : inbox[e][i] \in Requests
  BY InboxTyped
<1>5. /\ inbox'[e] \in Seq(Requests) /\ Len(inbox'[e]) = Len(inbox[e]) - 1
      /\ \A j \in 1 .. Len(inbox[e]) - 1 :
           inbox'[e][j] = inbox[e][IF j < m THEN j ELSE j + 1]
  <2>1. inbox'[e] = Without(inbox[e], m)
    BY <1>1, <1>3
  <2> QED BY <1>4, <2>1, WithoutOne
<1>6. \A d \in Devices : d # e => inbox'[d] = inbox[d] /\ op'[d] = op[d]
  BY <1>1, <1>3
<1>7. op'[e] = [req |-> inbox[e][m], time |-> 0] /\ op'[e].req = inbox[e][m]
  BY <1>1, <1>3
<1>8. TypeOK'
  <2>1. inbox' \in [Devices -> Seq(Requests)]
    <3>1. inbox' = [d \in Devices |-> inbox'[d]]
      BY <1>1, <1>3
    <3> QED BY <1>3, <1>5, <1>6, <3>1
  <2>2. op'[e] \in [req : Requests, time : Nat]
    BY <1>4, <1>7
  <2>3. op' \in [Devices -> [req : Requests, time : Nat] \cup {Idle}]
    <3>1. op' = [d \in Devices |-> op'[d]]
      BY <1>1, <1>3
    <3> QED BY <1>3, <1>6, <2>2, <3>1
  <2> QED BY <1>2, <2>1, <2>3 DEF TypeOK, CallsOK, FirmwareOK, PictureOK
<1>9. \A r, d : Mine(r, d) => Mine(r, d)'
  BY <1>2 DEF Mine
<1> DEFINE From(j) == IF j < m THEN j ELSE j + 1
<1>10. /\ \A j \in 1 .. Len(inbox'[e]) : /\ From(j) \in 1 .. Len(inbox[e]) /\ From(j) # m
                                        /\ inbox'[e][j] = inbox[e][From(j)]
       /\ \A j, k \in 1 .. Len(inbox'[e]) : From(j) = From(k) => j = k
  BY <1>4, <1>5
<1> HIDE DEF From
<1>11. OpFits'
  <2> SUFFICES ASSUME NEW d \in Devices, op'[d] # Idle PROVE Mine(op[d].req, d)'
    BY DEF OpFits
  <2>1. CASE d = e
    <3>1. Mine(inbox[e][m], e)
      BY DEF FirmwareFits, InboxFits
    <3>2. \A r : r = inbox[e][m] => Mine(r, e)'
      BY <1>9, <3>1
    <3> QED BY <1>7, <2>1, <3>2 DEF Mine
  <2>2. CASE d # e
    <3>1. Mine(op[d].req, d) /\ op'[d] = op[d]
      BY <1>6, <2>2 DEF FirmwareFits, OpFits
    <3> QED BY <1>2, <3>1 DEF Mine
  <2> QED BY <2>1, <2>2
<1>12. InboxFits'
  <2> SUFFICES ASSUME NEW d \in Devices, NEW i \in 1 .. Len(inbox'[d])
               PROVE  /\ Mine(inbox[d][i], d)'
                      /\ op'[d] # Idle /\ inbox'[d][i].by # Gone =>
                           op'[d].req.by # inbox'[d][i].by
    BY DEF InboxFits
  <2>1. CASE d = e
    <3>1. /\ From(i) \in 1 .. Len(inbox[e]) /\ From(i) # m
          /\ inbox'[e][i] = inbox[e][From(i)]
      BY <1>10, <2>1
    <3>2. /\ Mine(inbox[e][From(i)], e)
          /\ inbox[e][From(i)].by = inbox[e][m].by /\ inbox[e][From(i)].by # Gone
               => From(i) = m
      BY <3>1 DEF FirmwareFits, InboxFits, InboxOnce
    <3> QED BY <1>2, <1>7, <2>1, <3>1, <3>2 DEF Mine
  <2>2. CASE d # e
    <3>1. inbox'[d] = inbox[d] /\ op'[d] = op[d]
      BY <1>6, <2>2
    <3>2. /\ Mine(inbox[d][i], d)
          /\ op[d] # Idle /\ inbox[d][i].by # Gone => op[d].req.by # inbox[d][i].by
      BY <3>1 DEF FirmwareFits, InboxFits
    <3> QED BY <1>2, <3>1, <3>2 DEF Mine
  <2> QED BY <2>1, <2>2
<1>13. InboxOnce'
  <2> SUFFICES ASSUME NEW d \in Devices, NEW i \in 1 .. Len(inbox'[d]),
                      NEW k \in 1 .. Len(inbox'[d]),
                      inbox'[d][i].by = inbox'[d][k].by, inbox'[d][i].by # Gone
               PROVE  i = k
    BY DEF InboxOnce
  <2>1. CASE d = e
    <3>1. /\ From(i) \in 1 .. Len(inbox[e]) /\ inbox'[e][i] = inbox[e][From(i)]
          /\ From(k) \in 1 .. Len(inbox[e]) /\ inbox'[e][k] = inbox[e][From(k)]
          /\ From(i) = From(k) => i = k
      BY <1>10, <2>1
    <3>2. \A j, l \in 1 .. Len(inbox[e]) :
            inbox[e][j].by = inbox[e][l].by /\ inbox[e][j].by # Gone => j = l
      BY DEF FirmwareFits, InboxOnce
    <3> QED BY <2>1, <3>1, <3>2
  <2>2. CASE d # e
    BY <1>6, <2>2 DEF FirmwareFits, InboxOnce
  <2> QED BY <2>1, <2>2
<1>14. NameFits' /\ LockFits' /\ (FakeHealthy \/ OkIsShown')
  BY <1>2 DEF NameFits, LockFits, OkIsShown
<1> QED BY <1>8, <1>11, <1>12, <1>13, <1>14 DEF FirmwareFits

(* A task that ends answers the caller that owns its request, if any.       *)
LEMMA TaskEnds ==
  ASSUME IInv, NEW e \in Devices, op[e] # Idle, Respond(op[e].req.by),
         op' = [op EXCEPT ![e] = Idle], UNCHANGED <<bridges, up, inbox, count>>
  PROVE  CallsOK' /\ FirmwareOK' /\ NameFits' /\ LockFits' /\ FirmwareFits'
<1> USE DEF IInv
<1> DEFINE c == op[e].req.by
<1>1. op[e].req \in Requests /\ c \in Callers \cup {Gone} /\ Mine(op[e].req, e)
  BY OpTyped, RequestTyped DEF FirmwareFits, OpFits
<1>2. op \in [Devices -> [req : Requests, time : Nat] \cup {Idle}]
  BY DEF TypeOK, FirmwareOK
<1>3. FirmwareOK'
  BY <1>2 DEF TypeOK, FirmwareOK
<1>4. op'[e] = Idle /\ \A d \in Devices : d # e => op'[d] = op[d]
  BY <1>2
<1>5. /\ CallsOK' /\ NameFits' /\ LockFits'
      /\ \A x \in Callers : x # c => pc'[x] = pc[x] /\ name'[x] = name[x]
  <2>1. CASE c = Gone
    BY <2>1 DEF Respond, TypeOK, CallsOK, NameFits, LockFits, calls
  <2>2. CASE c # Gone
    <3>1. c \in Callers /\ pc[c] = "waiting" /\ Return(c)
      BY <1>1, <2>2 DEF Mine, Respond
    <3> HIDE DEF c
    <3> QED BY <3>1, Returned
  <2> QED BY <2>1, <2>2
<1>6. ASSUME NEW r \in Requests, NEW d \in Devices, Mine(r, d), r.by = Gone \/ r.by # c
      PROVE  Mine(r, d)'
  BY <1>5, <1>6, RequestTyped DEF Mine
<1>7. OpFits'
  <2> SUFFICES ASSUME NEW d \in Devices, op'[d] # Idle PROVE Mine(op[d].req, d)'
    BY DEF OpFits
  <2>1. d # e /\ op'[d] = op[d] /\ op[d].req \in Requests /\ Mine(op[d].req, d)
    BY <1>4, OpTyped DEF FirmwareFits, OpFits
  <2>2. op[d].req.by = Gone \/ op[d].req.by # c
    BY <1>1, <2>1 DEF Mine
  <2>3. \A r : r = op[d].req => Mine(r, d)'
    BY <1>6, <2>1, <2>2
  <2> QED BY <2>1, <2>3 DEF Mine
<1>8. InboxFits'
  <2> SUFFICES ASSUME NEW d \in Devices, NEW i \in 1 .. Len(inbox'[d])
               PROVE  /\ Mine(inbox[d][i], d)'
                      /\ op'[d] # Idle /\ inbox'[d][i].by # Gone =>
                           op'[d].req.by # inbox'[d][i].by
    BY DEF InboxFits
  <2>1. /\ inbox[d][i] \in Requests /\ Mine(inbox[d][i], d) /\ inbox' = inbox
        /\ op[d] # Idle /\ inbox[d][i].by # Gone => op[d].req.by # inbox[d][i].by
    BY InboxTyped DEF FirmwareFits, InboxFits
  <2>2. inbox[d][i].by = Gone \/ inbox[d][i].by # c
    <3>1. CASE d = e
      BY <2>1, <3>1
    <3>2. CASE d # e
      BY <1>1, <2>1, <3>2 DEF Mine
    <3> QED BY <3>1, <3>2
  <2>3. \A r : r = inbox[d][i] => Mine(r, d)'
    BY <1>6, <2>1, <2>2
  <2> QED BY <1>4, <2>1, <2>3 DEF Mine
<1>9. InboxOnce'
  BY DEF FirmwareFits, InboxOnce
<1> QED BY <1>3, <1>5, <1>7, <1>8, <1>9 DEF FirmwareFits

LEMMA ScanEndsKeeps == ASSUME IInv, NEW e \in Devices, ScanEnds(e) PROVE IInv'
<1>1. /\ op[e] # Idle /\ Respond(op[e].req.by) /\ op' = [op EXCEPT ![e] = Idle]
      /\ UNCHANGED <<bridges, up, inbox, count, shown, lastOk>>
  BY DEF ScanEnds, Serving, picture
<1>2. CallsOK' /\ FirmwareOK' /\ NameFits' /\ LockFits' /\ FirmwareFits'
  BY <1>1, TaskEnds
<1>3. PictureOK' /\ (FakeHealthy \/ OkIsShown')
  BY <1>1 DEF IInv, TypeOK, PictureOK, OkIsShown
<1> QED BY <1>2, <1>3 DEF IInv, TypeOK

(* The worker's request is its latest push, so a picture of its own is      *)
(* never older than what the queue has recorded.                            *)
LEMMA PushEndsKeeps ==
  ASSUME IInv, NEW e \in Devices, NEW ok \in BOOLEAN, NEW reached \in BOOLEAN,
         PushEnds(e, ok, reached)
  PROVE  IInv'
<1> DEFINE r == op[e].req
<1>1. /\ op[e] # Idle /\ Respond(r.by) /\ op' = [op EXCEPT ![e] = Idle]
      /\ UNCHANGED <<bridges, up, inbox, count>> /\ (ok => reached)
      /\ shown' = IF reached THEN [n |-> r.n, own |-> r.by = "worker"] ELSE shown
      /\ lastOk' = IF r.by = "worker" /\ ok THEN r.n ELSE lastOk
  BY DEF PushEnds, Serving, Accepted
<1>2. CallsOK' /\ FirmwareOK' /\ NameFits' /\ LockFits' /\ FirmwareFits'
  BY <1>1, TaskEnds
<1>3. /\ r.n \in 0 .. count
      /\ r.by = "worker" => r.n = count
  <2>1. Mine(r, e) /\ r.n \in Nat
    BY <1>1, OpTyped, RequestTyped DEF IInv, FirmwareFits, OpFits
  <2>2. "worker" # Gone /\ count \in Nat
    BY TransportAssumption DEF Callers, IInv, TypeOK, PictureOK
  <2> QED BY <2>1, <2>2 DEF Mine
<1>4. /\ count \in 0 .. MaxPushes /\ lastOk \in 0 .. count
      /\ shown \in [n : 0 .. count, own : BOOLEAN] /\ (FakeHealthy \/ OkIsShown)
  BY DEF IInv, TypeOK, PictureOK
<1> HIDE DEF r
<1>5. PictureOK'
  <2>1. shown' \in [n : 0 .. count, own : BOOLEAN]
    BY <1>1, <1>3, <1>4
  <2>2. lastOk' \in 0 .. count
    BY <1>1, <1>3, <1>4
  <2> QED BY <1>1, <1>4, <2>1, <2>2 DEF PictureOK
<1>6. FakeHealthy \/ OkIsShown'
  <2>1. CASE reached
    <3>1. shown' = [n |-> r.n, own |-> r.by = "worker"] /\ lastOk' \in {r.n, lastOk}
      BY <1>1, <2>1
    <3>2. (shown'.own <=> r.by = "worker") /\ shown'.n = r.n
      BY <3>1
    <3>3. r.by = "worker" => lastOk' <= r.n
      BY <1>3, <1>4, <3>1
    <3> QED BY <3>2, <3>3, <1>3, <1>4 DEF OkIsShown
  <2>2. CASE ~reached
    BY <1>1, <1>4, <2>2 DEF OkIsShown
  <2> QED BY <2>1, <2>2
<1> QED BY <1>2, <1>5, <1>6 DEF IInv, TypeOK

LEMMA PowerLostKeeps == ASSUME IInv, NEW e \in Devices, PowerLost(e) PROVE IInv'
<1> USE DEF IInv
<1>1. UNCHANGED <<bridges, pc, name, probe, left, lock, count, shown, lastOk>>
  BY DEF PowerLost, calls, picture
<1>2. /\ up' = [up EXCEPT ![e] = FALSE] /\ inbox' = [inbox EXCEPT ![e] = <<>>]
      /\ op' = [op EXCEPT ![e] = Idle] /\ clear' \subseteq clear
  BY DEF PowerLost
<1>3. FirmwareOK /\ FirmwareOK'
  BY <1>2 DEF TypeOK, FirmwareOK
<1>4. /\ op'[e] = Idle /\ inbox'[e] = <<>>
      /\ \A d \in Devices : d # e => op'[d] = op[d] /\ inbox'[d] = inbox[d]
  BY <1>2, <1>3 DEF FirmwareOK
<1>5. TypeOK'
  BY <1>1, <1>2, <1>3 DEF TypeOK, CallsOK, PictureOK
<1>6. Len(inbox'[e]) = 0
  BY <1>4
<1>7. FirmwareFits'
  BY <1>1, <1>4, <1>6 DEF FirmwareFits, OpFits, InboxFits, InboxOnce, Mine
<1> QED BY <1>1, <1>5, <1>7 DEF NameFits, LockFits, OkIsShown

LEMMA PowerBackKeeps == ASSUME IInv, NEW e \in Devices, PowerBack(e) PROVE IInv'
<1> USE DEF IInv
<1>1. UNCHANGED <<bridges, pc, name, probe, left, lock, inbox, op, count, shown, lastOk, clear>>
  BY DEF PowerBack, calls, picture
<1>2. up' = [up EXCEPT ![e] = TRUE]
  BY DEF PowerBack
<1>3. TypeOK'
  BY <1>1, <1>2 DEF TypeOK, CallsOK, FirmwareOK, PictureOK
<1>4. FirmwareFits'
  BY <1>1 DEF FirmwareFits, OpFits, InboxFits, InboxOnce, Mine
<1> QED BY <1>1, <1>3, <1>4 DEF NameFits, LockFits, OkIsShown

LEMMA TickKeeps == ASSUME IInv, Tick PROVE IInv'
<1> USE DEF IInv
<1>1. UNCHANGED <<bridges, pc, name, lock, up, inbox, count, shown, lastOk, clear>>
  BY DEF Tick, picture
<1>2. ASSUME NEW d \in Devices
      PROVE  /\ op'[d] \in [req : Requests, time : Nat] \cup {Idle}
             /\ op'[d].req = op[d].req
             /\ op'[d] = Idle <=> op[d] = Idle
             /\ op[d] # Idle => op'[d].time = op[d].time + 1
  <2>1. op'[d] = IF op[d] = Idle THEN Idle ELSE [op[d] EXCEPT !.time = @ + 1]
    BY DEF Tick
  <2>2. CASE op[d] = Idle
    BY <2>1, <2>2
  <2>3. CASE op[d] # Idle
    <3>1. op[d] \in [req : Requests, time : Nat]
      BY <2>3, OpTyped
    <3>2. /\ op'[d] \in [req : Requests, time : Nat]
          /\ op'[d].req = op[d].req /\ op'[d].time = op[d].time + 1
      BY <2>1, <2>3, <3>1
    <3>3. op'[d] # Idle
      BY <3>1, <3>2, RequestTyped DEF Idle
    <3> QED BY <2>3, <3>2, <3>3
  <2> QED BY <2>2, <2>3
<1>3. op' \in [Devices -> [req : Requests, time : Nat] \cup {Idle}]
  <2>1. op' = [d \in Devices |-> op'[d]]
    BY DEF Tick
  <2> QED BY <1>2, <2>1
<1>4. /\ probe' \in [Callers -> 0 .. HealthLimit] /\ left' \in [Callers -> Nat]
  BY TransportAssumption DEF Tick, Less, TypeOK, CallsOK
<1>5. TypeOK'
  BY <1>1, <1>3, <1>4 DEF TypeOK, CallsOK, FirmwareOK, PictureOK
<1>6. FirmwareFits'
  BY <1>1, <1>2 DEF FirmwareFits, OpFits, InboxFits, InboxOnce, Mine
<1> QED BY <1>1, <1>5, <1>6 DEF NameFits, LockFits, OkIsShown

-----------------------------------------------------------------------------
(* The theorems *)

LEMMA InitKeeps == Init => IInv
<1> SUFFICES ASSUME Init PROVE IInv
  OBVIOUS
<1>1. <<>> \in Seq(Names) /\ Len(<<>>) = 0 /\ <<>> \in Seq(Requests)
  BY EmptySeq
<1>2. CallsOK
  BY <1>1, TransportAssumption DEF Init, CallsOK
<1>3. FirmwareOK
  BY <1>1 DEF Init, FirmwareOK
<1>4. PictureOK /\ OkIsShown
  BY TransportAssumption DEF Init, PictureOK, OkIsShown
<1>5. NameFits /\ LockFits /\ FirmwareFits
  BY <1>1 DEF Init, NameFits, LockFits, FirmwareFits, OpFits, InboxFits, InboxOnce
<1> QED BY <1>2, <1>3, <1>4, <1>5 DEF IInv, TypeOK

LEMMA StutterKeeps == ASSUME IInv, UNCHANGED vars PROVE IInv'
<1>1. UNCHANGED <<bridges, pc, name, probe, left, lock, up, inbox, op, count, shown,
                  lastOk, clear>>
  BY DEF vars, calls, firmware, picture
<1> QED BY <1>1 DEF IInv, TypeOK, CallsOK, FirmwareOK, PictureOK, NameFits, LockFits,
                    FirmwareFits, OpFits, InboxFits, InboxOnce, Mine, OkIsShown

LEMMA StepKeeps == IInv /\ [Next]_vars => IInv'
<1> SUFFICES ASSUME IInv, [Next]_vars PROVE IInv'
  OBVIOUS
<1>1. ASSUME NEW a \in Names, AddBridge(a) \/ DeleteBridge(a) \/ BeginPush(a)
      PROVE  IInv'
  BY <1>1, AddBridgeKeeps, DeleteBridgeKeeps, BeginPushKeeps
<1>2. ASSUME NEW c \in Callers, NEW a \in Names, Begin(c, a) PROVE IInv'
  BY <1>2, OtherTurnsKeep
<1>3. ASSUME NEW c \in Callers, Caller(c) \/ ConnectionBreaks(c) PROVE IInv'
  BY <1>3, OtherTurnsKeep, SendKeeps, LeaveKeeps DEF Caller, Expire, ConnectionBreaks
<1>4. ASSUME NEW d \in Devices, Task(d) \/ PowerLost(d) \/ PowerBack(d) PROVE IInv'
  BY <1>4, ServeKeeps, ScanEndsKeeps, PushEndsKeeps, PowerLostKeeps, PowerBackKeeps
     DEF Task
<1> QED BY <1>1, <1>2, <1>3, <1>4, PushToFakeKeeps, TickKeeps, StutterKeeps DEF Next

(* The invariant the others follow from: who waits holds the lock, and the  *)
(* requests at the bridges belong to those who wait for them, each at the   *)
(* bridge it called and there once.                                         *)
THEOREM Inductive == Spec => []IInv
<1>1. Init => IInv
  BY InitKeeps
<1>2. IInv /\ [Next]_vars => IInv'
  BY StepKeeps
<1> QED BY <1>1, <1>2, PTL DEF Spec

(* The variables keep their types: no address has two rows, no deadline     *)
(* goes below zero (store.go AddBridge, netbridge.go).                      *)
THEOREM TypeCorrect == Spec => []TypeOK
<1>1. IInv => TypeOK
  BY DEF IInv
<1> QED BY <1>1, Inductive, PTL

(* NetBridge.ble: at most one push or scan that somebody waits for, at each *)
(* address, for any number of addresses and bridges.                        *)
THEOREM OneCallHolds == Spec => []OneCallPerBridge
<1>1. IInv => OneCallPerBridge
  BY DEF IInv, LockFits, OneCallPerBridge
<1> QED BY <1>1, Inductive, PTL

(* The tag shows nothing older than the last push the queue recorded as ok, *)
(* whatever requests have been given up and served late, as long as the     *)
(* fake does not pretend.                                                   *)
THEOREM OkIsShownHolds == ASSUME ~FakeHealthy PROVE Spec => []OkIsShown
<1>1. IInv => OkIsShown
  BY DEF IInv
<1> QED BY <1>1, Inductive, PTL

-----------------------------------------------------------------------------
(* A request that met a free bridge: nobody else can reach that bridge      *)
(* while its caller holds the lock, unless it has another address.          *)

(* What a request in time needs from a step that leaves its bridge alone *)
LEMMA StaysOnItsWay ==
  ASSUME NEW x \in Callers, OnItsWay(x), name'[x] = name[x], left'[x] = left[x],
         up'[At[name[x]]] = up[At[name[x]]],
         inbox'[At[name[x]]] = inbox[At[name[x]]], op'[At[name[x]]] = op[At[name[x]]]
  PROVE  OnItsWay(x)'
BY DEF OnItsWay, NextInLine, OnTheTask, Limit

LEMMA ClearTyped ==
  ASSUME IInv, ClearFits, NEW x \in clear
  PROVE  /\ x \in Callers /\ pc[x] = "waiting" /\ name[x] \in Names
         /\ At[name[x]] \in Devices /\ left[x] \in Nat /\ OnItsWay(x)
BY TransportAssumption DEF IInv, TypeOK, CallsOK, ClearFits, NameFits

(* Two who wait are at different bridges.                                   *)
LEMMA Apart ==
  ASSUME IInv, OneAddressEach, NEW x \in Callers, NEW c \in Callers, x # c,
         pc[x] = "waiting", pc[c] = "waiting" \/ (pc[c] = "locking" /\ MayEnter(c))
  PROVE  At[name[x]] # At[name[c]]
<1>1. name[x] \in Names /\ name[c] \in Names /\ lock[name[x]] = x
  BY DEF IInv, NameFits, LockFits
<1>2. lock[name[c]] = c \/ lock[name[c]] = None
  BY DEF IInv, LockFits, MayEnter
<1> QED BY <1>1, <1>2, TransportAssumption DEF OneAddressEach

(* The steps that leave the bridges and those who wait alone *)
LEMMA QuietKeepsClear ==
  ASSUME IInv, ClearFits, clear' \subseteq clear, op' = op, inbox' = inbox,
         \A d \in Devices : up[d] => up'[d] = up[d],
         \A x \in Callers : pc[x] = "waiting" =>
           pc'[x] = pc[x] /\ name'[x] = name[x] /\ left'[x] = left[x]
  PROVE  ClearFits'
<1> SUFFICES ASSUME NEW x \in clear' PROVE pc'[x] = "waiting" /\ OnItsWay(x)'
  BY DEF ClearFits
<1>1. /\ x \in Callers /\ pc[x] = "waiting" /\ At[name[x]] \in Devices /\ OnItsWay(x)
  BY ClearTyped
<1>2. up[At[name[x]]]
  BY <1>1 DEF OnItsWay
<1> QED BY <1>1, <1>2, StaysOnItsWay

LEMMA TurnKeepsClear ==
  ASSUME IInv, ClearFits, NEW c \in Callers, pc[c] # "waiting",
         NEW to, NEW a, NEW limit, Turn(c, to, a, limit),
         UNCHANGED <<firmware, clear>>
  PROVE  ClearFits'
<1>1. ASSUME NEW x \in Callers, pc[x] = "waiting"
      PROVE  pc'[x] = pc[x] /\ name'[x] = name[x] /\ left'[x] = left[x]
  BY <1>1 DEF Turn, IInv, TypeOK, CallsOK
<1>2. op' = op /\ inbox' = inbox /\ up' = up /\ clear' = clear
  BY DEF firmware
<1> QED BY <1>1, <1>2, QuietKeepsClear

LEMMA EarlyKeepsClear ==
  ASSUME IInv, ClearFits,
         \/ \E a \in Names : \/ AddBridge(a) \/ DeleteBridge(a) \/ BeginPush(a)
                            \/ \E c \in Callers : Begin(c, a)
         \/ \E c \in Callers : Healthy(c) \/ Unhealthy(c) \/ TooLate(c)
         \/ \E d \in Devices : PowerBack(d)
         \/ PushToFake \/ UNCHANGED vars
  PROVE  ClearFits'
<1>1. ASSUME NEW a \in Names, AddBridge(a) PROVE ClearFits'
  BY <1>1, TurnKeepsClear DEF AddBridge, Callers
<1>2. ASSUME NEW a \in Names, BeginPush(a) PROVE ClearFits'
  BY <1>2, TurnKeepsClear DEF BeginPush, Callers
<1>3. ASSUME NEW c \in Callers, NEW a \in Names, Begin(c, a) PROVE ClearFits'
  BY <1>3, TurnKeepsClear DEF Begin
<1>4. ASSUME NEW c \in Callers, Healthy(c) \/ Unhealthy(c) \/ TooLate(c)
      PROVE  ClearFits'
  <2>1. pc[c] # "waiting" /\ UNCHANGED <<firmware, clear>>
    BY <1>4 DEF Healthy, Unhealthy, TooLate
  <2>2. \E to, a, limit : Turn(c, to, a, limit)
    BY <1>4 DEF Healthy, Unhealthy, TooLate, Finish
  <2> QED BY <2>1, <2>2, TurnKeepsClear
<1>5. ASSUME NEW a \in Names, DeleteBridge(a) PROVE ClearFits'
  BY <1>5, QuietKeepsClear DEF DeleteBridge, calls, firmware
<1>6. ASSUME NEW d \in Devices, PowerBack(d) PROVE ClearFits'
  <2>1. \A e \in Devices : up[e] => up'[e] = up[e]
    BY <1>6 DEF PowerBack, IInv, TypeOK, FirmwareOK
  <2> QED BY <1>6, <2>1, QuietKeepsClear DEF PowerBack, calls
<1>7. ASSUME UNCHANGED vars PROVE ClearFits'
  BY <1>7, QuietKeepsClear DEF vars, calls, firmware
<1>8. ASSUME PushToFake PROVE ClearFits'
  BY <1>8, QuietKeepsClear DEF PushToFake, calls, firmware
<1> QED BY <1>1, <1>2, <1>3, <1>4, <1>5, <1>6, <1>7, <1>8

LEMMA SendKeepsClear ==
  ASSUME IInv, ClearFits, OneAddressEach, NEW c \in Callers, Send(c)
  PROVE  ClearFits'
<1> DEFINE e == At[name[c]]
<1>1. /\ pc[c] = "locking" /\ MayEnter(c) /\ name[c] \in Names /\ e \in Devices
      /\ Deadline(c) \in Nat /\ CallsOK
  BY TransportAssumption DEF Send, IInv, NameFits, Deadline, TypeOK, CallsOK
<1>2. /\ pc'[c] = "waiting" /\ name'[c] = name[c] /\ left'[c] = Deadline(c)
      /\ \A x \in Callers : x # c =>
           pc'[x] = pc[x] /\ name'[x] = name[x] /\ left'[x] = left[x]
  <2>1. Turn(c, "waiting", name[c], Deadline(c))
    BY DEF Send
  <2> QED BY <1>1, <2>1, TurnTaken
<1>3. /\ UNCHANGED <<up, op>> /\ inbox \in [Devices -> Seq(Requests)]
      /\ \A d \in Devices : d # e => inbox'[d] = inbox[d]
  BY DEF Send, IInv, TypeOK, FirmwareOK
<1>4. ASSUME NEW x \in clear, x # c
      PROVE  pc'[x] = "waiting" /\ OnItsWay(x)'
  <2>1. /\ x \in Callers /\ pc[x] = "waiting" /\ At[name[x]] \in Devices /\ OnItsWay(x)
    BY ClearTyped
  <2>2. At[name[x]] # e
    BY <1>1, <1>4, <2>1, Apart
  <2> QED BY <1>2, <1>3, <1>4, <2>1, <2>2, StaysOnItsWay
<1>5. c \notin clear
  BY <1>1, ClearTyped
<1>6. ASSUME InGoodTime(c) PROVE OnItsWay(c)'
  <2>1. up[e] /\ op[e] = Idle /\ inbox[e] = <<>> /\ (c = "scanner" \/ left[c] > PushTime)
    BY <1>6 DEF InGoodTime, Answers
  <2>2. inbox'[e] = Append(<<>>, Request(c))
    BY <1>1, <1>3, <2>1 DEF Send
  <2>3. Len(inbox'[e]) = 1 /\ inbox'[e][1] = Request(c)
    BY <2>2
  <2>4. Deadline(c) > TimeOf(Request(c).kind) /\ Request(c).by = c
    BY <2>1, TransportAssumption DEF Deadline, TimeOf, Request
  <2> QED BY <1>2, <1>3, <2>1, <2>3, <2>4 DEF OnItsWay, NextInLine
<1>7. clear' = IF InGoodTime(c) THEN clear \cup {c} ELSE clear
  BY DEF Send
<1> QED BY <1>2, <1>4, <1>5, <1>6, <1>7 DEF ClearFits

LEMMA LeaveKeepsClear ==
  ASSUME IInv, ClearFits, OneAddressEach, NEW c \in Callers, Leave(c)
  PROVE  ClearFits'
<1>1. pc[c] = "waiting" /\ Return(c) /\ up' = up /\ bridges' = bridges
  BY DEF Leave
<1>2. \A d \in Devices : d # At[name[c]] => inbox'[d] = inbox[d] /\ op'[d] = op[d]
  BY LeaveEffect DEF IInv, FirmwareFits
<1>3. /\ clear' = clear \ {c}
      /\ \A x \in Callers : x # c =>
           pc'[x] = pc[x] /\ name'[x] = name[x] /\ left'[x] = left[x]
  BY <1>1, Returned
<1>4. ASSUME NEW x \in clear, x # c PROVE pc'[x] = "waiting" /\ OnItsWay(x)'
  <2>1. /\ x \in Callers /\ pc[x] = "waiting" /\ At[name[x]] \in Devices /\ OnItsWay(x)
    BY ClearTyped
  <2>2. At[name[x]] # At[name[c]]
    <3>1. pc[c] = "waiting" \/ (pc[c] = "locking" /\ MayEnter(c))
      BY <1>1
    <3>2. x \in Callers /\ x # c /\ pc[x] = "waiting"
      BY <1>4, <2>1
    <3> QED BY <3>1, <3>2, Apart
  <2> QED BY <1>1, <1>2, <1>3, <1>4, <2>1, <2>2, StaysOnItsWay
<1> QED BY <1>3, <1>4 DEF ClearFits

LEMMA ServeKeepsClear ==
  ASSUME IInv, ClearFits, NEW e \in Devices, Serve(e)
  PROVE  ClearFits'
<1>1. PICK m \in 1 .. Len(inbox[e]) :
        /\ op' = [op EXCEPT ![e] = [req |-> inbox[e][m], time |-> 0]]
        /\ inbox' = [inbox EXCEPT ![e] = Without(@, m)]
  BY DEF Serve
<1>2. UNCHANGED <<pc, name, left, up, clear>> /\ op[e] = Idle
  BY DEF Serve, calls, Answers
<1>3. /\ op \in [Devices -> [req : Requests, time : Nat] \cup {Idle}]
      /\ inbox \in [Devices -> Seq(Requests)] /\ inbox[e][m] \in Requests
  BY InboxTyped DEF IInv, TypeOK, FirmwareOK
<1>4. /\ op'[e] = [req |-> inbox[e][m], time |-> 0]
      /\ \A d \in Devices : d # e => inbox'[d] = inbox[d] /\ op'[d] = op[d]
  BY <1>1, <1>3
<1> SUFFICES ASSUME NEW x \in clear PROVE pc'[x] = "waiting" /\ OnItsWay(x)'
  BY <1>2 DEF ClearFits
<1>5. /\ x \in Callers /\ pc[x] = "waiting" /\ At[name[x]] \in Devices /\ OnItsWay(x)
      /\ left[x] \in Nat
  BY ClearTyped
<1>6. CASE At[name[x]] # e
  BY <1>2, <1>4, <1>5, <1>6, StaysOnItsWay
<1>7. CASE At[name[x]] = e
  <2>1. up[e] /\ Len(inbox[e]) = 1 /\ inbox[e][1].by = x
        /\ left[x] > TimeOf(inbox[e][1].kind)
    BY <1>2, <1>5, <1>7 DEF OnItsWay, NextInLine, OnTheTask
  <2>2. m = 1
    BY <2>1
  <2>3. op'[e].req = inbox[e][1] /\ op'[e].time = 0 /\ op'[e] # Idle
    <3>1. op'[e].req = inbox[e][1] /\ op'[e].time = 0
      BY <1>4, <2>2
    <3>2. op'[e].req # None
      BY <1>3, <2>2, <3>1, RequestTyped
    <3> QED BY <3>1, <3>2 DEF Idle
  <2>4. TimeOf(inbox[e][1].kind) \in Nat
    BY TransportAssumption DEF TimeOf
  <2>5. Limit(e)' = TimeOf(inbox[e][1].kind)
    BY <2>3 DEF Limit, TimeOf
  <2>6. OnTheTask(x, e)'
    BY <1>2, <1>5, <2>1, <2>3, <2>4, <2>5 DEF OnTheTask
  <2> QED BY <1>2, <1>5, <1>7, <2>1, <2>6 DEF OnItsWay
<1> QED BY <1>6, <1>7

LEMMA TaskEndsKeepsClear ==
  ASSUME IInv, ClearFits, NEW e \in Devices, op[e] # Idle, Respond(op[e].req.by),
         op' = [op EXCEPT ![e] = Idle], UNCHANGED <<bridges, up, inbox>>
  PROVE  ClearFits'
<1> DEFINE c == op[e].req.by
<1>1. /\ op[e].req \in Requests /\ c \in Callers \cup {Gone} /\ Mine(op[e].req, e)
      /\ op \in [Devices -> [req : Requests, time : Nat] \cup {Idle}]
  BY OpTyped, RequestTyped DEF IInv, FirmwareFits, OpFits, TypeOK, FirmwareOK
<1>2. /\ clear' = clear \ {c}
      /\ \A x \in Callers : x # c =>
           pc'[x] = pc[x] /\ name'[x] = name[x] /\ left'[x] = left[x]
  <2>1. CASE c = Gone
    <3>1. clear' = clear /\ Gone \notin clear
      BY <2>1, TransportAssumption DEF Respond, IInv, TypeOK, CallsOK
    <3> QED BY <2>1, <3>1 DEF Respond, calls
  <2>2. CASE c # Gone
    <3>1. c \in Callers /\ pc[c] = "waiting" /\ Return(c)
      BY <1>1, <2>2 DEF Mine, Respond
    <3> HIDE DEF c
    <3> QED BY <3>1, Returned
  <2> QED BY <2>1, <2>2
<1>3. ASSUME NEW x \in clear, x # c PROVE pc'[x] = "waiting" /\ OnItsWay(x)'
  <2>1. /\ x \in Callers /\ pc[x] = "waiting" /\ At[name[x]] \in Devices /\ OnItsWay(x)
    BY ClearTyped
  <2>2. At[name[x]] # e
    BY <1>3, <2>1 DEF OnItsWay, NextInLine, OnTheTask
  <2>3. op'[At[name[x]]] = op[At[name[x]]]
    BY <1>1, <2>1, <2>2
  <2> QED BY <1>2, <1>3, <2>1, <2>3, StaysOnItsWay
<1> HIDE DEF c
<1> QED BY <1>2, <1>3 DEF ClearFits

LEMMA PowerLostKeepsClear ==
  ASSUME IInv, ClearFits, NEW e \in Devices, PowerLost(e)
  PROVE  ClearFits'
<1>1. /\ UNCHANGED <<pc, name, left>>
      /\ \A d \in Devices : d # e =>
           up'[d] = up[d] /\ op'[d] = op[d] /\ inbox'[d] = inbox[d]
  BY DEF PowerLost, calls, IInv, TypeOK, FirmwareOK
<1>2. ASSUME NEW x \in clear, At[name[x]] # e PROVE pc'[x] = "waiting" /\ OnItsWay(x)'
  <2>1. /\ x \in Callers /\ pc[x] = "waiting" /\ At[name[x]] \in Devices /\ OnItsWay(x)
    BY ClearTyped
  <2> QED BY <1>1, <1>2, <2>1, StaysOnItsWay
<1>3. clear' = {x \in clear : At[name[x]] # e}
  BY DEF PowerLost
<1> QED BY <1>2, <1>3 DEF ClearFits

(* Time passes only for a request that is on the task and not yet done.     *)
LEMMA TickKeepsClear == ASSUME IInv, ClearFits, Tick PROVE ClearFits'
<1>1. UNCHANGED <<pc, name, up, inbox, clear>> /\ ~Urgent
  BY DEF Tick
<1> SUFFICES ASSUME NEW x \in clear PROVE pc'[x] = "waiting" /\ OnItsWay(x)'
  BY <1>1 DEF ClearFits
<1> DEFINE d == At[name[x]]
<1>2. /\ x \in Callers /\ pc[x] = "waiting" /\ d \in Devices /\ OnItsWay(x)
      /\ left[x] \in Nat
  BY ClearTyped
<1>3. /\ ~(Answers(d) /\ inbox[d] # <<>>)
      /\ ~(op[d] # Idle /\ op[d].time = Limit(d)) /\ left[x] # 0
  BY <1>1, <1>2 DEF Urgent
<1>4. OnTheTask(x, d) /\ up[d]
  <2>1. CASE NextInLine(x, d)
    <3>1. inbox[d] = <<>> /\ Len(inbox[d]) = 1
      BY <1>2, <1>3, <2>1 DEF NextInLine, OnItsWay, Answers
    <3>2. Len(inbox[d]) = 0
      BY <3>1
    <3> QED BY <3>1, <3>2
  <2> QED BY <1>2, <2>1 DEF OnItsWay
<1>5. left'[x] = left[x] - 1
  BY <1>2, <1>3 DEF Tick, Less
<1>6. /\ op'[d] # Idle /\ op'[d].req = op[d].req /\ op'[d].time = op[d].time + 1
      /\ op[d].time \in Nat
  <2>1. op[d] \in [req : Requests, time : Nat] /\ op[d] # Idle
    BY <1>2, <1>4, OpTyped DEF IInv, OnTheTask
  <2>2. op'[d] = [op[d] EXCEPT !.time = @ + 1]
    BY <1>2, <2>1 DEF Tick
  <2>3. op'[d].req = op[d].req /\ op'[d].time = op[d].time + 1 /\ op[d].time \in Nat
    BY <2>1, <2>2
  <2>4. op'[d] # Idle
    BY <2>1, <2>3, RequestTyped DEF Idle
  <2> QED BY <2>3, <2>4
<1>7. Limit(d) \in Nat /\ \A e : e = d => Limit(e)' = Limit(e)
  BY <1>6, TransportAssumption DEF Limit
<1>8. op[d].req.by = x /\ op[d].time <= Limit(d) /\ op[d].time + left[x] > Limit(d)
      /\ op[d].time # Limit(d)
  BY <1>3, <1>4 DEF OnTheTask
<1>9. op'[d].req.by = x /\ op'[d].time <= Limit(d) /\ op'[d].time + left'[x] > Limit(d)
  BY <1>2, <1>5, <1>6, <1>7, <1>8
<1>10. \A e : e = d => OnTheTask(x, e)'
  BY <1>6, <1>7, <1>9 DEF OnTheTask
<1> QED BY <1>1, <1>2, <1>4, <1>10 DEF OnItsWay

(* netbridge.go:38-39, 95-97: when every bridge has one address, the lock   *)
(* is enough for a request that met a free bridge to be answered before its *)
(* deadline, however long the deadlines, the scans and the pushes are.      *)
(* With two addresses for a bridge it is not, and TLC finds the steps.      *)
THEOREM InTimeHolds == ASSUME OneAddressEach PROVE Spec => []InTime
<1>1. Init => ClearFits
  BY DEF Init, ClearFits
<1>2. IInv /\ ClearFits /\ [Next]_vars => ClearFits'
  <2> SUFFICES ASSUME IInv, ClearFits, [Next]_vars PROVE ClearFits'
    OBVIOUS
  <2>1. ASSUME NEW c \in Callers, Caller(c) \/ ConnectionBreaks(c) PROVE ClearFits'
    BY <2>1, EarlyKeepsClear, SendKeepsClear, LeaveKeepsClear
       DEF Caller, Expire, ConnectionBreaks
  <2>2. ASSUME NEW e \in Devices, ScanEnds(e) PROVE ClearFits'
    BY <2>2, TaskEndsKeepsClear DEF ScanEnds, Serving
  <2>3. ASSUME NEW e \in Devices, NEW ok \in BOOLEAN, NEW reached \in BOOLEAN,
               PushEnds(e, ok, reached)
        PROVE  ClearFits'
    BY <2>3, TaskEndsKeepsClear DEF PushEnds, Serving
  <2>4. ASSUME NEW e \in Devices, Task(e) \/ PowerLost(e) \/ PowerBack(e)
        PROVE  ClearFits'
    BY <2>2, <2>3, <2>4, ServeKeepsClear, PowerLostKeepsClear, EarlyKeepsClear DEF Task
  <2> QED BY <2>1, <2>4, EarlyKeepsClear, TickKeepsClear DEF Next
<1>3. IInv /\ ClearFits => InTime
  <2> SUFFICES ASSUME IInv, ClearFits, NEW x \in clear PROVE left[x] > 0
    BY DEF InTime
  <2>1. x \in Callers /\ left[x] \in Nat /\ At[name[x]] \in Devices /\ OnItsWay(x)
    BY ClearTyped
  <2>2. op[At[name[x]]] # Idle => op[At[name[x]]].time \in Nat
    BY <2>1, OpTyped DEF IInv
  <2> QED BY <2>1, <2>2, TransportAssumption
       DEF OnItsWay, NextInLine, OnTheTask, TimeOf, Limit
<1> QED BY <1>1, <1>2, <1>3, Inductive, PTL DEF Spec

=============================================================================
