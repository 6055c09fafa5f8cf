--------------------------- MODULE TagSync_proofs ---------------------------
(***************************************************************************)
(* Proofs about TagSync, for any tags, items, handlers and number of       *)
(* edits: a tag at rest shows its row, and its row the catalog, but for    *)
(* the reasons the properties name.                                        *)
(***************************************************************************)
EXTENDS TagSync, TLAPS

(* What the poller holds in each of its places: the rows of a snapshot are  *)
(* of the item at hand and carry the face that is in the cache, which does  *)
(* not change until the snapshot is used up.                                *)
SnapFits ==
  \A m \in Tags : poller.snap[m] # None =>
    /\ poller.at \in {"tags", "enqueue"} /\ poller.item \in Items
    /\ poller.snap[m].item = poller.item
    /\ cache[poller.item] # 0 => poller.snap[m].face = cache[poller.item]

PollerFits ==
  /\ poller.at \in {"boot", "wait"} => poller.todo = {}
  /\ poller.at = "enqueue" => poller.mac \in Tags /\ poller.snap[poller.mac] # None
  /\ poller.at \in {"tags", "enqueue"} => poller.item \in Items

WorkerFits == job = None <=> worker = "idle"

(* After a List that succeeded, what the cache has old is still to come.    *)
CacheFits ==
  listOK => \A i \in Items : \/ cache[i] = catalog[i] \/ i \in dirty
                             \/ poller.at = "list" /\ i \in poller.todo

(* The last word about a tag: what waits or is under way for it is its row, *)
(* or it shows it, or a goroutine is about to queue something.              *)
Waits(m) == waiting[m] = row[m]
UnderWay(m) ==
  /\ waiting[m] = None /\ job # None /\ job.mac = m
  /\ \/ worker = "push" /\ job.binding = row[m]
     \/ worker = "finish" /\ shown[m] = row[m]
AtRest(m) == waiting[m] = None /\ (job = None \/ job.mac # m) /\ shown[m] = row[m]
ToBeQueued(m) ==
  \/ \E h \in Handlers : handler[h].at = "enqueue" /\ handler[h].mac = m
  \/ poller.at = "enqueue" /\ poller.mac = m
LastWord(m) == row[m] # None => Waits(m) \/ UnderWay(m) \/ AtRest(m) \/ ToBeQueued(m)
RowFits == \A m \in Tags \ offRow : LastWord(m)

(* A row unlike the catalog has a report to come, or the poller has it in   *)
(* its hands and has not written it yet.                                    *)
InHand(m) ==
  /\ poller.snap[m] # None /\ row[m].item = poller.item
  /\ ~(poller.at = "enqueue" /\ poller.mac = m)
Known(m) ==
  row[m] # None =>
    \/ UpToDate(m) \/ row[m].item \in dirty \cup poller.todo
    \/ poller.at = "boot" \/ InHand(m)
FaceFits == \A m \in Tags \ offCatalog : Known(m)

IInv ==
  /\ TypeOK /\ SnapFits /\ PollerFits /\ WorkerFits
  /\ CacheFits /\ RowFits /\ FaceFits

-----------------------------------------------------------------------------
(* The data *)

LEMMA NoneIsApart ==
  /\ None \notin Tags /\ None \notin Items /\ None \notin Binding
  /\ \A m \in Tags, b \in Binding : [mac |-> m, binding |-> b] # None
  /\ 0 \in Versions /\ 1 \in Versions /\ Versions \subseteq Nat
BY SyncAssumption DEF Versions

LEMMA JobTyped ==
  ASSUME TypeOK, job # None
  PROVE  job.mac \in Tags /\ job.binding \in Binding
BY DEF TypeOK

LEMMA HandlerTyped ==
  ASSUME TypeOK, NEW h \in Handlers, handler[h].at # "idle"
  PROVE  /\ handler[h].mac \in Tags /\ handler[h].binding \in Binding
         /\ handler[h].at \in {"upsert", "enqueue"}
BY DEF TypeOK, HandlerStates, Idle

LEMMA PollerTyped ==
  ASSUME TypeOK
  PROVE  /\ poller.at \in {"boot", "wait", "list", "items", "tags", "enqueue"}
         /\ poller.todo \subseteq Items /\ poller.item \in Items \cup {None}
         /\ poller.snap \in [Tags -> Binding \cup {None}] /\ poller.mac \in Tags \cup {None}
BY DEF TypeOK, PollerStates

(* A tag without a reason after a step had none before it and got none, or  *)
(* it is settled and right.                                                 *)
LEMMA NoReason ==
  ASSUME NEW A \in SUBSET Tags, NEW B \in SUBSET Tags, Excuse(A, B), TypeOK
  PROVE  /\ offRow' \subseteq Tags /\ offCatalog' \subseteq Tags
         /\ \A m \in Tags \ offRow' :
              (m \notin offRow /\ m \notin A) \/ (Settled(m) /\ ShowsRow(m))'
         /\ \A m \in Tags \ offCatalog' :
              (m \notin offCatalog /\ m \notin B) \/ (Settled(m) /\ UpToDate(m))'
<1> DEFINE P(m) == (Settled(m) /\ ShowsRow(m))'
           Q(m) == (Settled(m) /\ UpToDate(m))'
<1>1. /\ offRow' = {m \in offRow \cup A : ~P(m)}
      /\ offCatalog' = {m \in offCatalog \cup B : ~Q(m)}
  BY DEF Excuse
<1> HIDE DEF P, Q
<1>2. /\ offRow' \subseteq Tags /\ offCatalog' \subseteq Tags
      /\ \A m \in Tags \ offRow' : (m \notin offRow /\ m \notin A) \/ P(m)
      /\ \A m \in Tags \ offCatalog' : (m \notin offCatalog /\ m \notin B) \/ Q(m)
  BY <1>1 DEF TypeOK
<1> QED BY <1>2 DEF P, Q

(* So an action keeps the last two conjuncts when it keeps them for each    *)
(* tag it gives no reason.                                                  *)
LEMMA ReasonsFit ==
  ASSUME IInv, NEW A \in SUBSET Tags, NEW B \in SUBSET Tags, Excuse(A, B),
         \A m \in Tags : m \notin A /\ LastWord(m) => LastWord(m)',
         \A m \in Tags : m \notin B /\ Known(m) => Known(m)'
  PROVE  RowFits' /\ FaceFits' /\ offRow' \subseteq Tags /\ offCatalog' \subseteq Tags
<1>1. \A m \in Tags : (Settled(m) /\ ShowsRow(m))' => LastWord(m)'
  BY DEF Settled, Queued, ShowsRow, LastWord, AtRest
<1>2. \A m \in Tags : (Settled(m) /\ UpToDate(m))' => Known(m)'
  BY DEF Known
<1>3. /\ offRow' \subseteq Tags /\ offCatalog' \subseteq Tags
      /\ \A m \in Tags \ offRow' :
           (m \notin offRow /\ m \notin A) \/ (Settled(m) /\ ShowsRow(m))'
      /\ \A m \in Tags \ offCatalog' :
           (m \notin offCatalog /\ m \notin B) \/ (Settled(m) /\ UpToDate(m))'
  BY NoReason DEF IInv
<1>4. \A m \in Tags \ offRow' : LastWord(m)'
  <2> TAKE m \in Tags \ offRow'
  <2>1. m \notin offRow => LastWord(m)
    BY DEF IInv, RowFits
  <2> QED BY <1>1, <1>3, <2>1
<1>5. \A m \in Tags \ offCatalog' : Known(m)'
  <2> TAKE m \in Tags \ offCatalog'
  <2>1. m \notin offCatalog => Known(m)
    BY DEF IInv, FaceFits
  <2> QED BY <1>2, <1>3, <2>1
<1> QED BY <1>3, <1>4, <1>5 DEF RowFits, FaceFits

(* What nothing touches stays as it is.                                     *)
LEMMA SameLastWord ==
  ASSUME NEW m \in Tags, LastWord(m), row'[m] = row[m], waiting'[m] = waiting[m],
         job' = job, worker' = worker, shown'[m] = shown[m],
         ToBeQueued(m) => ToBeQueued(m)'
  PROVE  LastWord(m)'
BY DEF LastWord, Waits, UnderWay, AtRest

LEMMA SameKnown ==
  ASSUME NEW m \in Tags, Known(m), row'[m] = row[m],
         UNCHANGED <<catalog, dirty, poller>>
  PROVE  Known(m)'
BY DEF Known, UpToDate, InHand

LEMMA SameFits ==
  ASSUME IInv, UNCHANGED <<catalog, dirty, cache, poller, listOK>>, job' = None <=> worker' = "idle"
  PROVE  SnapFits' /\ PollerFits' /\ WorkerFits' /\ CacheFits'
BY DEF IInv, SnapFits, PollerFits, WorkerFits, CacheFits

-----------------------------------------------------------------------------
(* Handlers and users *)

LEMMA SaveReadKeeps ==
  ASSUME IInv, NEW h \in Handlers, NEW m \in Tags, NEW i \in Items, SaveRead(h, m, i)
  PROVE  IInv'
<1> USE DEF IInv
<1>1. /\ UNCHANGED <<catalog, dirty, recent, cache, poller, listOK, row, waiting, job,
                     worker, shown>>
      /\ Excuse({}, {}) /\ handler[h] = Idle
      /\ handler' = [handler EXCEPT ![h] = [at |-> "upsert", mac |-> m,
                       binding |-> [item |-> i, face |-> cache[i]]]]
  BY DEF SaveRead, Goto, pollVars, queueVars, NoExcuse
<1>2. handler' \in [Handlers -> HandlerStates]
  BY <1>1 DEF TypeOK, HandlerStates, Binding
<1>3. \A x \in Tags : ToBeQueued(x) => ToBeQueued(x)'
  BY <1>1 DEF TypeOK, ToBeQueued, Idle
<1>4. RowFits' /\ FaceFits' /\ offRow' \subseteq Tags /\ offCatalog' \subseteq Tags
  BY <1>1, <1>3, ReasonsFit, SameLastWord, SameKnown
<1>5. SnapFits' /\ PollerFits' /\ WorkerFits' /\ CacheFits'
  BY <1>1, SameFits DEF WorkerFits
<1> QED BY <1>1, <1>2, <1>4, <1>5 DEF TypeOK

LEMMA RefreshReadKeeps ==
  ASSUME IInv, NEW h \in Handlers, NEW m \in Tags, RefreshRead(h, m)
  PROVE  IInv'
<1> USE DEF IInv
<1>1. /\ UNCHANGED <<catalog, dirty, recent, cache, poller, listOK, row, waiting, job,
                     worker, shown>>
      /\ Excuse({}, {}) /\ handler[h] = Idle /\ row[m] # None
      /\ handler' = [handler EXCEPT ![h] = [at |-> "enqueue", mac |-> m, binding |-> row[m]]]
  BY DEF RefreshRead, Goto, pollVars, queueVars, NoExcuse
<1>2. handler' \in [Handlers -> HandlerStates]
  BY <1>1 DEF TypeOK, HandlerStates
<1>3. \A x \in Tags : ToBeQueued(x) => ToBeQueued(x)'
  BY <1>1 DEF TypeOK, ToBeQueued, Idle
<1>4. RowFits' /\ FaceFits' /\ offRow' \subseteq Tags /\ offCatalog' \subseteq Tags
  BY <1>1, <1>3, ReasonsFit, SameLastWord, SameKnown
<1>5. SnapFits' /\ PollerFits' /\ WorkerFits' /\ CacheFits'
  BY <1>1, SameFits DEF WorkerFits
<1> QED BY <1>1, <1>2, <1>4, <1>5 DEF TypeOK

LEMMA SaveFailsKeeps ==
  ASSUME IInv, NEW h \in Handlers, SaveFails(h)
  PROVE  IInv'
<1> USE DEF IInv
<1>1. /\ UNCHANGED <<catalog, dirty, recent, cache, poller, listOK, row, waiting, job,
                     worker, shown>>
      /\ Excuse({}, {}) /\ handler[h].at = "upsert"
      /\ handler' = [handler EXCEPT ![h] = Idle]
  BY DEF SaveFails, Return, pollVars, queueVars, NoExcuse
<1>2. handler' \in [Handlers -> HandlerStates]
  BY <1>1 DEF TypeOK, HandlerStates
<1>3. \A x \in Tags : ToBeQueued(x) => ToBeQueued(x)'
  BY <1>1 DEF TypeOK, ToBeQueued
<1>4. RowFits' /\ FaceFits' /\ offRow' \subseteq Tags /\ offCatalog' \subseteq Tags
  BY <1>1, <1>3, ReasonsFit, SameLastWord, SameKnown
<1>5. SnapFits' /\ PollerFits' /\ WorkerFits' /\ CacheFits'
  BY <1>1, SameFits DEF WorkerFits
<1> QED BY <1>1, <1>2, <1>4, <1>5 DEF TypeOK

(* The row is written; queueing it is still to come.                        *)
LEMMA SaveUpsertKeeps ==
  ASSUME IInv, NEW h \in Handlers, SaveUpsert(h)
  PROVE  IInv'
<1> USE DEF IInv
<1> DEFINE m == handler[h].mac
           b == handler[h].binding
           B == Only(m, ~listOK \/ b.face # cache[b.item])
<1>1. /\ UNCHANGED <<catalog, dirty, recent, cache, poller, listOK, waiting, job,
                     worker, shown>>
      /\ Excuse({}, B) /\ handler[h].at = "upsert" /\ row' = [row EXCEPT ![m] = b]
      /\ handler' = [handler EXCEPT ![h] = [at |-> "enqueue", mac |-> m, binding |-> b]]
  BY DEF SaveUpsert, Goto, Upserted, pollVars, queueVars
<1>2. m \in Tags /\ b \in Binding
  BY <1>1, HandlerTyped
<1> HIDE DEF m, b, B
<1>3. handler' \in [Handlers -> HandlerStates] /\ row' \in [Tags -> Binding \cup {None}]
  BY <1>1, <1>2 DEF TypeOK, HandlerStates
<1>4. \A x \in Tags : x # m => row'[x] = row[x]
  BY <1>1, <1>2 DEF TypeOK
<1>5. row'[m] = b /\ b # None /\ b.item \in Items
  BY <1>1, <1>2, NoneIsApart DEF TypeOK, Binding
<1>6. /\ handler'[h].at = "enqueue" /\ handler'[h].mac = m
      /\ \A x \in Tags : ToBeQueued(x) => ToBeQueued(x)'
  BY <1>1 DEF TypeOK, ToBeQueued
<1>7. \A x \in Tags : LastWord(x) => LastWord(x)'
  <2>1. ASSUME NEW x \in Tags, x = m PROVE LastWord(x)'
    BY <1>6, <2>1 DEF LastWord, ToBeQueued
  <2> QED BY <1>1, <1>4, <1>6, <2>1, SameLastWord
<1>8. ASSUME NEW x \in Tags, x \notin B, Known(x) PROVE Known(x)'
  <2>1. CASE x # m
    BY <1>1, <1>4, <1>8, <2>1, SameKnown
  <2>2. CASE x = m
    <3>1. listOK /\ b.face = cache[b.item]
      BY <1>8, <2>2 DEF B, Only
    <3>2. \/ cache[b.item] = catalog[b.item] \/ b.item \in dirty \cup poller.todo
      BY <1>5, <3>1 DEF CacheFits
    <3> QED BY <1>1, <1>5, <2>2, <3>1, <3>2 DEF Known, UpToDate
  <2> QED BY <2>1, <2>2
<1>9. B \in SUBSET Tags
  BY <1>2 DEF B, Only
<1>10. RowFits' /\ FaceFits' /\ offRow' \subseteq Tags /\ offCatalog' \subseteq Tags
  BY <1>1, <1>7, <1>8, <1>9, ReasonsFit
<1>11. SnapFits' /\ PollerFits' /\ WorkerFits' /\ CacheFits'
  BY <1>1, SameFits DEF WorkerFits
<1> QED BY <1>1, <1>3, <1>10, <1>11 DEF TypeOK

(* A request to the queue is the last word, or its tag has a reason.        *)
LEMMA SaveEnqueueKeeps ==
  ASSUME IInv, NEW h \in Handlers, SaveEnqueue(h)
  PROVE  IInv'
<1> USE DEF IInv
<1> DEFINE m == handler[h].mac
           b == handler[h].binding
           A == Only(m, row[m] # b)
<1>1. /\ UNCHANGED <<catalog, dirty, recent, cache, poller, listOK, row, job,
                     worker, shown>>
      /\ Excuse(A, {}) /\ handler[h].at = "enqueue"
      /\ waiting' = [waiting EXCEPT ![m] = b]
      /\ handler' = [handler EXCEPT ![h] = Idle]
  BY DEF SaveEnqueue, Return, Queue!Request, pollVars
<1>2. m \in Tags /\ b \in Binding
  BY <1>1, HandlerTyped
<1> HIDE DEF m, b, A
<1>3. /\ handler' \in [Handlers -> HandlerStates]
      /\ waiting' \in [Tags -> Binding \cup {None}] /\ waiting'[m] = b
      /\ \A x \in Tags : x # m => waiting'[x] = waiting[x]
  BY <1>1, <1>2 DEF TypeOK, HandlerStates
<1>4. \A x \in Tags : x # m /\ ToBeQueued(x) => ToBeQueued(x)'
  BY <1>1 DEF TypeOK, ToBeQueued, m
<1>5. ASSUME NEW x \in Tags, x \notin A, LastWord(x) PROVE LastWord(x)'
  <2>1. CASE x # m
    BY <1>1, <1>3, <1>4, <1>5, <2>1, SameLastWord
  <2>2. CASE x = m
    <3>1. row[m] = b
      BY <1>5, <2>2 DEF A, Only
    <3> QED BY <1>1, <1>3, <2>2, <3>1 DEF LastWord, Waits
  <2> QED BY <2>1, <2>2
<1>6. A \in SUBSET Tags
  BY <1>2 DEF A, Only
<1>7. \A x \in Tags : Known(x) => Known(x)'
  BY <1>1, SameKnown
<1>8. RowFits' /\ FaceFits' /\ offRow' \subseteq Tags /\ offCatalog' \subseteq Tags
  BY <1>1, <1>5, <1>6, <1>7, ReasonsFit
<1>9. SnapFits' /\ PollerFits' /\ WorkerFits' /\ CacheFits'
  BY <1>1, SameFits DEF WorkerFits
<1> QED BY <1>1, <1>3, <1>8, <1>9 DEF TypeOK

LEMMA DeleteKeeps == ASSUME IInv, NEW m \in Tags, Delete(m) PROVE IInv'
<1> USE DEF IInv
<1>1. /\ UNCHANGED <<catalog, dirty, recent, cache, poller, listOK, waiting, job,
                     worker, shown, handler>>
      /\ Excuse({}, {}) /\ row' = [row EXCEPT ![m] = None]
  BY DEF Delete, Deleted, pollVars, queueVars, NoExcuse
<1>2. /\ row' \in [Tags -> Binding \cup {None}] /\ row'[m] = None
      /\ \A x \in Tags : x # m => row'[x] = row[x]
  BY <1>1 DEF TypeOK
<1>3. \A x \in Tags : LastWord(x) => LastWord(x)'
  <2>1. LastWord(m)'
    BY <1>2 DEF LastWord
  <2>2. \A x \in Tags : ToBeQueued(x) => ToBeQueued(x)'
    BY <1>1 DEF ToBeQueued
  <2> QED BY <1>1, <1>2, <2>1, <2>2, SameLastWord
<1>4. \A x \in Tags : Known(x) => Known(x)'
  <2>1. Known(m)'
    BY <1>2 DEF Known
  <2> QED BY <1>1, <1>2, <2>1, SameKnown
<1>5. RowFits' /\ FaceFits' /\ offRow' \subseteq Tags /\ offCatalog' \subseteq Tags
  BY <1>1, <1>3, <1>4, ReasonsFit
<1>6. SnapFits' /\ PollerFits' /\ WorkerFits' /\ CacheFits'
  BY <1>1, SameFits DEF WorkerFits
<1> QED BY <1>1, <1>2, <1>5, <1>6 DEF TypeOK

LEMMA TestPatternKeeps == ASSUME IInv, NEW m \in Tags, TestPattern(m) PROVE IInv'
<1> USE DEF IInv
<1>1. /\ UNCHANGED <<catalog, dirty, recent, cache, poller, listOK, row, waiting, job,
                     worker, handler>>
      /\ Excuse({m}, {}) /\ shown' = [shown EXCEPT ![m] = Pattern]
  BY DEF TestPattern, pollVars, queueVars
<1>2. /\ shown' \in [Tags -> Binding \cup {None, Pattern}]
      /\ \A x \in Tags : x # m => shown'[x] = shown[x]
  BY <1>1 DEF TypeOK
<1>3. \A x \in Tags : x \notin {m} /\ LastWord(x) => LastWord(x)'
  <2>1. \A x \in Tags : ToBeQueued(x) => ToBeQueued(x)'
    BY <1>1 DEF ToBeQueued
  <2> QED BY <1>1, <1>2, <2>1, SameLastWord
<1>4. RowFits' /\ FaceFits' /\ offRow' \subseteq Tags /\ offCatalog' \subseteq Tags
  BY <1>1, <1>3, ReasonsFit, SameKnown
<1>5. SnapFits' /\ PollerFits' /\ WorkerFits' /\ CacheFits'
  BY <1>1, SameFits DEF WorkerFits
<1> QED BY <1>1, <1>2, <1>4, <1>5 DEF TypeOK

-----------------------------------------------------------------------------
(* The merchant: an edited or hidden item has a report to come *)

LEMMA CatalogChangeKeeps ==
  ASSUME IInv, NEW i \in Items, NEW v \in Versions, Edit(i) \/ Hide(i),
         catalog' = [catalog EXCEPT ![i] = v]
  PROVE  IInv'
<1> USE DEF IInv
<1>1. /\ UNCHANGED <<recent, cache, poller, listOK, row, waiting, job, worker, handler,
                     shown>>
      /\ Excuse({}, {}) /\ dirty' = dirty \cup {i}
  BY DEF Edit, Hide, queueVars, NoExcuse
<1>2. /\ catalog' \in [Items -> Versions]
      /\ \A x \in Items : x # i => catalog'[x] = catalog[x]
  BY DEF TypeOK
<1>3. \A x \in Tags : LastWord(x) => LastWord(x)'
  <2>1. \A x \in Tags : ToBeQueued(x) => ToBeQueued(x)'
    BY <1>1 DEF ToBeQueued
  <2> QED BY <1>1, <2>1, SameLastWord
<1>4. ASSUME NEW x \in Tags, Known(x) PROVE Known(x)'
  <2>1. row[x] # None => row[x].item \in Items
    BY DEF TypeOK, Binding
  <2> QED BY <1>1, <1>2, <1>4, <2>1 DEF Known, UpToDate, InHand
<1>5. RowFits' /\ FaceFits' /\ offRow' \subseteq Tags /\ offCatalog' \subseteq Tags
  BY <1>1, <1>3, <1>4, ReasonsFit
<1>6. SnapFits' /\ PollerFits' /\ WorkerFits'
  BY <1>1 DEF SnapFits, PollerFits, WorkerFits
<1>7. CacheFits'
  BY <1>1, <1>2 DEF CacheFits
<1> QED BY <1>1, <1>2, <1>5, <1>6, <1>7 DEF TypeOK

LEMMA MerchantKeeps == ASSUME IInv, NEW i \in Items, Edit(i) \/ Hide(i) PROVE IInv'
<1>1. CASE Edit(i)
  <2>1. catalog[i] + 1 \in Versions /\ catalog' = [catalog EXCEPT ![i] = catalog[i] + 1]
    BY <1>1, SyncAssumption DEF Edit, Versions
  <2> QED BY <1>1, <2>1, CatalogChangeKeeps
<1>2. CASE Hide(i)
  BY <1>2, CatalogChangeKeeps, NoneIsApart DEF Hide
<1> QED BY <1>1, <1>2

-----------------------------------------------------------------------------
(* The poller and the reconciliation *)

LEMMA PollerAtFits ==
  ASSUME NEW place
  PROVE  /\ PollerAt(place).at = place /\ PollerAt(place).todo = {}
         /\ PollerAt(place).item = None /\ PollerAt(place).mac = None
         /\ PollerAt(place).snap = NoSnap
         /\ \A m \in Tags : PollerAt(place).snap[m] = None
         /\ place \in {"boot", "wait", "list", "items", "tags", "enqueue"} =>
              PollerAt(place) \in PollerStates
BY DEF PollerAt, PollerStates, NoSnap

(* A step of the poller that writes no row and queues nothing *)
LEMMA QuietPoll ==
  ASSUME IInv, NEW B \in SUBSET Tags, Excuse({}, B),
         UNCHANGED <<catalog, row, waiting, job, worker, handler, shown>>,
         poller' \in PollerStates, poller.at # "enqueue",
         dirty' \subseteq Items, recent' \subseteq Items,
         cache' \in [Items -> Versions], listOK' \in BOOLEAN,
         \A x \in Tags : x \notin B /\ Known(x) => Known(x)',
         SnapFits', PollerFits', CacheFits'
  PROVE  IInv'
<1> USE DEF IInv
<1>1. \A x \in Tags : LastWord(x) => LastWord(x)'
  <2>1. \A x \in Tags : ToBeQueued(x) => ToBeQueued(x)'
    BY DEF ToBeQueued
  <2> QED BY <2>1, SameLastWord
<1>2. RowFits' /\ FaceFits' /\ offRow' \subseteq Tags /\ offCatalog' \subseteq Tags
  BY <1>1, ReasonsFit
<1> QED BY <1>2 DEF TypeOK, WorkerFits

LEMMA FirstListKeeps == ASSUME IInv, NEW ok \in BOOLEAN, FirstList(ok) PROVE IInv'
<1> USE DEF IInv
<1>1. /\ UNCHANGED <<catalog, row, waiting, job, worker, handler, shown>>
      /\ Excuse({}, Unreported) /\ poller.at = "boot" /\ poller' = PollerAt("wait")
      /\ cache' = Listed(ok) /\ listOK' = ok /\ dirty' = {} /\ recent' = {}
  BY DEF FirstList, queueVars
<1>2. cache' \in [Items -> Versions] /\ (ok => cache' = catalog)
  BY <1>1 DEF Listed, TypeOK
<1>3. /\ poller' \in PollerStates /\ SnapFits' /\ PollerFits' /\ CacheFits'
  BY <1>1, <1>2, PollerAtFits DEF SnapFits, PollerFits, CacheFits
<1>4. \A x \in Tags : x \notin Unreported => Known(x)'
  BY <1>1 DEF Unreported, Known, UpToDate
<1>5. Unreported \in SUBSET Tags
  BY DEF Unreported
<1> QED BY <1>1, <1>2, <1>3, <1>4, <1>5, QuietPoll

LEMMA PollChangesKeeps ==
  ASSUME IInv, NEW again \in SUBSET Items, PollChanges(again)
  PROVE  IInv'
<1> USE DEF IInv
<1> DEFINE changed == dirty \cup again
<1>1. /\ UNCHANGED <<catalog, cache, listOK, row, waiting, job, worker, handler, shown>>
      /\ Excuse({}, {}) /\ poller.at = "wait" /\ dirty' = {} /\ recent' = dirty
      /\ poller' = IF changed = {} THEN poller ELSE [PollerAt("list") EXCEPT !.todo = changed]
  BY DEF PollChanges, AfterChanges, queueVars, NoExcuse
<1>2. changed \subseteq Items /\ recent' \subseteq Items /\ dirty' \subseteq Items
      /\ dirty \subseteq changed
  BY <1>1 DEF TypeOK
<1> HIDE DEF changed
<1>3. poller.todo = {} /\ \A m \in Tags : poller.snap[m] = None
  BY <1>1 DEF PollerFits, SnapFits
<1>4. /\ poller' \in PollerStates /\ poller'.todo = changed
      /\ poller'.at \in {"wait", "list"} /\ (changed # {} => poller'.at = "list")
      /\ (poller'.at = "wait" => changed = {})
      /\ \A m \in Tags : poller'.snap[m] = None
  <2>1. CASE changed = {}
    BY <1>1, <1>3, <2>1 DEF TypeOK
  <2>2. CASE changed # {}
    <3>1. poller' = [at |-> "list", todo |-> changed, item |-> None, snap |-> NoSnap,
                     mac |-> None]
      BY <1>1, <2>2 DEF PollerAt
    <3> QED BY <1>2, <2>2, <3>1 DEF PollerStates, NoSnap
  <2> QED BY <2>1, <2>2
<1>5. SnapFits' /\ PollerFits'
  BY <1>4 DEF SnapFits, PollerFits
<1>6. CacheFits'
  <2> SUFFICES ASSUME listOK, NEW i \in Items, i \in dirty \/ cache[i] = catalog[i]
               PROVE  cache[i] = catalog[i] \/ (poller'.at = "list" /\ i \in poller'.todo)
    BY <1>1 DEF CacheFits
  <2> QED BY <1>2, <1>4
<1>7. \A x \in Tags : Known(x) => Known(x)'
  BY <1>1, <1>2, <1>3, <1>4 DEF Known, UpToDate, InHand
<1>8. cache' \in [Items -> Versions] /\ listOK' \in BOOLEAN /\ poller.at # "enqueue"
  BY <1>1 DEF TypeOK
<1> QED BY <1>1, <1>2, <1>4, <1>5, <1>6, <1>7, <1>8, QuietPoll

LEMMA PollListKeeps == ASSUME IInv, NEW ok \in BOOLEAN, PollList(ok) PROVE IInv'
<1> USE DEF IInv
<1>1. /\ UNCHANGED <<catalog, dirty, recent, row, waiting, job, worker, handler, shown>>
      /\ Excuse({}, {}) /\ poller.at = "list" /\ poller' = [poller EXCEPT !.at = "items"]
      /\ cache' = Listed(ok) /\ listOK' = ok
  BY DEF PollList, queueVars, NoExcuse
<1>2. cache' \in [Items -> Versions] /\ (ok => cache' = catalog)
  BY <1>1 DEF Listed, TypeOK
<1>3. /\ poller' \in PollerStates /\ poller'.at = "items" /\ poller'.todo = poller.todo
      /\ poller'.snap = poller.snap
  BY <1>1 DEF TypeOK, PollerStates
<1>4. \A m \in Tags : poller.snap[m] = None
  BY <1>1 DEF SnapFits
<1>5. SnapFits' /\ PollerFits' /\ CacheFits'
  BY <1>1, <1>2, <1>3, <1>4 DEF SnapFits, PollerFits, CacheFits
<1>6. \A x \in Tags : Known(x) => Known(x)'
  BY <1>1, <1>3, <1>4 DEF Known, UpToDate, InHand
<1>7. dirty' \subseteq Items /\ recent' \subseteq Items /\ poller.at # "enqueue"
  BY <1>1 DEF TypeOK
<1> QED BY <1>1, <1>2, <1>3, <1>5, <1>6, <1>7, QuietPoll

(* The rows of the item, and no others, are now in the poller's hands.      *)
LEMMA ReconcileItemKeeps == ASSUME IInv, NEW i \in Items, ReconcileItem(i) PROVE IInv'
<1> USE DEF IInv
<1> DEFINE new == [m \in Tags |-> IF m \in BoundTo(i) THEN Refaced(row[m]) ELSE None]
<1>1. /\ UNCHANGED <<catalog, dirty, recent, cache, listOK, row, waiting, job, worker,
                     handler, shown>>
      /\ Excuse({}, {}) /\ poller.at = "items" /\ i \in poller.todo
      /\ poller' = [poller EXCEPT !.at = "tags", !.todo = @ \ {i}, !.item = i, !.snap = new]
  BY DEF ReconcileItem, queueVars, NoExcuse
<1>2. ASSUME NEW m \in Tags, row[m] # None, row[m].item = i
      PROVE  /\ Refaced(row[m]) \in Binding /\ Refaced(row[m]).item = i
             /\ cache[i] # 0 => Refaced(row[m]).face = cache[i]
  <2>1. row[m] \in Binding /\ cache[i] \in Versions
    BY <1>2 DEF TypeOK
  <2> QED BY <1>2, <2>1 DEF Refaced, Binding
<1>3. /\ new \in [Tags -> Binding \cup {None}]
      /\ \A m \in Tags : new[m] # None <=> row[m] # None /\ row[m].item = i
      /\ \A m \in Tags : new[m] # None =>
           new[m].item = i /\ (cache[i] # 0 => new[m].face = cache[i])
  <2>1. \A m \in Tags : m \in BoundTo(i) <=> row[m] # None /\ row[m].item = i
    BY DEF BoundTo
  <2> HIDE DEF BoundTo, Refaced
  <2> QED BY <1>2, <2>1, NoneIsApart
<1> HIDE DEF new
<1>4. /\ poller' \in PollerStates /\ poller'.at = "tags" /\ poller'.item = i
      /\ poller'.todo = poller.todo \ {i} /\ poller'.snap = new
  BY <1>1, <1>3 DEF TypeOK, PollerStates
<1>5. SnapFits' /\ PollerFits' /\ CacheFits'
  BY <1>1, <1>3, <1>4 DEF SnapFits, PollerFits, CacheFits
<1>6. ASSUME NEW x \in Tags, Known(x) PROVE Known(x)'
  <2>1. ~InHand(x) /\ poller.at # "boot"
    BY <1>1 DEF InHand, SnapFits
  <2>2. row[x] # None /\ row[x].item = i => InHand(x)'
    BY <1>1, <1>3, <1>4 DEF InHand
  <2> QED BY <1>1, <1>4, <1>6, <2>1, <2>2 DEF Known, UpToDate
<1>7. /\ dirty' \subseteq Items /\ recent' \subseteq Items /\ poller.at # "enqueue"
      /\ cache' \in [Items -> Versions] /\ listOK' \in BOOLEAN
  BY <1>1 DEF TypeOK
<1> QED BY <1>1, <1>4, <1>5, <1>6, <1>7, QuietPoll

LEMMA ReconcileNextKeeps == ASSUME IInv, ReconcileNext PROVE IInv'
<1> USE DEF IInv
<1>1. /\ UNCHANGED <<catalog, dirty, recent, cache, listOK, row, waiting, job, worker,
                     handler, shown>>
      /\ Excuse({}, {}) /\ poller.at = "tags" /\ poller.snap = NoSnap
      /\ poller' = [poller EXCEPT !.at = "items", !.item = None]
  BY DEF ReconcileNext, queueVars, NoExcuse
<1>2. /\ poller' \in PollerStates /\ poller'.at = "items" /\ poller'.todo = poller.todo
      /\ poller'.snap = poller.snap /\ \A m \in Tags : poller.snap[m] = None
  BY <1>1 DEF TypeOK, PollerStates, NoSnap
<1>3. SnapFits' /\ PollerFits' /\ CacheFits'
  BY <1>1, <1>2 DEF SnapFits, PollerFits, CacheFits
<1>4. \A x \in Tags : Known(x) => Known(x)'
  BY <1>1, <1>2 DEF Known, UpToDate, InHand
<1>5. /\ dirty' \subseteq Items /\ recent' \subseteq Items /\ poller.at # "enqueue"
      /\ cache' \in [Items -> Versions] /\ listOK' \in BOOLEAN
  BY <1>1 DEF TypeOK
<1> QED BY <1>1, <1>2, <1>3, <1>4, <1>5, QuietPoll

LEMMA ReconcileDoneKeeps == ASSUME IInv, ReconcileDone PROVE IInv'
<1> USE DEF IInv
<1>1. /\ UNCHANGED <<catalog, dirty, recent, cache, listOK, row, waiting, job, worker,
                     handler, shown>>
      /\ Excuse({}, {}) /\ poller.at = "items" /\ poller.todo = {}
      /\ poller' = PollerAt("wait")
  BY DEF ReconcileDone, queueVars, NoExcuse
<1>2. /\ poller' \in PollerStates /\ SnapFits' /\ PollerFits' /\ CacheFits'
  BY <1>1, PollerAtFits DEF SnapFits, PollerFits, CacheFits
<1>3. \A x \in Tags : Known(x) => Known(x)'
  BY <1>1, PollerAtFits DEF Known, UpToDate, InHand, SnapFits
<1>4. /\ dirty' \subseteq Items /\ recent' \subseteq Items /\ poller.at # "enqueue"
      /\ cache' \in [Items -> Versions] /\ listOK' \in BOOLEAN
  BY <1>1 DEF TypeOK
<1> QED BY <1>1, <1>2, <1>3, <1>4, QuietPoll

(* The row is written whole, with the face in the cache: the catalog's, or  *)
(* one that has a report to come, unless the last List failed.              *)
LEMMA ReconcileUpsertKeeps == ASSUME IInv, NEW m \in Tags, ReconcileUpsert(m) PROVE IInv'
<1> USE DEF IInv
<1> DEFINE b == poller.snap[m]
           i == poller.item
           B == Only(m, ~listOK)
<1>1. /\ UNCHANGED <<catalog, dirty, recent, cache, listOK, waiting, job, worker, handler,
                     shown>>
      /\ Excuse({}, B) /\ poller.at = "tags" /\ b # None
      /\ row' = IF cache[i] # 0 THEN [row EXCEPT ![m] = b] ELSE row
      /\ poller' = [poller EXCEPT !.at = "enqueue", !.mac = m]
  BY DEF ReconcileUpsert, Upserted, queueVars
<1>2. /\ poller' \in PollerStates /\ poller'.at = "enqueue" /\ poller'.mac = m
      /\ poller'.todo = poller.todo /\ poller'.item = i /\ poller'.snap = poller.snap
  BY <1>1 DEF TypeOK, PollerStates
<1>3. /\ b \in Binding /\ i \in Items /\ b.item = i
      /\ cache[i] # 0 => b.face = cache[i]
  BY <1>1, PollerTyped DEF SnapFits
<1> HIDE DEF b, i, B
<1>4. /\ row' \in [Tags -> Binding \cup {None}]
      /\ cache[i] # 0 => row'[m] = b
      /\ cache[i] = 0 => row'[m] = row[m]
      /\ \A x \in Tags : x # m => row'[x] = row[x]
  BY <1>1, <1>3 DEF TypeOK
<1>5. SnapFits' /\ PollerFits' /\ WorkerFits'
  <2>1. poller'.snap[m] # None
    BY <1>1, <1>2 DEF b
  <2> QED BY <1>1, <1>2, <1>3, <2>1 DEF SnapFits, PollerFits, WorkerFits, i
<1>6. CacheFits'
  BY <1>1, <1>2 DEF CacheFits
<1>7. \A x \in Tags : LastWord(x) => LastWord(x)'
  <2>1. ASSUME NEW x \in Tags, x = m PROVE LastWord(x)'
    BY <1>2, <2>1 DEF LastWord, ToBeQueued
  <2>2. \A x \in Tags : ToBeQueued(x) => ToBeQueued(x)'
    BY <1>1 DEF ToBeQueued
  <2> QED BY <1>1, <1>4, <2>1, <2>2, SameLastWord
<1>8. ASSUME NEW x \in Tags, x \notin B, Known(x) PROVE Known(x)'
  <2>1. CASE x # m
    BY <1>1, <1>2, <1>4, <1>8, <2>1 DEF Known, UpToDate, InHand, i
  <2>2. CASE x = m
    <3>1. cache[i] = catalog[i] \/ i \in dirty
      BY <1>1, <1>3, <1>8, <2>2 DEF B, Only, CacheFits
    <3>2. CASE cache[i] # 0
      <4>1. row'[x] = b /\ b.item = i /\ b.face = cache[i]
        BY <1>3, <1>4, <2>2, <3>2
      <4> QED BY <1>1, <3>1, <4>1 DEF Known, UpToDate
    <3>3. CASE cache[i] = 0 /\ (row[m] = None \/ row[m].item = i)
      BY <1>1, <1>4, <2>2, <3>1, <3>3 DEF Known, UpToDate
    <3>4. CASE cache[i] = 0 /\ row[m] # None /\ row[m].item # i
      BY <1>1, <1>2, <1>4, <1>8, <2>2, <3>4 DEF Known, UpToDate, InHand, i
    <3> QED BY <3>2, <3>3, <3>4
  <2> QED BY <2>1, <2>2
<1>9. B \in SUBSET Tags
  BY DEF B, Only
<1>10. RowFits' /\ FaceFits' /\ offRow' \subseteq Tags /\ offCatalog' \subseteq Tags
  BY <1>1, <1>7, <1>8, <1>9, ReasonsFit
<1> QED BY <1>1, <1>2, <1>4, <1>5, <1>6, <1>10 DEF TypeOK

LEMMA ReconcileEnqueueKeeps == ASSUME IInv, ReconcileEnqueue PROVE IInv'
<1> USE DEF IInv
<1> DEFINE m == poller.mac
           b == poller.snap[m]
           A == Only(m, row[m] # b)
<1>1. /\ UNCHANGED <<catalog, dirty, recent, cache, listOK, row, job, worker, handler,
                     shown>>
      /\ Excuse(A, {}) /\ poller.at = "enqueue" /\ waiting' = [waiting EXCEPT ![m] = b]
      /\ poller' = [poller EXCEPT !.at = "tags", !.mac = None, !.snap[m] = None]
  BY DEF ReconcileEnqueue, Snapped, Queue!Request
<1>2. m \in Tags /\ b \in Binding
  BY <1>1, PollerTyped DEF PollerFits
<1>3. /\ poller' \in PollerStates /\ poller'.at = "tags" /\ poller'.mac = None
      /\ poller'.todo = poller.todo /\ poller'.item = poller.item
      /\ poller'.snap = [poller.snap EXCEPT ![m] = None]
      /\ poller'.snap[m] = None
      /\ \A x \in Tags : x # m => poller'.snap[x] = poller.snap[x]
  <2>1. poller' = [at |-> "tags", todo |-> poller.todo, item |-> poller.item,
                   snap |-> [poller.snap EXCEPT ![m] = None], mac |-> None]
    BY <1>1 DEF TypeOK, PollerStates
  <2> QED BY <1>2, <2>1, PollerTyped DEF PollerStates
<1> HIDE DEF m, b, A
<1>4. /\ waiting' \in [Tags -> Binding \cup {None}] /\ waiting'[m] = b
      /\ \A x \in Tags : x # m => waiting'[x] = waiting[x]
  BY <1>1, <1>2 DEF TypeOK
<1>5. SnapFits' /\ PollerFits' /\ WorkerFits'
  BY <1>1, <1>3 DEF SnapFits, PollerFits, WorkerFits
<1>6. CacheFits'
  BY <1>1, <1>3 DEF CacheFits
<1>7. ASSUME NEW x \in Tags, x \notin A, LastWord(x) PROVE LastWord(x)'
  <2>1. CASE x # m
    <3>1. ToBeQueued(x) => ToBeQueued(x)'
      BY <1>1, <2>1 DEF ToBeQueued, m
    <3> QED BY <1>1, <1>4, <1>7, <2>1, <3>1, SameLastWord
  <2>2. CASE x = m
    <3>1. row[m] = b
      BY <1>7, <2>2 DEF A, Only
    <3> QED BY <1>1, <1>4, <2>2, <3>1 DEF LastWord, Waits
  <2> QED BY <2>1, <2>2
<1>8. ASSUME NEW x \in Tags, Known(x) PROVE Known(x)'
  <2>1. InHand(x) => x # m
    BY <1>1 DEF InHand, m
  <2>2. InHand(x) => InHand(x)'
    BY <1>1, <1>3, <2>1 DEF InHand
  <2> QED BY <1>1, <1>3, <1>8, <2>2 DEF Known, UpToDate
<1>9. A \in SUBSET Tags
  BY <1>2 DEF A, Only
<1>10. RowFits' /\ FaceFits' /\ offRow' \subseteq Tags /\ offCatalog' \subseteq Tags
  BY <1>1, <1>7, <1>8, <1>9, ReasonsFit
<1> QED BY <1>1, <1>3, <1>4, <1>5, <1>6, <1>10 DEF TypeOK

-----------------------------------------------------------------------------
(* The worker *)

LEMMA StartPushKeeps == ASSUME IInv, NEW m \in Tags, StartPush(m) PROVE IInv'
<1> USE DEF IInv
<1>1. /\ UNCHANGED <<catalog, dirty, recent, cache, poller, listOK, row, handler, shown>>
      /\ Excuse({}, {}) /\ worker = "idle" /\ worker' = "push"
      /\ job = None /\ waiting[m] # None
      /\ job' = [mac |-> m, binding |-> waiting[m]]
      /\ waiting' = [waiting EXCEPT ![m] = None]
  BY DEF StartPush, Queue!Start, pollVars, NoExcuse
<1>2. /\ waiting[m] \in Binding /\ waiting' \in [Tags -> Binding \cup {None}]
      /\ waiting'[m] = None /\ \A x \in Tags : x # m => waiting'[x] = waiting[x]
  BY <1>1 DEF TypeOK
<1>3. /\ job' \in [mac : Tags, binding : Binding] /\ job' # None
      /\ job'.mac = m /\ job'.binding = waiting[m]
  BY <1>1, <1>2, NoneIsApart
<1>4. ASSUME NEW x \in Tags, LastWord(x) PROVE LastWord(x)'
  <2>1. ToBeQueued(x) => ToBeQueued(x)'
    BY <1>1 DEF ToBeQueued
  <2>2. CASE x = m
    BY <1>1, <1>2, <1>3, <1>4, <2>1, <2>2 DEF LastWord, Waits, UnderWay, AtRest
  <2>3. CASE x # m
    BY <1>1, <1>2, <1>3, <1>4, <2>1, <2>3 DEF LastWord, Waits, UnderWay, AtRest
  <2> QED BY <2>2, <2>3
<1>5. RowFits' /\ FaceFits' /\ offRow' \subseteq Tags /\ offCatalog' \subseteq Tags
  BY <1>1, <1>4, ReasonsFit, SameKnown
<1>6. SnapFits' /\ PollerFits' /\ WorkerFits' /\ CacheFits'
  BY <1>1, <1>3, SameFits
<1> QED BY <1>1, <1>2, <1>3, <1>5, <1>6 DEF TypeOK

(* A push that ends has put its picture on the tag, or gives it a reason.   *)
LEMMA PushEndsKeeps ==
  ASSUME IInv, PushSucceeds \/ \E reached \in BOOLEAN : PushFails(reached)
  PROVE  IInv'
<1> USE DEF IInv
<1> DEFINE A == IF PushSucceeds THEN {} ELSE {job.mac}
<1>1. /\ UNCHANGED <<catalog, dirty, recent, cache, poller, listOK, row, handler, waiting,
                     job>>
      /\ worker = "push" /\ worker' = "finish"
  BY DEF PushSucceeds, PushFails, pollVars, queueVars
<1>2. job # None /\ job.mac \in Tags /\ job.binding \in Binding
  BY <1>1, JobTyped DEF WorkerFits
<1>3. /\ Excuse(A, {}) /\ A \in SUBSET Tags
      /\ shown' \in [Tags -> Binding \cup {None, Pattern}]
      /\ \A x \in Tags : x # job.mac => shown'[x] = shown[x]
      /\ job.mac \notin A => shown'[job.mac] = job.binding
  <2>1. CASE PushSucceeds
    BY <1>2, <2>1 DEF PushSucceeds, NoExcuse, TypeOK
  <2>2. CASE ~PushSucceeds
    <3>1. PICK reached \in BOOLEAN : PushFails(reached)
      BY <2>2
    <3> QED BY <1>2, <2>2, <3>1 DEF PushFails, TypeOK
  <2> QED BY <2>1, <2>2
<1> HIDE DEF A
<1>4. ASSUME NEW x \in Tags, x \notin A, LastWord(x) PROVE LastWord(x)'
  <2>1. ToBeQueued(x) => ToBeQueued(x)'
    BY <1>1 DEF ToBeQueued
  <2>2. CASE x = job.mac
    BY <1>1, <1>2, <1>3, <1>4, <2>1, <2>2 DEF LastWord, Waits, UnderWay, AtRest
  <2>3. CASE x # job.mac
    BY <1>1, <1>2, <1>3, <1>4, <2>1, <2>3 DEF LastWord, Waits, UnderWay, AtRest
  <2> QED BY <2>2, <2>3
<1>5. RowFits' /\ FaceFits' /\ offRow' \subseteq Tags /\ offCatalog' \subseteq Tags
  BY <1>1, <1>3, <1>4, ReasonsFit, SameKnown
<1>6. SnapFits' /\ PollerFits' /\ WorkerFits' /\ CacheFits'
  BY <1>1, <1>2, SameFits
<1> QED BY <1>1, <1>3, <1>5, <1>6 DEF TypeOK

LEMMA FinishPushKeeps == ASSUME IInv, FinishPush PROVE IInv'
<1> USE DEF IInv
<1>1. /\ UNCHANGED <<catalog, dirty, recent, cache, poller, listOK, row, handler, waiting,
                     shown>>
      /\ Excuse({}, {}) /\ worker = "finish" /\ worker' = "idle" /\ job' = None
  BY DEF FinishPush, BackForMore, Queue!Finish, pollVars, NoExcuse
<1>2. ASSUME NEW x \in Tags, LastWord(x) PROVE LastWord(x)'
  <2>1. ToBeQueued(x) => ToBeQueued(x)'
    BY <1>1 DEF ToBeQueued
  <2> QED BY <1>1, <1>2, <2>1 DEF LastWord, Waits, UnderWay, AtRest
<1>3. RowFits' /\ FaceFits' /\ offRow' \subseteq Tags /\ offCatalog' \subseteq Tags
  BY <1>1, <1>2, ReasonsFit, SameKnown
<1>4. SnapFits' /\ PollerFits' /\ WorkerFits' /\ CacheFits'
  BY <1>1, SameFits
<1> QED BY <1>1, <1>3, <1>4 DEF TypeOK

-----------------------------------------------------------------------------
(* A restart loses nothing of a tag that is settled.                        *)
LEMMA RestartKeeps == ASSUME IInv, Restart PROVE IInv'
<1> USE DEF IInv
<1> DEFINE A == {m \in Tags : ~Settled(m)}
<1>1. /\ UNCHANGED <<catalog, dirty, recent, row, shown>> /\ Excuse(A, {})
      /\ cache' = EmptyCache /\ waiting' = NoSnap /\ job' = None /\ worker' = "idle"
      /\ handler' = AllIdle /\ poller' = PollerAt("boot") /\ listOK' = FALSE
  BY DEF Restart
<1>2. TypeOK /\ cache' \in [Items -> Versions] /\ waiting' \in [Tags -> Binding \cup {None}]
      /\ handler' \in [Handlers -> HandlerStates] /\ poller' \in PollerStates
  BY <1>1, PollerAtFits, NoneIsApart
     DEF EmptyCache, NoSnap, AllIdle, HandlerStates
<1>3. SnapFits' /\ PollerFits' /\ WorkerFits' /\ CacheFits'
  BY <1>1, PollerAtFits DEF SnapFits, PollerFits, WorkerFits, CacheFits
<1>4. ASSUME NEW x \in Tags, x \notin A, LastWord(x) PROVE LastWord(x)'
  <2>1. Settled(x)
    BY <1>4
  <2>2. waiting[x] = None /\ (job = None \/ job.mac # x) /\ ~ToBeQueued(x)
    BY <2>1 DEF Settled, Queued, Handling, Polling, ToBeQueued, PollerFits
  <2>3. waiting'[x] = None
    BY <1>1 DEF NoSnap
  <2>4. row[x] # None => shown[x] = row[x]
    BY <1>4, <2>2 DEF LastWord, Waits, UnderWay, AtRest
  <2> QED BY <1>1, <2>3, <2>4 DEF LastWord, AtRest
<1>5. \A x \in Tags : Known(x)'
  BY <1>1, PollerAtFits DEF Known
<1>6. RowFits' /\ FaceFits' /\ offRow' \subseteq Tags /\ offCatalog' \subseteq Tags
  BY <1>1, <1>4, <1>5, ReasonsFit
<1> QED BY <1>1, <1>2, <1>3, <1>6 DEF TypeOK

-----------------------------------------------------------------------------
(* The theorems *)

LEMMA InitKeeps == Init => IInv
<1> SUFFICES ASSUME Init PROVE IInv
  OBVIOUS
<1>1. /\ cache = EmptyCache /\ worker = "idle" /\ handler = AllIdle
      /\ poller = PollerAt("boot") /\ listOK = FALSE /\ dirty = {} /\ recent = {}
      /\ catalog = [i \in Items |-> 1] /\ row = [m \in Tags |-> None]
      /\ shown = [m \in Tags |-> None] /\ offRow = {} /\ offCatalog = {}
      /\ waiting = [m \in Tags |-> None] /\ job = None
  BY DEF Init, Queue!Init
<1>2. TypeOK
  BY <1>1, PollerAtFits, NoneIsApart DEF TypeOK, EmptyCache, AllIdle, HandlerStates
<1>3. SnapFits /\ PollerFits /\ WorkerFits /\ CacheFits
  BY <1>1, PollerAtFits DEF SnapFits, PollerFits, WorkerFits, CacheFits
<1>4. RowFits /\ FaceFits
  BY <1>1 DEF RowFits, LastWord, FaceFits, Known
<1> QED BY <1>2, <1>3, <1>4 DEF IInv

LEMMA StutterKeeps == ASSUME IInv, UNCHANGED vars PROVE IInv'
<1>1. UNCHANGED <<catalog, dirty, recent, cache, row, waiting, job, worker, handler, poller,
                  shown, listOK, offRow, offCatalog>>
  BY DEF vars
<1>2. TypeOK' /\ SnapFits' /\ PollerFits' /\ WorkerFits' /\ CacheFits'
  BY <1>1 DEF IInv, TypeOK, SnapFits, PollerFits, WorkerFits, CacheFits
<1>3. RowFits' /\ FaceFits'
  BY <1>1 DEF IInv, RowFits, LastWord, Waits, UnderWay, AtRest, ToBeQueued, FaceFits, Known,
              UpToDate, InHand
<1> QED BY <1>2, <1>3 DEF IInv

LEMMA StepKeeps == IInv /\ [Next]_vars => IInv'
<1> SUFFICES ASSUME IInv, [Next]_vars PROVE IInv'
  OBVIOUS
<1>1. ASSUME NEW i \in Editable, Edit(i) \/ Hide(i) PROVE IInv'
  BY <1>1, MerchantKeeps, SyncAssumption
<1>2. ASSUME NEW h \in Handlers, NEW m \in Tags,
             RefreshRead(h, m) \/ \E i \in Items : SaveRead(h, m, i)
      PROVE  IInv'
  BY <1>2, SaveReadKeeps, RefreshReadKeeps
<1>3. ASSUME NEW m \in Tags, Delete(m) \/ TestPattern(m) \/ StartPush(m) PROVE IInv'
  BY <1>3, DeleteKeeps, TestPatternKeeps, StartPushKeeps
<1>4. ASSUME NEW h \in Handlers, HandlerStep(h) PROVE IInv'
  BY <1>4, SaveUpsertKeeps, SaveFailsKeeps, SaveEnqueueKeeps DEF HandlerStep
<1>5. ASSUME PollerStep PROVE IInv'
  BY <1>5, FirstListKeeps, PollListKeeps, PollChangesKeeps, ReconcileItemKeeps,
     ReconcileUpsertKeeps, ReconcileEnqueueKeeps, ReconcileNextKeeps, ReconcileDoneKeeps
     DEF PollerStep
<1>6. ASSUME PushStep PROVE IInv'
  BY <1>6, PushEndsKeeps, FinishPushKeeps DEF PushStep
<1> QED BY <1>1, <1>2, <1>3, <1>4, <1>5, <1>6, RestartKeeps, StutterKeeps DEF Next

(* Two promises kept at every moment, for any tags, items and handlers: for *)
(* each tag without a reason, something or somebody still carries its row   *)
(* to it, and the catalog's face to its row.                                *)
THEOREM Inductive == SafeSpec => []IInv
<1>1. Init => IInv
  BY InitKeeps
<1>2. IInv /\ [Next]_vars => IInv'
  BY StepKeeps
<1> QED BY <1>1, <1>2, PTL DEF SafeSpec

(* The rows, the cache, the queue and the goroutines keep their types: a    *)
(* row's face is always one the catalog has had.                            *)
THEOREM TypeCorrect == SafeSpec => []TypeOK
<1>1. IInv => TypeOK
  BY DEF IInv
<1> QED BY <1>1, Inductive, PTL

(* web.go:145-148, 201-210, 535-542: for any number of tags, handlers and   *)
(* edits, a tag at rest shows its row unless one of the named reasons holds.*)
THEOREM TagShowsItsRowHolds == SafeSpec => []TagShowsItsRow
<1>1. IInv => TagShowsItsRow
  <2> SUFFICES ASSUME IInv, NEW m \in Tags \ offRow, Settled(m), row[m] # None
               PROVE  shown[m] = row[m]
    BY DEF TagShowsItsRow, ShowsRow
  <2>1. waiting[m] = None /\ (job = None \/ job.mac # m) /\ ~ToBeQueued(m)
    BY DEF Settled, Queued, Handling, Polling, ToBeQueued, PollerFits, IInv
  <2>2. LastWord(m)
    BY DEF IInv, RowFits
  <2> QED BY <2>1, <2>2 DEF LastWord, Waits, UnderWay, AtRest
<1> QED BY <1>1, Inductive, PTL

(* poller.go:50-70, web.go:139-145: likewise, the row of a tag at rest has  *)
(* the catalog's face, however edits, polls, saves and restarts interleave. *)
THEOREM RowFollowsCatalogHolds == SafeSpec => []RowFollowsCatalog
<1>1. IInv => RowFollowsCatalog
  <2> SUFFICES ASSUME IInv, NEW m \in Tags \ offCatalog, Settled(m) PROVE UpToDate(m)
    BY DEF RowFollowsCatalog
  <2>1. Known(m)
    BY DEF IInv, FaceFits
  <2>2. row[m] = None => UpToDate(m)
    BY DEF UpToDate
  <2> QED BY <2>1, <2>2 DEF Known, InHand, Settled, Polling
<1> QED BY <1>1, Inductive, PTL

=============================================================================
