------------------------------ MODULE TagSync ------------------------------
(***************************************************************************)
(* How a price travels from the catalog to a shelf tag, and the ways it    *)
(* can fail to: the catalog and its cache, the SQLite rows that bind tags  *)
(* to items, the HTTP handlers that write them (web.go), the poller and    *)
(* the reconciliation it calls (poller.go, ReconcileChanged), the push     *)
(* queue (as the Coalescer that PushQueue implements) with pushBinding,    *)
(* and restarts of the process, which keep the rows and nothing else.      *)
(*                                                                         *)
(* A step is one access to shared state by one goroutine: a cache read, a  *)
(* row statement, a request to the queue.  An item's name and price are    *)
(* one number, its version: 1 and up for what the catalog has listed, 0    *)
(* for the empty name and zero price of an item that is not known.         *)
(***************************************************************************)
EXTENDS Naturals, FiniteSets

CONSTANTS Tags, Items,
          Handlers,       \* HTTP handler goroutines
          MaxVersion,     \* bound: how often an item is edited
          Editable,       \* bound: the items the merchant edits or hides
          None, Pattern   \* no value; the picture of /api/testpattern

Versions == 0 .. MaxVersion
Binding == [item : Items, face : Versions]

ASSUME SyncAssumption ==
  /\ MaxVersion \in Nat \ {0}
  /\ Editable \subseteq Items
  /\ None \notin Tags \cup Items \cup Binding \cup [mac : Tags, binding : Binding]

VARIABLES
  catalog,     \* the merchant's catalog: version of each item, 0 when hidden
  dirty,       \* items edited since the last ChangedSince that succeeded
  recent,      \* items that its 30 s overlap may report a second time
  cache,       \* Cache.byID
  row,         \* the bindings table, or None
  waiting, job,\* the push queue: its pending requests, the worker's b
  worker,      \* where the worker is in pushBinding
  handler,     \* what each HTTP handler is about to do
  poller,      \* where the poller goroutine is
  shown,       \* what each tag displays
  listOK,      \* history: the last List succeeded
  offRow,      \* history: tags with a reason not to show their row
  offCatalog   \* history: tags with a reason for a row unlike the catalog

queueVars == <<waiting, job>>
pollVars == <<dirty, recent, cache, poller, listOK>>
vars == <<catalog, dirty, recent, cache, row, waiting, job, worker,
          handler, poller, shown, listOK, offRow, offCatalog>>

Idle == [at |-> "idle", mac |-> None, binding |-> None]
HandlerStates ==
  {Idle} \cup [at : {"upsert", "enqueue"}, mac : Tags, binding : Binding]

(* The poller: todo are the changed items still to reconcile, item the one *)
(* it works on, snap the bindings ByItem returned that are still to be     *)
(* handled, and mac the one whose row it has just written.                 *)
PollerStates ==
  [at : {"boot", "wait", "list", "items", "tags", "enqueue"},
   todo : SUBSET Items, item : Items \cup {None},
   snap : [Tags -> Binding \cup {None}], mac : Tags \cup {None}]

NoSnap == [m \in Tags |-> None]
PollerAt(place) ==
  [at |-> place, todo |-> {}, item |-> None, snap |-> NoSnap, mac |-> None]

TypeOK ==
  /\ catalog \in [Items -> Versions]
  /\ dirty \subseteq Items /\ recent \subseteq Items
  /\ cache \in [Items -> Versions]
  /\ row \in [Tags -> Binding \cup {None}]
  /\ waiting \in [Tags -> Binding \cup {None}]
  /\ job \in [mac : Tags, binding : Binding] \cup {None}
  /\ worker \in {"idle", "push", "finish"}
  /\ handler \in [Handlers -> HandlerStates]
  /\ poller \in PollerStates
  /\ shown \in [Tags -> Binding \cup {None, Pattern}]
  /\ listOK \in BOOLEAN
  /\ offRow \subseteq Tags /\ offCatalog \subseteq Tags

Queue == INSTANCE Coalescer WITH MACs <- Tags, Bindings <- Binding

(* The process starts with what the database holds, an empty cache and an  *)
(* empty queue; the web server is up while the poller loads the catalog.   *)
EmptyCache == [i \in Items |-> 0]
AllIdle == [h \in Handlers |-> Idle]

Init ==
  /\ Queue!Init
  /\ cache = EmptyCache
  /\ worker = "idle"
  /\ handler = AllIdle
  /\ poller = PollerAt("boot")
  /\ listOK = FALSE
  /\ catalog = [i \in Items |-> 1]
  /\ dirty = {} /\ recent = {}
  /\ row = [m \in Tags |-> None]
  /\ shown = [m \in Tags |-> None]
  /\ offRow = {} /\ offCatalog = {}

-----------------------------------------------------------------------------
(* Who is still busy with a tag, and what is right for it *)

(* A step of a goroutine that will touch tag m is still to come. *)
Handling(m) == \E h \in Handlers : handler[h].mac = m
Polling(m) ==
  \/ poller.at = "boot"
  \/ poller.snap[m] # None
  \/ row[m] # None /\ row[m].item \in dirty \cup poller.todo
Queued(m) == waiting[m] # None \/ (job # None /\ job.mac = m)
Settled(m) == ~Handling(m) /\ ~Polling(m) /\ ~Queued(m)

(* The catalog no longer lists a hidden item: nothing is owed to its tags. *)
UpToDate(m) == row[m] # None => catalog[row[m].item] \in {row[m].face, 0}
ShowsRow(m) == row[m] # None => shown[m] = row[m]

(* A step may give tags a reason to differ from their row, or their row     *)
(* from the catalog; a tag loses its reasons once it is settled and right.  *)
Excuse(fromRow, fromCatalog) ==
  /\ offRow' = {m \in offRow \cup fromRow : ~(Settled(m) /\ ShowsRow(m))'}
  /\ offCatalog' = {m \in offCatalog \cup fromCatalog : ~(Settled(m) /\ UpToDate(m))'}
NoExcuse == Excuse({}, {})
Only(m, reason) == IF reason THEN {m} ELSE {}

-----------------------------------------------------------------------------
(* What the sources and the store do for their callers *)

(* List, then Cache.Replace: the whole catalog, without the hidden items. *)
Listed(ok) == IF ok THEN catalog ELSE cache

(* Store.ByItem, Store.Upsert (one row per tag, overwritten), Store.Delete. *)
BoundTo(i) == {m \in Tags : row[m] # None /\ row[m].item = i}
Upserted(m, b) == [row EXCEPT ![m] = b]
Deleted(m) == [row EXCEPT ![m] = None]

-----------------------------------------------------------------------------
(* The merchant *)

Edit(i) ==
  /\ catalog[i] \in 1 .. (MaxVersion - 1)
  /\ catalog' = [catalog EXCEPT ![i] = @ + 1]
  /\ dirty' = dirty \cup {i}
  /\ UNCHANGED <<recent, cache, row, queueVars, worker, handler,
                 poller, shown, listOK>>
  /\ NoExcuse

(* A hidden item is reported as changed, but List skips it. *)
Hide(i) ==
  /\ catalog[i] # 0
  /\ catalog' = [catalog EXCEPT ![i] = 0]
  /\ dirty' = dirty \cup {i}
  /\ UNCHANGED <<recent, cache, row, queueVars, worker, handler,
                 poller, shown, listOK>>
  /\ NoExcuse

-----------------------------------------------------------------------------
(* HTTP handlers *)

(* A handler is past its last shared access: it may serve another request. *)
Goto(h, place, m, b) ==
  handler' = [handler EXCEPT ![h] = [at |-> place, mac |-> m, binding |-> b]]
Return(h) == handler' = [handler EXCEPT ![h] = Idle]

(* saveBinding reads the cache; the page sends no name or price of its own. *)
(* A batch is a handler that saves again and again.                         *)
SaveRead(h, m, i) ==
  /\ handler[h] = Idle
  /\ Goto(h, "upsert", m, [item |-> i, face |-> cache[i]])
  /\ UNCHANGED <<catalog, pollVars, row, queueVars, worker, shown>>
  /\ NoExcuse

(* ... writes the row, with a name and price that are not the catalog's if  *)
(* the last List failed or the cache was replaced after the read ...        *)
SaveUpsert(h) ==
  LET m == handler[h].mac
      b == handler[h].binding IN
  /\ handler[h].at = "upsert"
  /\ row' = Upserted(m, b)
  /\ Goto(h, "enqueue", m, b)
  /\ UNCHANGED <<catalog, pollVars, queueVars, worker, shown>>
  /\ Excuse({}, Only(m, ~listOK \/ b.face # cache[b.item]))

(* ... or fails to (the database, or a client that went away) and stops.   *)
SaveFails(h) ==
  /\ handler[h].at = "upsert"
  /\ Return(h)
  /\ UNCHANGED <<catalog, pollVars, row, queueVars, worker, shown>>
  /\ NoExcuse

(* ... and queues what it wrote, or what a refresh read: by now another     *)
(* goroutine may have written the row again.                                *)
SaveEnqueue(h) ==
  LET m == handler[h].mac
      b == handler[h].binding IN
  /\ handler[h].at = "enqueue"
  /\ Queue!Request(m, b)
  /\ Return(h)
  /\ UNCHANGED <<catalog, pollVars, row, worker, shown>>
  /\ Excuse(Only(m, row[m] # b), {})

RefreshRead(h, m) ==
  /\ handler[h] = Idle
  /\ row[m] # None
  /\ Goto(h, "enqueue", m, row[m])
  /\ UNCHANGED <<catalog, pollVars, row, queueVars, worker, shown>>
  /\ NoExcuse

(* Delete removes the row and leaves the queue alone. *)
Delete(m) ==
  /\ row[m] # None
  /\ row' = Deleted(m)
  /\ UNCHANGED <<catalog, pollVars, queueVars, worker, handler, shown>>
  /\ NoExcuse

(* /api/testpattern?push=1 goes to the tag past the queue and the row. *)
TestPattern(m) ==
  /\ shown[m] # Pattern
  /\ shown' = [shown EXCEPT ![m] = Pattern]
  /\ UNCHANGED <<catalog, pollVars, row, queueVars, worker, handler>>
  /\ Excuse({m}, {})

-----------------------------------------------------------------------------
(* The poller *)

(* The rows whose face differs from the catalog's, with no report to come. *)
Unreported == {m \in Tags : ~UpToDate(m)}

(* Run: the first List, and lastPoll = now.  What changed while the process *)
(* was down is not reported later.                                          *)
FirstList(ok) ==
  /\ poller.at = "boot"
  /\ poller' = PollerAt("wait")
  /\ cache' = Listed(ok)
  /\ listOK' = ok
  /\ dirty' = {} /\ recent' = {}
  /\ UNCHANGED <<catalog, row, queueVars, worker, handler, shown>>
  /\ Excuse({}, Unreported)

(* A slip, for RowFollowsCatalog: "len(changed) <= 1". *)
AfterFewChanges(changed) ==
  IF Cardinality(changed) <= 1 THEN poller
                               ELSE [PollerAt("list") EXCEPT !.todo = changed]

(* With nothing changed the tick is over. *)
AfterChanges(changed) ==
  IF changed = {} THEN poller ELSE [PollerAt("list") EXCEPT !.todo = changed]

(* tick: ChangedSince answers with everything edited since the last poll,   *)
(* and perhaps again with what the poll before saw (it asks from 30 s       *)
(* before that poll).  An error leaves everything as it was.                *)
PollChanges(again) ==
  LET changed == dirty \cup again IN
  /\ poller.at = "wait"
  /\ again \subseteq recent
  /\ dirty' = {}
  /\ recent' = dirty
  /\ poller' = AfterChanges(changed)
  /\ UNCHANGED <<catalog, cache, row, queueVars, worker, handler,
                 shown, listOK>>
  /\ NoExcuse

(* A List that fails is ignored: the changed items keep their old cache.   *)
PollList(ok) ==
  /\ poller.at = "list"
  /\ poller' = [poller EXCEPT !.at = "items"]
  /\ cache' = Listed(ok)
  /\ listOK' = ok
  /\ UNCHANGED <<catalog, dirty, recent, row, queueVars, worker,
                 handler, shown>>
  /\ NoExcuse

-----------------------------------------------------------------------------
(* ReconcileChanged *)

(* A slip, for TypeOK: the version is counted on. *)
RefacedNext(b) == [b EXCEPT !.face = cache[b.item] + 1]

(* What a tag bound to i is to show: the cached face, or its old one when   *)
(* the cache does not know i.                                               *)
Refaced(b) == IF cache[b.item] # 0 THEN [b EXCEPT !.face = cache[b.item]] ELSE b

(* ByItem, and the item's name and price from the cache. *)
ReconcileItem(i) ==
  /\ poller.at = "items"
  /\ i \in poller.todo
  /\ poller' = [poller EXCEPT
       !.at = "tags", !.todo = @ \ {i}, !.item = i,
       !.snap = [m \in Tags |-> IF m \in BoundTo(i) THEN Refaced(row[m]) ELSE None]]
  /\ UNCHANGED <<catalog, dirty, recent, cache, row, queueVars, worker,
                 handler, shown, listOK>>
  /\ NoExcuse

(* The tag's row is written as ByItem saw it, with the new face; with no   *)
(* name for the item it is left alone.                                     *)
ReconcileUpsert(m) ==
  /\ poller.at = "tags"
  /\ poller.snap[m] # None
  /\ row' = IF cache[poller.item] # 0
              THEN Upserted(m, poller.snap[m]) ELSE row
  /\ poller' = [poller EXCEPT !.at = "enqueue", !.mac = m]
  /\ UNCHANGED <<catalog, dirty, recent, cache, queueVars, worker,
                 handler, shown, listOK>>
  /\ Excuse({}, Only(m, ~listOK))

(* A slip, for TagShowsItsRow: a Go range variable is a copy, and the change *)
(* of face made to it does not reach what is queued.                        *)
SnapUnchanged(m) == [poller.snap[m] EXCEPT !.face = 0]

Snapped(m) == poller.snap[m]

ReconcileEnqueue ==
  LET m == poller.mac IN
  /\ poller.at = "enqueue"
  /\ Queue!Request(m, Snapped(m))
  /\ poller' = [poller EXCEPT !.at = "tags", !.mac = None, !.snap[m] = None]
  /\ UNCHANGED <<catalog, dirty, recent, cache, row, worker, handler,
                 shown, listOK>>
  /\ Excuse(Only(m, row[m] # poller.snap[m]), {})

ReconcileNext ==
  /\ poller.at = "tags"
  /\ poller.snap = NoSnap
  /\ poller' = [poller EXCEPT !.at = "items", !.item = None]
  /\ UNCHANGED <<catalog, dirty, recent, cache, row, queueVars, worker,
                 handler, shown, listOK>>
  /\ NoExcuse

ReconcileDone ==
  /\ poller.at = "items"
  /\ poller.todo = {}
  /\ poller' = PollerAt("wait")
  /\ UNCHANGED <<catalog, dirty, recent, cache, row, queueVars, worker,
                 handler, shown, listOK>>
  /\ NoExcuse

-----------------------------------------------------------------------------
(* The worker: pushBinding *)

StartPush(m) ==
  /\ worker = "idle"
  /\ Queue!Start(m)
  /\ worker' = "push"
  /\ UNCHANGED <<catalog, pollVars, row, handler, shown>>
  /\ NoExcuse

(* Health fails, or Push does: the tag may have taken the picture all the   *)
(* same, when only the answer was lost.                                     *)
PushFails(reached) ==
  /\ worker = "push"
  /\ worker' = "finish"
  /\ shown' = IF reached THEN [shown EXCEPT ![job.mac] = job.binding] ELSE shown
  /\ UNCHANGED <<catalog, pollVars, row, queueVars, handler>>
  /\ Excuse({job.mac}, {})

PushSucceeds ==
  /\ worker = "push"
  /\ worker' = "finish"
  /\ shown' = [shown EXCEPT ![job.mac] = job.binding]
  /\ UNCHANGED <<catalog, pollVars, row, queueVars, handler>>
  /\ NoExcuse

(* A slip, for QuietTagsSettle: the worker does not go back for more. *)
StayFinished == "finish"
BackForMore == "idle"

FinishPush ==
  /\ worker = "finish"
  /\ Queue!Finish
  /\ worker' = BackForMore
  /\ UNCHANGED <<catalog, pollVars, row, handler, shown>>
  /\ NoExcuse

-----------------------------------------------------------------------------
(* The process dies and is started again: queue, cache and goroutines are   *)
(* gone, the rows are not.                                                  *)
Restart ==
  /\ cache' = EmptyCache
  /\ waiting' = NoSnap /\ job' = None
  /\ worker' = "idle"
  /\ handler' = AllIdle
  /\ poller' = PollerAt("boot")
  /\ listOK' = FALSE
  /\ UNCHANGED <<catalog, dirty, recent, row, shown>>
  /\ Excuse({m \in Tags : ~Settled(m)}, {})

HandlerStep(h) == SaveUpsert(h) \/ SaveFails(h) \/ SaveEnqueue(h)

PollerStep ==
  \/ \E ok \in BOOLEAN : FirstList(ok) \/ PollList(ok)
  \/ \E again \in SUBSET Items : PollChanges(again)
  \/ \E i \in Items : ReconcileItem(i)
  \/ \E m \in Tags : ReconcileUpsert(m)
  \/ ReconcileEnqueue \/ ReconcileNext \/ ReconcileDone

PushStep ==
  \/ \E reached \in BOOLEAN : PushFails(reached)
  \/ PushSucceeds \/ FinishPush

Next ==
  \/ \E i \in Editable : Edit(i) \/ Hide(i)
  \/ \E h \in Handlers, m \in Tags, i \in Items : SaveRead(h, m, i)
  \/ \E h \in Handlers, m \in Tags : RefreshRead(h, m)
  \/ \E m \in Tags : Delete(m) \/ TestPattern(m)
  \/ \E h \in Handlers : HandlerStep(h)
  \/ PollerStep
  \/ \E m \in Tags : StartPush(m)
  \/ PushStep
  \/ Restart

(* Goroutines that have started something go on with it, the catalog        *)
(* answers in the end, and the queue serves every waiting tag (PushQueue).  *)
Fairness ==
  /\ \A h \in Handlers : WF_vars(HandlerStep(h))
  /\ WF_vars(PollerStep)
  /\ WF_vars(PushStep)
  /\ \A m \in Tags : SF_vars(StartPush(m))

SafeSpec == Init /\ [][Next]_vars
Spec == SafeSpec /\ Fairness

-----------------------------------------------------------------------------
(* Properties *)

(* When nothing is under way for a tag, it shows what its row says, unless  *)
(* a push failed, a restart lost it, a test picture went past the queue, or *)
(* two goroutines wrote the row and queued it in different orders           *)
(* (web.go:145-148, 201-210, 535-542).  There is no other way to a tag that *)
(* differs from its row.                                                    *)
TagShowsItsRow == \A m \in Tags \ offRow : Settled(m) => ShowsRow(m)

(* When nothing is under way for a tag, its row holds the catalog's face of *)
(* its item, unless the catalog could not be listed, the change fell into a *)
(* restart, or a save read the cache before the poller replaced it          *)
(* (poller.go:50-70, web.go:139-145): the order ChangedSince, List, ByItem  *)
(* leaves no other gap.                                                     *)
RowFollowsCatalog == \A m \in Tags \ offCatalog : Settled(m) => UpToDate(m)

(* Which item a tag maps to, if any, changes only when a user saves or      *)
(* deletes a binding (README.md:24: the service "remembers which tag maps   *)
(* to which item").  ReconcileChanged writes back whole rows that it read   *)
(* before (web.go:518-541), so it need not be so.                           *)
SavedByUser(m) ==
  \E h \in Handlers : handler[h].at = "upsert" /\ handler'[h].at = "enqueue"
                       /\ handler[h].mac = m
OnlyUsersRemap ==
  [][\A m \in Tags :
       row'[m] # None /\ (row[m] = None \/ row'[m].item # row[m].item) =>
         SavedByUser(m)]_vars

(* A tag comes to rest, again and again, once the users leave it alone and  *)
(* the process stays up: no report, row or request is forgotten half-way.   *)
QuietTagsSettle ==
  \A m \in Tags : <>[](~Handling(m)) /\ <>[][~Restart]_vars => []<>Settled(m)

=============================================================================
