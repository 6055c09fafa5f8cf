--------------------------- MODULE BlePush_proofs ---------------------------
(***************************************************************************)
(* Proofs about the bridge's radio side, for any tags, any number of       *)
(* blocks and any number of pushes.                                        *)
(***************************************************************************)
EXTENDS BlePush, SequenceTheorems, TLAPS

(* While an image is held, it is that of the last push asked for, and the   *)
(* connection of the push, made or in the making, is to its tag.            *)
ImageInv ==
  /\ http = "wait" => targets # <<>>
  /\ img # 0 => img = Len(targets) /\ targets[img] = target /\ pushing
  /\ img # 0 /\ pend.who = "push" => pend.tag = target
  /\ img # 0 /\ conn # None => conn = target

(* The blocks a tag holds are those of pushes for it. *)
BlocksInv ==
  \A t \in Tags, p \in 1 .. Parts :
    buf[t][p] # 0 => buf[t][p] \in DOMAIN targets /\ targets[buf[t][p]] = t

IInv == TypeOK /\ ImageInv /\ BlocksInv

(* With pushes asked for only when the radio is quiet, the links of pushes  *)
(* are all to the tag of the last one, and s_push_conn is one of them.      *)
LinkInv ==
  /\ \A t \in Tags : link[t].who = "push" => t = target
  /\ pend.who = "push" => pend.tag = target
  /\ pend # Free => link[pend.tag] = NoLink
  /\ conn # None => conn = target /\ link[conn].who = "push"

(* The conversation with that tag has one thing going on at a time: a GATT  *)
(* procedure, a notification under way or a block about to be copied.  An   *)
(* image given up in the middle of send_block leaves its block nowhere to   *)
(* go, on a link that is still to come down.                                *)
OneAtATime ==
  /\ \A t \in Tags :
       /\ link[t].who # "push" => notes[t] = <<>> /\ gatt[t] = "none"
       /\ Len(notes[t]) <= 1
       /\ gatt[t] # "none" => notes[t] = <<>>
       /\ copying # 0 => notes[t] = <<>> /\ gatt[t] = "none"
  /\ copying # 0 => \E t \in Tags : link[t].who = "push"
  /\ copying # 0 /\ img = 0 => Preempt /\ conn = None

(* The blocks before the one the tag wants have arrived; it says done, and  *)
(* the bridge says ok, when all of them have.                               *)
Wants(t, p) == copying = p \/ notes[t] = <<Part(p)>>
ProgressInv ==
  /\ \A t \in Tags, p \in 1 .. Parts :
       img # 0 /\ t = target /\ Wants(t, p) =>
         \A q \in 1 .. (p - 1) : buf[t][q] = img
  /\ \A t \in Tags : notes[t] = <<Note("done")>> => Len(targets) \in delivered
  /\ pushOk => Len(targets) \in delivered
  /\ answered \subseteq delivered

SettledInv == IInv /\ LinkInv /\ OneAtATime /\ ProgressInv

-----------------------------------------------------------------------------
(* The helpers keep the types. *)
Links == {NoLink} \cup [at : {"up", "closing"}, who : {"push", "dump"}]
Pended == {Free} \cup [who : {"push", "dump"}, tag : Tags]

LEMMA NotesTyped ==
  /\ \A op \in {"size", "declared", "part", "done"} : Note(op) \in Notes
  /\ \A p \in 1 .. Parts : Part(p) \in Notes /\ Further(p) \in Notes
BY BleAssumption DEF Notes, Note, Part, Further

LEMMA AskedTyped ==
  ASSUME NEW q \in [Tags -> Seq(Notes)], NEW note \in Notes, conn \in Tags \cup {None}
  PROVE  Asked(q, note) \in [Tags -> Seq(Notes)]
<1>1. CASE Reaches
  <2>1. conn \in Tags
    BY <1>1 DEF Reaches
  <2>2. Append(q[conn], note) \in Seq(Notes)
    BY <2>1, AppendProperties
  <2> QED
    BY <1>1, <2>2 DEF Asked
<1>2. CASE ~Reaches
  BY <1>2 DEF Asked
<1> QED
  BY <1>1, <1>2

LEMMA WithoutTyped ==
  ASSUME notes \in [Tags -> Seq(Notes)], NEW t \in Tags, notes[t] # <<>>
  PROVE  Without(t) \in [Tags -> Seq(Notes)]
<1>1. Tail(notes[t]) \in Seq(Notes)
  BY HeadTailProperties
<1> QED
  BY <1>1 DEF Without

LEMMA TerminatedTyped ==
  ASSUME link \in [Tags -> Links], NEW t \in Tags \cup {None}
  PROVE  /\ Terminated(t) \in [Tags -> Links]
         /\ \A s \in Tags : /\ Terminated(t)[s].who = link[s].who
                            /\ Terminated(t)[s] = NoLink <=> link[s] = NoLink
<1>1. CASE t # None /\ link[t].at = "up"
  BY <1>1 DEF Terminated, Links, NoLink
<1>2. CASE ~(t # None /\ link[t].at = "up")
  BY <1>2 DEF Terminated
<1> QED
  BY <1>1, <1>2

-----------------------------------------------------------------------------
LEMMA InitIInv == Init => IInv
<1> SUFFICES ASSUME Init PROVE IInv
  OBVIOUS
<1>1. FlagsOK
  BY DEF Init, FlagsOK
<1>2. StateOK /\ RadioOK
  BY BleAssumption DEF Init, StateOK, RadioOK
<1>3. PeerOK
  <2>1. buf \in [Tags -> [1 .. Parts -> 0 .. MaxPushes]]
    BY BleAssumption DEF Init, NoImage
  <2>2. notes \in [Tags -> Seq(Notes)]
    BY EmptySeq DEF Init
  <2> QED
    BY <2>1, <2>2 DEF Init, PeerOK
<1>4. LogOK
  BY EmptySeq, BleAssumption DEF Init, LogOK
<1>5. ImageInv /\ BlocksInv
  BY DEF Init, ImageInv, BlocksInv, NoImage, Free
<1> QED
  BY <1>1, <1>2, <1>3, <1>4, <1>5 DEF IInv, TypeOK

LEMMA BeginKeepsIInv ==
  ASSUME IInv, NEW t \in Tags, Begin(t)
  PROVE  IInv'
<1> USE BleAssumption DEF IInv, TypeOK
<1>1. /\ targets \in Seq(Tags) /\ targets' = Append(targets, t)
      /\ targets' \in Seq(Tags)
      /\ Len(targets') = Len(targets) + 1 /\ Len(targets') <= MaxPushes
      /\ targets'[Len(targets) + 1] = t
      /\ \A n \in DOMAIN targets : n \in DOMAIN targets' /\ targets'[n] = targets[n]
      /\ targets' # <<>>
  BY AppendProperties DEF Begin, LogOK
<1>2. FlagsOK'
  BY DEF Begin, FlagsOK, FreshOk
<1>3. StateOK' /\ RadioOK'
  BY <1>1 DEF Begin, StateOK, RadioOK, FreshConn, LogOK
<1>4. PeerOK' /\ LogOK'
  BY <1>1 DEF Begin, PeerOK, LogOK, peer
<1>5. ImageInv'
  <2>1. CASE disc = "none" /\ pend = Free
    <3>1. pushing'
      BY <2>1 DEF Begin
    <3>2. /\ img' = Len(targets) + 1 /\ target' = t
          /\ conn' = None /\ pend' = Free
      BY <2>1 DEF Begin, FreshConn
    <3> QED
      BY <1>1, <3>1, <3>2 DEF ImageInv, Free
  <2>2. CASE ~(disc = "none" /\ pend = Free)
    BY <1>1, <2>2 DEF Begin, ImageInv
  <2> QED
    BY <2>1, <2>2
<1>6. BlocksInv'
  BY <1>1 DEF Begin, BlocksInv, peer
<1> QED
  BY <1>2, <1>3, <1>4, <1>5, <1>6
(* The other steps.  The blocks change in SizeArrives and SendBlock only,   *)
(* and whatever ends a push drops the image.                                *)
LEMMA ScanKeepsIInv ==
  ASSUME IInv, Scan
  PROVE  IInv'
<1> USE BleAssumption DEF IInv, TypeOK
<1>1. FlagsOK'
  BY DEF Scan, FlagsOK, request, attrs, peer, log
<1>2. StateOK' /\ RadioOK'
  BY TerminatedTyped DEF Scan, StateOK, RadioOK, Links, Free, request, attrs, peer, log
<1>3. PeerOK' /\ LogOK'
  BY DEF Scan, PeerOK, LogOK, request, attrs, peer, log
<1>4. ImageInv' /\ BlocksInv'
  BY DEF Scan, ImageInv, BlocksInv, Free, request, attrs, peer, log
<1> QED
  BY <1>1, <1>2, <1>3, <1>4

LEMMA ScanAnswerKeepsIInv ==
  ASSUME IInv, ScanAnswer
  PROVE  IInv'
<1> USE BleAssumption DEF IInv, TypeOK
<1>1. FlagsOK'
  BY DEF ScanAnswer, FlagsOK, request, attrs, radio, peer, log
<1>2. StateOK' /\ RadioOK'
  BY TerminatedTyped DEF ScanAnswer, StateOK, RadioOK, Links, Free, request, attrs, radio, peer, log
<1>3. PeerOK' /\ LogOK'
  BY DEF ScanAnswer, PeerOK, LogOK, request, attrs, radio, peer, log
<1>4. ImageInv' /\ BlocksInv'
  BY DEF ScanAnswer, ImageInv, BlocksInv, Free, request, attrs, radio, peer, log
<1> QED
  BY <1>1, <1>2, <1>3, <1>4

LEMMA DumpKeepsIInv ==
  ASSUME IInv, Dump
  PROVE  IInv'
<1> USE BleAssumption DEF IInv, TypeOK
<1>1. FlagsOK'
  BY DEF Dump, FlagsOK, request, attrs, peer, log
<1>2. StateOK' /\ RadioOK'
  BY TerminatedTyped DEF Dump, StateOK, RadioOK, Links, Free, request, attrs, peer, log
<1>3. PeerOK' /\ LogOK'
  BY DEF Dump, PeerOK, LogOK, request, attrs, peer, log
<1>4. ImageInv' /\ BlocksInv'
  BY DEF Dump, ImageInv, BlocksInv, Free, request, attrs, peer, log
<1> QED
  BY <1>1, <1>2, <1>3, <1>4

LEMMA WatchdogKeepsIInv ==
  ASSUME IInv, Watchdog
  PROVE  IInv'
<1> USE BleAssumption DEF IInv, TypeOK
<1>1. FlagsOK'
  BY DEF Watchdog, FlagsOK, Cleanup, attrs, peer, log
<1>2. StateOK' /\ RadioOK'
  BY TerminatedTyped DEF Watchdog, StateOK, RadioOK, Links, Free, Cleanup, attrs, peer, log
<1>3. PeerOK' /\ LogOK'
  BY DEF Watchdog, PeerOK, LogOK, Cleanup, attrs, peer, log
<1>4. ImageInv' /\ BlocksInv'
  BY DEF Watchdog, ImageInv, BlocksInv, Free, Cleanup, attrs, peer, log
<1> QED
  BY <1>1, <1>2, <1>3, <1>4

LEMMA DumpFoundKeepsIInv ==
  ASSUME IInv, NEW t \in Tags, DumpFound(t)
  PROVE  IInv'
<1> USE BleAssumption DEF IInv, TypeOK
<1>1. FlagsOK'
  BY DEF DumpFound, FlagsOK, request, attrs, peer, log
<1>2. StateOK' /\ RadioOK'
  BY TerminatedTyped DEF DumpFound, StateOK, RadioOK, Links, Free, request, attrs, peer, log
<1>3. PeerOK' /\ LogOK'
  BY DEF DumpFound, PeerOK, LogOK, request, attrs, peer, log
<1>4. ImageInv' /\ BlocksInv'
  BY DEF DumpFound, ImageInv, BlocksInv, Free, request, attrs, peer, log
<1> QED
  BY <1>1, <1>2, <1>3, <1>4

LEMMA DiscCompleteKeepsIInv ==
  ASSUME IInv, DiscComplete
  PROVE  IInv'
<1> USE BleAssumption DEF IInv, TypeOK
<1>1. FlagsOK'
  BY DEF DiscComplete, FlagsOK, request, Cleanup, attrs, peer, log
<1>2. StateOK' /\ RadioOK'
  BY TerminatedTyped DEF DiscComplete, StateOK, RadioOK, Links, Free, request, Cleanup, attrs, peer, log
<1>3. PeerOK' /\ LogOK'
  BY DEF DiscComplete, PeerOK, LogOK, request, Cleanup, attrs, peer, log
<1>4. ImageInv' /\ BlocksInv'
  BY DEF DiscComplete, ImageInv, BlocksInv, Free, request, Cleanup, attrs, peer, log
<1> QED
  BY <1>1, <1>2, <1>3, <1>4

LEMMA ConnectedKeepsIInv ==
  ASSUME IInv, Connected
  PROVE  IInv'
<1> USE BleAssumption DEF IInv, TypeOK
<1>1. FlagsOK'
  BY DEF Connected, FlagsOK, attrs, peer, log
<1>2. StateOK' /\ RadioOK'
  BY TerminatedTyped DEF Connected, StateOK, RadioOK, Links, Free, attrs, peer, log
<1>3. PeerOK' /\ LogOK'
  BY DEF Connected, PeerOK, LogOK, attrs, peer, log
<1>4. ImageInv' /\ BlocksInv'
  BY DEF Connected, ImageInv, BlocksInv, Free, attrs, peer, log
<1> QED
  BY <1>1, <1>2, <1>3, <1>4

LEMMA ConnectFailsKeepsIInv ==
  ASSUME IInv, ConnectFails
  PROVE  IInv'
<1> USE BleAssumption DEF IInv, TypeOK
<1>1. FlagsOK'
  BY DEF ConnectFails, FlagsOK, request, Cleanup, attrs, peer, log
<1>2. StateOK' /\ RadioOK'
  BY TerminatedTyped DEF ConnectFails, StateOK, RadioOK, Links, Free, request, Cleanup, attrs, peer, log
<1>3. PeerOK' /\ LogOK'
  BY DEF ConnectFails, PeerOK, LogOK, request, Cleanup, attrs, peer, log
<1>4. ImageInv' /\ BlocksInv'
  BY DEF ConnectFails, ImageInv, BlocksInv, Free, request, Cleanup, attrs, peer, log
<1> QED
  BY <1>1, <1>2, <1>3, <1>4

LEMMA DisconnectedKeepsIInv ==
  ASSUME IInv, NEW t \in Tags, Disconnected(t)
  PROVE  IInv'
<1> USE BleAssumption DEF IInv, TypeOK
<1>1. FlagsOK'
  BY DEF Disconnected, FlagsOK, request, Cleanup, attrs, log
<1>2. StateOK' /\ RadioOK'
  BY TerminatedTyped DEF Disconnected, StateOK, RadioOK, Links, Free, request, Cleanup, attrs, log
<1>3. PeerOK' /\ LogOK'
  BY DEF Disconnected, PeerOK, LogOK, request, Cleanup, attrs, log
<1>4. ImageInv' /\ BlocksInv'
  BY DEF Disconnected, ImageInv, BlocksInv, Free, request, Cleanup, attrs, log
<1> QED
  BY <1>1, <1>2, <1>3, <1>4

LEMMA MtuDoneKeepsIInv ==
  ASSUME IInv, NEW t \in Tags, MtuDone(t)
  PROVE  IInv'
<1> USE BleAssumption DEF IInv, TypeOK
<1>1. FlagsOK'
  BY DEF MtuDone, FlagsOK, request, peer, log
<1>2. StateOK' /\ RadioOK'
  BY TerminatedTyped DEF MtuDone, StateOK, RadioOK, Links, Free, request, peer, log
<1>3. PeerOK' /\ LogOK'
  BY DEF MtuDone, PeerOK, LogOK, request, peer, log
<1>4. ImageInv' /\ BlocksInv'
  BY DEF MtuDone, ImageInv, BlocksInv, Free, request, peer, log
<1> QED
  BY <1>1, <1>2, <1>3, <1>4

LEMMA CharsDoneKeepsIInv ==
  ASSUME IInv, NEW t \in Tags, NEW ok \in BOOLEAN, CharsDone(t, ok)
  PROVE  IInv'
<1> USE BleAssumption DEF IInv, TypeOK
<1>1. FlagsOK'
  BY DEF CharsDone, FlagsOK, request, peer, log
<1>2. StateOK' /\ RadioOK'
  BY TerminatedTyped DEF CharsDone, StateOK, RadioOK, Links, Free, request, peer, log
<1>3. PeerOK' /\ LogOK'
  BY DEF CharsDone, PeerOK, LogOK, request, peer, log
<1>4. ImageInv' /\ BlocksInv'
  BY DEF CharsDone, ImageInv, BlocksInv, Free, request, peer, log
<1> QED
  BY <1>1, <1>2, <1>3, <1>4

LEMMA SubscribeDoneKeepsIInv ==
  ASSUME IInv, NEW t \in Tags, NEW ok \in BOOLEAN, SubscribeDone(t, ok)
  PROVE  IInv'
<1> USE BleAssumption DEF IInv, TypeOK
<1>1. FlagsOK'
  BY DEF SubscribeDone, FlagsOK, request, attrs, peer, log
<1>2. StateOK' /\ RadioOK'
  BY TerminatedTyped DEF SubscribeDone, StateOK, RadioOK, Links, Free, request, attrs, peer, log
<1>3. PeerOK' /\ LogOK'
  BY DEF SubscribeDone, PeerOK, LogOK, request, attrs, peer, log
<1>4. ImageInv' /\ BlocksInv'
  BY DEF SubscribeDone, ImageInv, BlocksInv, Free, request, attrs, peer, log
<1> QED
  BY <1>1, <1>2, <1>3, <1>4

LEMMA AnswerKeepsIInv ==
  ASSUME IInv, Answer
  PROVE  IInv'
<1> USE BleAssumption DEF IInv, TypeOK
<1>1. FlagsOK' /\ StateOK' /\ RadioOK' /\ PeerOK'
  BY DEF Answer, FlagsOK, StateOK, RadioOK, PeerOK, request, attrs, radio, peer
<1>2. LogOK'
  <2>1. Len(targets) \in 1 .. MaxPushes
    BY EmptySeq DEF Answer, LogOK, ImageInv
  <2>2. answered' \subseteq answered \cup {Len(targets)}
    BY DEF Answer
  <2> QED
    BY <2>1, <2>2 DEF Answer, LogOK
<1>3. ImageInv' /\ BlocksInv'
  BY DEF Answer, ImageInv, BlocksInv, request, attrs, radio, peer
<1> QED
  BY <1>1, <1>2, <1>3

LEMMA FoundKeepsIInv ==
  ASSUME IInv, NEW t \in Tags, Found(t)
  PROVE  IInv'
<1> USE BleAssumption DEF IInv, TypeOK
<1>1. FlagsOK'
  BY DEF Found, FlagsOK, Cleanup, Advertiser, attrs, peer, log
<1>2. PeerOK' /\ LogOK'
  BY DEF Found, PeerOK, LogOK, Advertiser, attrs, peer, log
<1>3. StateOK' /\ RadioOK' /\ ImageInv'
  <2>1. CASE pend = Free /\ link[t].at = "none"
    BY <2>1 DEF Found, StateOK, RadioOK, ImageInv, Advertiser, attrs, peer, log
  <2>2. CASE ~(pend = Free /\ link[t].at = "none")
    <3>1. Cleanup /\ UNCHANGED pend
      BY <2>2 DEF Found
    <3> QED
      BY <3>1 DEF Found, StateOK, RadioOK, ImageInv, Cleanup, Advertiser, attrs, peer, log
  <2> QED
    BY <2>1, <2>2
<1>4. BlocksInv'
  BY DEF Found, BlocksInv, Advertiser, attrs, peer, log
<1> QED
  BY <1>1, <1>2, <1>3, <1>4

LEMMA ReadDoneKeepsIInv ==
  ASSUME IInv, NEW t \in Tags, ReadDone(t)
  PROVE  IInv'
<1> USE BleAssumption DEF IInv, TypeOK
<1>1. FlagsOK' /\ StateOK' /\ RadioOK' /\ LogOK'
  BY DEF ReadDone, FlagsOK, StateOK, RadioOK, LogOK, request, attrs, log
<1>2. PeerOK'
  BY NotesTyped, AskedTyped DEF ReadDone, PeerOK, StateOK
<1>3. ImageInv' /\ BlocksInv'
  BY DEF ReadDone, ImageInv, BlocksInv, request, attrs, log
<1> QED
  BY <1>1, <1>2, <1>3

LEMMA SizeArrivesKeepsIInv ==
  ASSUME IInv, NEW t \in Tags, SizeArrives(t)
  PROVE  IInv'
<1> USE BleAssumption DEF IInv, TypeOK
<1>1. notes[t] # <<>> /\ Without(t) \in [Tags -> Seq(Notes)]
  BY WithoutTyped DEF SizeArrives, Arrives, PeerOK
<1>2. FlagsOK' /\ StateOK' /\ RadioOK' /\ LogOK'
  BY DEF SizeArrives, FlagsOK, StateOK, RadioOK, LogOK, request, radio, log
<1>3. PeerOK'
  <2>1. notes' \in [Tags -> Seq(Notes)]
    BY <1>1, NotesTyped, AskedTyped DEF SizeArrives, StateOK
  <2>2. buf' \in [Tags -> [1 .. Parts -> 0 .. MaxPushes]]
    <3>1. NoImage \in [1 .. Parts -> 0 .. MaxPushes]
      BY DEF NoImage
    <3>2. buf' = buf \/ buf' = [buf EXCEPT ![conn] = NoImage]
      BY DEF SizeArrives
    <3> QED
      BY <3>1, <3>2 DEF PeerOK
  <2> QED
    BY <2>1, <2>2 DEF SizeArrives, PeerOK
<1>4. ImageInv'
  BY DEF SizeArrives, ImageInv, request, radio, log
<1>5. BlocksInv'
  BY DEF SizeArrives, BlocksInv, NoImage, PeerOK, request, radio, log
<1> QED
  BY <1>2, <1>3, <1>4, <1>5

LEMMA DeclaredArrivesKeepsIInv ==
  ASSUME IInv, NEW t \in Tags, DeclaredArrives(t)
  PROVE  IInv'
<1> USE BleAssumption DEF IInv, TypeOK
<1>1. notes[t] # <<>> /\ Without(t) \in [Tags -> Seq(Notes)]
  BY WithoutTyped DEF DeclaredArrives, Arrives, PeerOK
<1>2. FlagsOK' /\ StateOK' /\ RadioOK' /\ LogOK'
  BY DEF DeclaredArrives, FlagsOK, StateOK, RadioOK, LogOK, request, attrs, radio, log
<1>3. PeerOK'
  <2>1. notes' = Asked(Without(t), Part(1)) /\ Part(1) \in Notes
    BY NotesTyped DEF DeclaredArrives
  <2>2. notes' \in [Tags -> Seq(Notes)]
    BY <1>1, <2>1, AskedTyped DEF StateOK
  <2> QED
    BY <2>2 DEF DeclaredArrives, PeerOK
<1>4. ImageInv' /\ BlocksInv'
  BY DEF DeclaredArrives, ImageInv, BlocksInv, request, attrs, radio, log
<1> QED
  BY <1>2, <1>3, <1>4

LEMMA PartArrivesKeepsIInv ==
  ASSUME IInv, NEW t \in Tags, PartArrives(t)
  PROVE  IInv'
<1> USE BleAssumption DEF IInv, TypeOK
<1>1. notes[t] # <<>> /\ Without(t) \in [Tags -> Seq(Notes)]
  BY WithoutTyped DEF PartArrives, Arrives, PeerOK
<1>2. FlagsOK' /\ RadioOK' /\ LogOK'
  BY DEF PartArrives, FlagsOK, RadioOK, LogOK, request, attrs, radio, log
<1>3. StateOK' /\ PeerOK'
  BY <1>1 DEF PartArrives, StateOK, PeerOK, request, attrs, radio, log
<1>4. ImageInv' /\ BlocksInv'
  BY DEF PartArrives, ImageInv, BlocksInv, request, attrs, radio, log
<1> QED
  BY <1>2, <1>3, <1>4

LEMMA DoneArrivesKeepsIInv ==
  ASSUME IInv, NEW t \in Tags, DoneArrives(t)
  PROVE  IInv'
<1> USE BleAssumption DEF IInv, TypeOK
<1>1. notes[t] # <<>> /\ Without(t) \in [Tags -> Seq(Notes)]
  BY WithoutTyped DEF DoneArrives, Arrives, PeerOK
<1>2. FlagsOK' /\ StateOK' /\ LogOK'
  BY DEF DoneArrives, FlagsOK, StateOK, LogOK, request, attrs, log
<1>3. RadioOK'
  BY TerminatedTyped DEF DoneArrives, StateOK, RadioOK, Links
<1>4. PeerOK'
  BY <1>1 DEF DoneArrives, PeerOK
<1>5. ImageInv' /\ BlocksInv'
  BY DEF DoneArrives, ImageInv, BlocksInv, request, attrs, log
<1> QED
  BY <1>2, <1>3, <1>4, <1>5

LEMMA SendBlockKeepsIInv ==
  ASSUME IInv, SendBlock
  PROVE  IInv'
<1> USE BleAssumption DEF IInv, TypeOK
<1>1. FlagsOK' /\ StateOK' /\ RadioOK' /\ LogOK'
  BY DEF SendBlock, FlagsOK, StateOK, RadioOK, LogOK, request, attrs, radio, log
<1>2. ImageInv'
  BY DEF SendBlock, ImageInv, request, attrs, radio, log
<1>3. PeerOK' /\ BlocksInv'
  <2>1. CASE Reaches
    <3>1. conn \in Tags /\ copying \in 1 .. Parts
      BY <2>1 DEF Reaches, SendBlock, StateOK
    <3>2. buf' = [buf EXCEPT ![conn] = [buf[conn] EXCEPT ![copying] = img]]
      BY <2>1 DEF SendBlock
    <3>3. buf' \in [Tags -> [1 .. Parts -> 0 .. MaxPushes]]
      BY <3>1, <3>2 DEF PeerOK, StateOK
    <3>4. notes' \in [Tags -> Seq(Notes)]
      <4>1. notes' = Asked(notes, Further(copying)) /\ Further(copying) \in Notes
        BY <2>1, <3>1, NotesTyped DEF SendBlock
      <4> QED
        BY <4>1, AskedTyped DEF PeerOK, StateOK
    <3>5. delivered' \subseteq 1 .. MaxPushes
      <4>1. DOMAIN targets \subseteq 1 .. MaxPushes
        BY DEF LogOK
      <4> QED
        BY <2>1, <4>1 DEF SendBlock, PeerOK
    <3>6. img # 0 => img \in DOMAIN targets /\ targets[img] = conn
      BY <3>1 DEF ImageInv, LogOK, StateOK
    <3>7. BlocksInv'
      BY <3>1, <3>2, <3>6 DEF SendBlock, BlocksInv, PeerOK, log
    <3> QED
      BY <3>3, <3>4, <3>5, <3>7 DEF PeerOK
  <2>2. CASE ~Reaches
    BY <2>2 DEF SendBlock, PeerOK, BlocksInv, peer, log
  <2> QED
    BY <2>1, <2>2
<1> QED
  BY <1>1, <1>2, <1>3

LEMMA NextIInv == IInv /\ [Next]_vars => IInv'
<1> SUFFICES ASSUME IInv, [Next]_vars PROVE IInv'
  OBVIOUS
<1>1. CASE Next
  <2>1. CASE \E t \in Tags : Begin(t) \/ Found(t) \/ DumpFound(t) \/ Disconnected(t)
    BY <2>1, BeginKeepsIInv, FoundKeepsIInv, DumpFoundKeepsIInv, DisconnectedKeepsIInv
  <2>2. CASE \E t \in Tags : GattStep(t)
    BY <2>2, MtuDoneKeepsIInv, ReadDoneKeepsIInv, CharsDoneKeepsIInv,
       SubscribeDoneKeepsIInv DEF GattStep
  <2>3. CASE \E t \in Tags : NotifyStep(t)
    BY <2>3, SizeArrivesKeepsIInv, DeclaredArrivesKeepsIInv, PartArrivesKeepsIInv,
       DoneArrivesKeepsIInv DEF NotifyStep
  <2>4. CASE HttpStep \/ Scan \/ Dump \/ Watchdog
    BY <2>4, AnswerKeepsIInv, ScanAnswerKeepsIInv, ScanKeepsIInv, DumpKeepsIInv,
       WatchdogKeepsIInv DEF HttpStep
  <2>5. CASE DiscComplete \/ Connected \/ ConnectFails \/ SendBlock
    BY <2>5, DiscCompleteKeepsIInv, ConnectedKeepsIInv, ConnectFailsKeepsIInv,
       SendBlockKeepsIInv
  <2> QED
    BY <1>1, <2>1, <2>2, <2>3, <2>4, <2>5 DEF Next
<1>2. CASE UNCHANGED vars
  BY <1>2 DEF vars, request, attrs, radio, peer, log, IInv, TypeOK, FlagsOK, StateOK,
              RadioOK, PeerOK, LogOK, ImageInv, BlocksInv
<1> QED
  BY <1>1, <1>2

-----------------------------------------------------------------------------
(* The invariant holds in every behaviour: the image a push holds is its    *)
(* own, and so is the connection it goes out on (ble_push.c:241-247).       *)
THEOREM InductiveInvariant == Spec => []IInv
<1>1. Spec => Init /\ [][Next]_vars
  BY DEF Spec
<1> QED
  BY <1>1, InitIInv, NextIInv, PTL

(* Every variable keeps its type. *)
THEOREM TypeCorrect == Spec => []TypeOK
<1>1. IInv => TypeOK
  BY DEF IInv
<1> QED
  BY <1>1, InductiveInvariant, PTL

(* No tag receives a block of an image meant for another, whatever links of *)
(* earlier pushes and dumps are still there, and even if the watchdog runs  *)
(* in the middle of send_block (ble_push.c:295-312, 323).                   *)
THEOREM RightTagHolds == Spec => []RightTag
<1>1. IInv => RightTag
  BY DEF IInv, BlocksInv, RightTag
<1> QED
  BY <1>1, InductiveInvariant, PTL

(* A push at rest: the facts the steps of the conversation rest on.         *)

(* Sequences of one notification. *)
LEMMA Alone ==
  /\ \A s : s = <<>> => Len(s) <= 1
  /\ \A s, note : s = <<note>> => s # <<>> /\ Len(s) <= 1
  /\ \A p \in 1 .. Parts : p # 0
  /\ <<Note("size")>> # <<Note("done")>>
  /\ <<Note("declared")>> # <<Note("done")>>
  /\ \A p : /\ <<Part(p)>> # <<Note("done")>>
            /\ <<Part(p)>> # <<Note("size")>>
            /\ <<Part(p)>> # <<Note("declared")>>
  /\ \A p, q : <<Part(p)>> = <<Part(q)>> => p = q
<1>1. /\ Note("size") # Note("done") /\ Note("declared") # Note("done")
      /\ \A p : /\ Part(p) # Note("done") /\ Part(p) # Note("size")
                /\ Part(p) # Note("declared")
      /\ \A p, q : Part(p) = Part(q) => p = q
  BY DEF Note, Part
<1>2. \A x, y : <<x>> = <<y>> => x = y
  OBVIOUS
<1>3. /\ Len(<<>>) <= 1
      /\ \A note : <<note>> # <<>> /\ Len(<<note>>) <= 1
  OBVIOUS
<1>4. \A p \in 1 .. Parts : p # 0
  BY BleAssumption
<1> QED
  BY <1>1, <1>2, <1>3, <1>4, Zenon

LEMMA OneLong ==
  ASSUME NEW S, NEW s \in Seq(S), Len(s) = 1
  PROVE  s = <<Head(s)>> /\ Tail(s) = <<>>
<1>1. s # <<>> /\ s[1] = Head(s) /\ s[1] \in S
  OBVIOUS
<1>2. Tail(s) \in Seq(S) /\ Len(Tail(s)) = 0
  BY <1>1, HeadTailProperties
<1>3. Tail(s) = <<>>
  BY <1>2, EmptySeq
<1>4. <<s[1]>> \in Seq(S) /\ Len(<<s[1]>>) = 1 /\ <<s[1]>>[1] = s[1]
  BY <1>1
<1>5. s = <<s[1]>>
  BY <1>4, SeqEqual
<1> QED
  BY <1>1, <1>3, <1>5

(* The tag that is heard from is that of the last push, and nothing else is *)
(* going on.                                                                *)
LEMMA HeardFrom ==
  ASSUME SettledInv, NEW t \in Tags, notes[t] # <<>>
  PROVE  /\ t = target
         /\ copying = 0
         /\ \A s \in Tags : Without(t)[s] = <<>> /\ gatt[s] = "none"
         /\ \A note : Head(notes[t]) = note => notes[t] = <<note>>
<1> USE DEF SettledInv, IInv, TypeOK
<1>1. t = target /\ copying = 0 /\ gatt[t] = "none"
  BY DEF OneAtATime, LinkInv
<1>2. \A s \in Tags : s # t => notes[s] = <<>> /\ gatt[s] = "none"
  BY <1>1 DEF OneAtATime, LinkInv
<1>3. notes[t] \in Seq(Notes) /\ Len(notes[t]) = 1
  <2>1. notes[t] \in Seq(Notes) /\ Len(notes[t]) <= 1
    BY DEF OneAtATime, PeerOK
  <2>2. Len(notes[t]) \in Nat \ {0}
    BY <2>1, EmptySeq
  <2>3. \A n \in Nat \ {0} : n <= 1 => n = 1
    OBVIOUS
  <2> QED
    BY <2>1, <2>2, <2>3, Zenon
<1>4. notes[t] = <<Head(notes[t])>> /\ Tail(notes[t]) = <<>>
  BY <1>3, OneLong
<1>5. notes \in [Tags -> Seq(Notes)]
  BY DEF PeerOK
<1>6. \A s \in Tags : Without(t)[s] = <<>>
  BY <1>2, <1>4, <1>5 DEF Without
<1> QED
  BY <1>1, <1>2, <1>4, <1>6

(* What is sent when nothing else is under way. *)
LEMMA AskedAlone ==
  ASSUME SettledInv, NEW q \in [Tags -> Seq(Notes)], NEW note \in Notes,
         \A s \in Tags : q[s] = <<>>
  PROVE  \A s \in Tags :
           \/ Asked(q, note)[s] = <<>>
           \/ Asked(q, note)[s] = <<note>> /\ s = target /\ link[s].who = "push"
<1> USE DEF SettledInv, IInv, TypeOK
<1>1. CASE Reaches
  <2>1. conn \in Tags /\ conn = target /\ link[conn].who = "push"
    BY <1>1 DEF Reaches, LinkInv, StateOK
  <2>2. Append(q[conn], note) = <<note>>
    <3>1. q[conn] = <<>> /\ Append(<<>>, note) = <<note>>
      BY <2>1
    <3> QED
      BY <3>1
  <2> QED
    BY <1>1, <2>1, <2>2 DEF Asked
<1>2. CASE ~Reaches
  BY <1>2 DEF Asked
<1> QED
  BY <1>1, <1>2

LEMMA RepliedAlone ==
  ASSUME SettledInv, NEW t \in Tags, notes[t] # <<>>, NEW note \in Notes
  PROVE  \A s \in Tags :
           \/ Asked(Without(t), note)[s] = <<>>
           \/ Asked(Without(t), note)[s] = <<note>> /\ s = target /\ link[s].who = "push"
<1>1. \A s \in Tags : Without(t)[s] = <<>>
  BY HeardFrom
<1>2. Without(t) \in [Tags -> Seq(Notes)]
  BY WithoutTyped DEF SettledInv, IInv, TypeOK, PeerOK
<1> QED
  BY <1>1, <1>2, AskedAlone

(* A step that brings no block, no new request for one and no outcome.      *)
LEMMA NothingNew ==
  ASSUME SettledInv,
         UNCHANGED <<buf, delivered, targets, target, copying, pushOk, answered>>,
         img' = img \/ img' = 0,
         \A t \in Tags : notes'[t] \in {notes[t], <<>>, <<Note("size")>>}
  PROVE  ProgressInv'
<1> USE DEF SettledInv
<1>1. \A p : <<Note("size")>> # <<Part(p)>>
  <2>1. \A p : Note("size") # Part(p)
    BY DEF Note, Part
  <2> QED
    BY <2>1
<1>2. \A t \in Tags, p \in 1 .. Parts : Wants(t, p)' => Wants(t, p)
  <2> SUFFICES ASSUME NEW t \in Tags, NEW p \in 1 .. Parts, Wants(t, p)'
               PROVE  Wants(t, p)
    OBVIOUS
  <2>1. CASE copying' = p
    BY <2>1 DEF Wants
  <2>2. CASE notes'[t] = <<Part(p)>>
    <3>1. notes'[t] # <<>>
      BY <2>2
    <3> QED
      BY <1>1, <2>2, <3>1 DEF Wants
  <2> QED
    BY <2>1, <2>2 DEF Wants
<1>3. \A t \in Tags : notes'[t] = <<Note("done")>> => notes[t] = <<Note("done")>>
  BY DEF Note
<1>4. img' # 0 => img' = img
  OBVIOUS
<1> QED
  BY <1>2, <1>3, <1>4 DEF ProgressInv

LEMMA ScanKeepsSettled ==
  ASSUME Settle, SettledInv, Scan
  PROVE  LinkInv' /\ OneAtATime' /\ ProgressInv'
<1> USE BleAssumption DEF SettledInv, IInv, TypeOK, StateOK, RadioOK, PeerOK
<1>1. LinkInv'
  BY TerminatedTyped DEF Scan, Links, Free, NoLink, LinkInv, request, attrs, peer, log
<1>2. OneAtATime'
  BY TerminatedTyped DEF Scan, Links, NoLink, Free, LinkInv, OneAtATime, ImageInv, request, attrs, peer, log
<1>3. ProgressInv'
  <2>1. img' = img \/ img' = 0
    BY DEF Scan, request, attrs, peer, log
  <2>2. \A s \in Tags : notes'[s] \in {notes[s], <<>>}
    BY DEF Scan, request, attrs, peer, log
  <2>3. UNCHANGED <<buf, delivered, targets, target, copying, pushOk, answered>>
    BY DEF Scan, request, attrs, peer, log
  <2> QED
    BY <2>1, <2>2, <2>3, NothingNew
<1> QED
  BY <1>1, <1>2, <1>3

LEMMA ScanAnswerKeepsSettled ==
  ASSUME Settle, SettledInv, ScanAnswer
  PROVE  LinkInv' /\ OneAtATime' /\ ProgressInv'
<1> USE BleAssumption DEF SettledInv, IInv, TypeOK, StateOK, RadioOK, PeerOK
<1>1. LinkInv'
  BY TerminatedTyped DEF ScanAnswer, Links, Free, NoLink, LinkInv, request, attrs, radio, peer, log
<1>2. OneAtATime'
  BY TerminatedTyped DEF ScanAnswer, Links, NoLink, Free, LinkInv, OneAtATime, ImageInv, request, attrs, radio, peer, log
<1>3. ProgressInv'
  <2>1. img' = img \/ img' = 0
    BY DEF ScanAnswer, request, attrs, radio, peer, log
  <2>2. \A s \in Tags : notes'[s] \in {notes[s], <<>>}
    BY DEF ScanAnswer, request, attrs, radio, peer, log
  <2>3. UNCHANGED <<buf, delivered, targets, target, copying, pushOk, answered>>
    BY DEF ScanAnswer, request, attrs, radio, peer, log
  <2> QED
    BY <2>1, <2>2, <2>3, NothingNew
<1> QED
  BY <1>1, <1>2, <1>3

LEMMA DumpKeepsSettled ==
  ASSUME Settle, SettledInv, Dump
  PROVE  LinkInv' /\ OneAtATime' /\ ProgressInv'
<1> USE BleAssumption DEF SettledInv, IInv, TypeOK, StateOK, RadioOK, PeerOK
<1>1. LinkInv'
  BY TerminatedTyped DEF Dump, Links, Free, NoLink, LinkInv, request, attrs, peer, log
<1>2. OneAtATime'
  BY TerminatedTyped DEF Dump, Links, NoLink, Free, LinkInv, OneAtATime, ImageInv, request, attrs, peer, log
<1>3. ProgressInv'
  <2>1. img' = img \/ img' = 0
    BY DEF Dump, request, attrs, peer, log
  <2>2. \A s \in Tags : notes'[s] \in {notes[s], <<>>}
    BY DEF Dump, request, attrs, peer, log
  <2>3. UNCHANGED <<buf, delivered, targets, target, copying, pushOk, answered>>
    BY DEF Dump, request, attrs, peer, log
  <2> QED
    BY <2>1, <2>2, <2>3, NothingNew
<1> QED
  BY <1>1, <1>2, <1>3

LEMMA WatchdogKeepsSettled ==
  ASSUME Settle, SettledInv, Watchdog
  PROVE  LinkInv' /\ OneAtATime' /\ ProgressInv'
<1> USE BleAssumption DEF SettledInv, IInv, TypeOK, StateOK, RadioOK, PeerOK
<1>1. LinkInv'
  <2>1. CASE pushing
    <3>1. conn' = None /\ link' = Terminated(conn)
      BY <2>1 DEF Watchdog, Cleanup
    <3>2. \A s \in Tags : link'[s].who = link[s].who
      BY <3>1, TerminatedTyped DEF Links
    <3>3. pend # Free => link'[pend.tag] = NoLink
      BY <3>1, TerminatedTyped DEF LinkInv, Links, Free
    <3> QED
      BY <3>1, <3>2, <3>3 DEF Watchdog, LinkInv, attrs
  <2>2. CASE ~pushing
    BY <2>2 DEF Watchdog, LinkInv, attrs
  <2> QED
    BY <2>1, <2>2
<1>2. OneAtATime'
  <2>1. UNCHANGED <<notes, gatt, copying>>
    BY DEF Watchdog, peer
  <2>2. \A s \in Tags : link'[s].who = link[s].who
    BY TerminatedTyped DEF Watchdog, Links
  <2>3. copying # 0 => Preempt
    BY DEF Watchdog, HostFree
  <2>4. (pushing /\ conn' = None) \/ UNCHANGED <<img, conn>>
    BY DEF Watchdog, Cleanup
  <2>5. copying' # 0 /\ img' = 0 => Preempt /\ conn' = None
    BY <2>1, <2>3, <2>4 DEF OneAtATime
  <2> QED
    BY <2>1, <2>2, <2>5 DEF OneAtATime
<1>3. ProgressInv'
  <2>1. img' = img \/ img' = 0
    BY DEF Watchdog, HostFree, Cleanup, attrs, peer, log
  <2>2. \A s \in Tags : notes'[s] \in {notes[s], <<>>}
    BY DEF Watchdog, HostFree, Cleanup, attrs, peer, log
  <2>3. UNCHANGED <<buf, delivered, targets, target, copying, pushOk, answered>>
    BY DEF Watchdog, HostFree, Cleanup, attrs, peer, log
  <2> QED
    BY <2>1, <2>2, <2>3, NothingNew
<1> QED
  BY <1>1, <1>2, <1>3

LEMMA FoundKeepsSettled ==
  ASSUME Settle, SettledInv, NEW t \in Tags, Found(t)
  PROVE  LinkInv' /\ OneAtATime' /\ ProgressInv'
<1> USE BleAssumption DEF SettledInv, IInv, TypeOK, StateOK, RadioOK, PeerOK
<1>1. LinkInv'
  <2>1. CASE pend = Free /\ link[t].at = "none"
    <3>1. link[t] = NoLink /\ pend' = [who |-> "push", tag |-> t] /\ conn' = conn
      BY <2>1 DEF Found, NoLink
    <3> QED
      BY <3>1 DEF Found, Advertiser, LinkInv, attrs
  <2>2. CASE ~(pend = Free /\ link[t].at = "none")
    <3>1. conn' = None /\ pend' = pend
      BY <2>2 DEF Found, Cleanup
    <3> QED
      BY <3>1 DEF Found, LinkInv, attrs
  <2> QED
    BY <2>1, <2>2
<1>2. OneAtATime'
  BY TerminatedTyped DEF Found, Links, NoLink, Free, LinkInv, OneAtATime, ImageInv, HostFree, Cleanup, Advertiser, attrs, peer, log
<1>3. ProgressInv'
  <2>1. img' = img \/ img' = 0
    BY DEF Found, HostFree, Cleanup, Advertiser, attrs, peer, log
  <2>2. \A s \in Tags : notes'[s] \in {notes[s], <<>>}
    BY DEF Found, HostFree, Cleanup, Advertiser, attrs, peer, log
  <2>3. UNCHANGED <<buf, delivered, targets, target, copying, pushOk, answered>>
    BY DEF Found, HostFree, Cleanup, Advertiser, attrs, peer, log
  <2> QED
    BY <2>1, <2>2, <2>3, NothingNew
<1> QED
  BY <1>1, <1>2, <1>3

LEMMA DumpFoundKeepsSettled ==
  ASSUME Settle, SettledInv, NEW t \in Tags, DumpFound(t)
  PROVE  LinkInv' /\ OneAtATime' /\ ProgressInv'
<1> USE BleAssumption DEF SettledInv, IInv, TypeOK, StateOK, RadioOK, PeerOK
<1>1. LinkInv'
  BY TerminatedTyped DEF DumpFound, Links, Free, NoLink, LinkInv, HostFree, request, attrs, peer, log
<1>2. OneAtATime'
  BY TerminatedTyped DEF DumpFound, Links, NoLink, Free, LinkInv, OneAtATime, ImageInv, HostFree, request, attrs, peer, log
<1>3. ProgressInv'
  <2>1. img' = img \/ img' = 0
    BY DEF DumpFound, HostFree, request, attrs, peer, log
  <2>2. \A s \in Tags : notes'[s] \in {notes[s], <<>>}
    BY DEF DumpFound, HostFree, request, attrs, peer, log
  <2>3. UNCHANGED <<buf, delivered, targets, target, copying, pushOk, answered>>
    BY DEF DumpFound, HostFree, request, attrs, peer, log
  <2> QED
    BY <2>1, <2>2, <2>3, NothingNew
<1> QED
  BY <1>1, <1>2, <1>3

LEMMA DiscCompleteKeepsSettled ==
  ASSUME Settle, SettledInv, DiscComplete
  PROVE  LinkInv' /\ OneAtATime' /\ ProgressInv'
<1> USE BleAssumption DEF SettledInv, IInv, TypeOK, StateOK, RadioOK, PeerOK
<1>1. LinkInv'
  BY TerminatedTyped DEF DiscComplete, Links, Free, NoLink, LinkInv, HostFree, request, Cleanup, attrs, peer, log
<1>2. OneAtATime'
  BY TerminatedTyped DEF DiscComplete, Links, NoLink, Free, LinkInv, OneAtATime, ImageInv, HostFree, request, Cleanup, attrs, peer, log
<1>3. ProgressInv'
  <2>1. img' = img \/ img' = 0
    BY DEF DiscComplete, HostFree, request, Cleanup, attrs, peer, log
  <2>2. \A s \in Tags : notes'[s] \in {notes[s], <<>>}
    BY DEF DiscComplete, HostFree, request, Cleanup, attrs, peer, log
  <2>3. UNCHANGED <<buf, delivered, targets, target, copying, pushOk, answered>>
    BY DEF DiscComplete, HostFree, request, Cleanup, attrs, peer, log
  <2> QED
    BY <2>1, <2>2, <2>3, NothingNew
<1> QED
  BY <1>1, <1>2, <1>3

LEMMA ConnectedKeepsSettled ==
  ASSUME Settle, SettledInv, Connected
  PROVE  LinkInv' /\ OneAtATime' /\ ProgressInv'
<1> USE BleAssumption DEF SettledInv, IInv, TypeOK, StateOK, RadioOK, PeerOK
<1>1. LinkInv'
  BY TerminatedTyped DEF Connected, Links, Free, NoLink, LinkInv, HostFree, attrs, peer, log
<1>2. OneAtATime'
  <2>1. pend.tag \in Tags /\ link[pend.tag].who # "push"
    BY DEF Connected, LinkInv, Free, NoLink
  <2>2. /\ notes[pend.tag] = <<>> /\ gatt[pend.tag] = "none"
        /\ copying = 0 /\ copying' = 0 /\ notes' = notes
    BY <2>1 DEF OneAtATime, Connected, HostFree, peer
  <2>3. \A s \in Tags :
          /\ s # pend.tag => link'[s] = link[s] /\ gatt'[s] = gatt[s]
          /\ s = pend.tag => /\ pend.who # "push" => gatt'[s] = "none"
                             /\ pend.who = "push" => link'[s].who = "push"
    BY <2>1, <2>2 DEF Connected
  <2>4. OneAtATime
    OBVIOUS
  <2> HIDE DEF SettledInv, IInv, TypeOK, StateOK, RadioOK, PeerOK
  <2>5. ASSUME NEW s \in Tags
        PROVE  /\ link'[s].who # "push" => notes'[s] = <<>> /\ gatt'[s] = "none"
               /\ Len(notes'[s]) <= 1
               /\ gatt'[s] # "none" => notes'[s] = <<>>
    <3>1. CASE s = pend.tag
      BY <2>2, <2>3, <2>4, <3>1 DEF OneAtATime
    <3>2. CASE s # pend.tag
      BY <2>2, <2>3, <2>4, <3>2 DEF OneAtATime
    <3> QED
      BY <3>1, <3>2
  <2> QED
    BY <2>2, <2>5 DEF OneAtATime
<1>3. ProgressInv'
  <2>1. img' = img \/ img' = 0
    BY DEF Connected, HostFree, attrs, peer, log
  <2>2. \A s \in Tags : notes'[s] \in {notes[s], <<>>}
    BY DEF Connected, HostFree, attrs, peer, log
  <2>3. UNCHANGED <<buf, delivered, targets, target, copying, pushOk, answered>>
    BY DEF Connected, HostFree, attrs, peer, log
  <2> QED
    BY <2>1, <2>2, <2>3, NothingNew
<1> QED
  BY <1>1, <1>2, <1>3

LEMMA ConnectFailsKeepsSettled ==
  ASSUME Settle, SettledInv, ConnectFails
  PROVE  LinkInv' /\ OneAtATime' /\ ProgressInv'
<1> USE BleAssumption DEF SettledInv, IInv, TypeOK, StateOK, RadioOK, PeerOK
<1>1. LinkInv'
  BY TerminatedTyped DEF ConnectFails, Links, Free, NoLink, LinkInv, HostFree, request, Cleanup, attrs, peer, log
<1>2. OneAtATime'
  BY TerminatedTyped DEF ConnectFails, Links, NoLink, Free, LinkInv, OneAtATime, ImageInv, HostFree, request, Cleanup, attrs, peer, log
<1>3. ProgressInv'
  <2>1. img' = img \/ img' = 0
    BY DEF ConnectFails, HostFree, request, Cleanup, attrs, peer, log
  <2>2. \A s \in Tags : notes'[s] \in {notes[s], <<>>}
    BY DEF ConnectFails, HostFree, request, Cleanup, attrs, peer, log
  <2>3. UNCHANGED <<buf, delivered, targets, target, copying, pushOk, answered>>
    BY DEF ConnectFails, HostFree, request, Cleanup, attrs, peer, log
  <2> QED
    BY <2>1, <2>2, <2>3, NothingNew
<1> QED
  BY <1>1, <1>2, <1>3

LEMMA DisconnectedKeepsSettled ==
  ASSUME Settle, SettledInv, NEW t \in Tags, Disconnected(t)
  PROVE  LinkInv' /\ OneAtATime' /\ ProgressInv'
<1> USE BleAssumption DEF SettledInv, IInv, TypeOK, StateOK, RadioOK, PeerOK
<1>1. LinkInv'
  BY TerminatedTyped DEF Disconnected, Links, Free, NoLink, LinkInv, HostFree, request, Cleanup, attrs, log
<1>2. OneAtATime'
  BY TerminatedTyped DEF Disconnected, Links, NoLink, Free, LinkInv, OneAtATime, ImageInv, HostFree, request, Cleanup, attrs, log
<1>3. ProgressInv'
  <2>1. img' = img \/ img' = 0
    BY DEF Disconnected, HostFree, request, Cleanup, attrs, log
  <2>2. \A s \in Tags : notes'[s] \in {notes[s], <<>>}
    BY DEF Disconnected, HostFree, request, Cleanup, attrs, log
  <2>3. UNCHANGED <<buf, delivered, targets, target, copying, pushOk, answered>>
    BY DEF Disconnected, HostFree, request, Cleanup, attrs, log
  <2> QED
    BY <2>1, <2>2, <2>3, NothingNew
<1> QED
  BY <1>1, <1>2, <1>3

LEMMA MtuDoneKeepsSettled ==
  ASSUME Settle, SettledInv, NEW t \in Tags, MtuDone(t)
  PROVE  LinkInv' /\ OneAtATime' /\ ProgressInv'
<1> USE BleAssumption DEF SettledInv, IInv, TypeOK, StateOK, RadioOK, PeerOK
<1>1. LinkInv'
  BY TerminatedTyped DEF MtuDone, Links, Free, NoLink, LinkInv, HostFree, request, peer, log
<1>2. OneAtATime'
  BY TerminatedTyped DEF MtuDone, Links, NoLink, Free, LinkInv, OneAtATime, ImageInv, HostFree, request, peer, log
<1>3. ProgressInv'
  <2>1. img' = img \/ img' = 0
    BY DEF MtuDone, HostFree, request, peer, log
  <2>2. \A s \in Tags : notes'[s] \in {notes[s], <<>>}
    BY DEF MtuDone, HostFree, request, peer, log
  <2>3. UNCHANGED <<buf, delivered, targets, target, copying, pushOk, answered>>
    BY DEF MtuDone, HostFree, request, peer, log
  <2> QED
    BY <2>1, <2>2, <2>3, NothingNew
<1> QED
  BY <1>1, <1>2, <1>3

LEMMA CharsDoneKeepsSettled ==
  ASSUME Settle, SettledInv, NEW t \in Tags, NEW ok \in BOOLEAN, CharsDone(t, ok)
  PROVE  LinkInv' /\ OneAtATime' /\ ProgressInv'
<1> USE BleAssumption DEF SettledInv, IInv, TypeOK, StateOK, RadioOK, PeerOK
<1>1. LinkInv'
  <2>1. \A s \in Tags : link'[s].who = link[s].who /\ (link'[s] = NoLink <=> link[s] = NoLink)
    BY TerminatedTyped DEF CharsDone, Links
  <2>2. UNCHANGED <<target, pend, conn>>
    BY DEF CharsDone, request
  <2> QED
    BY <2>1, <2>2 DEF LinkInv, Free
<1>2. OneAtATime'
  <2>1. notes[t] = <<>> /\ copying = 0 /\ link[t].who = "push"
    BY DEF CharsDone, OneAtATime, HostFree
  <2>2. \A s \in Tags : link'[s].who = link[s].who
    BY TerminatedTyped DEF CharsDone, Links
  <2>3. /\ copying' = 0 /\ notes' = notes
        /\ \A s \in Tags : s # t => gatt'[s] = gatt[s]
    BY <2>1 DEF CharsDone, HostFree, peer
  <2>4. OneAtATime
    OBVIOUS
  <2> HIDE DEF SettledInv, IInv, TypeOK, StateOK, RadioOK, PeerOK
  <2> QED
    BY <2>1, <2>2, <2>3, <2>4 DEF OneAtATime
<1>3. ProgressInv'
  <2>1. img' = img \/ img' = 0
    BY DEF CharsDone, HostFree, request, peer, log
  <2>2. \A s \in Tags : notes'[s] \in {notes[s], <<>>}
    BY DEF CharsDone, HostFree, request, peer, log
  <2>3. UNCHANGED <<buf, delivered, targets, target, copying, pushOk, answered>>
    BY DEF CharsDone, HostFree, request, peer, log
  <2> QED
    BY <2>1, <2>2, <2>3, NothingNew
<1> QED
  BY <1>1, <1>2, <1>3

LEMMA SubscribeDoneKeepsSettled ==
  ASSUME Settle, SettledInv, NEW t \in Tags, NEW ok \in BOOLEAN, SubscribeDone(t, ok)
  PROVE  LinkInv' /\ OneAtATime' /\ ProgressInv'
<1> USE BleAssumption DEF SettledInv, IInv, TypeOK, StateOK, RadioOK, PeerOK
<1>1. LinkInv'
  <2>1. \A s \in Tags : link'[s].who = link[s].who /\ (link'[s] = NoLink <=> link[s] = NoLink)
    BY TerminatedTyped DEF SubscribeDone, Links
  <2>2. UNCHANGED <<target, pend, conn>>
    BY DEF SubscribeDone, request
  <2> QED
    BY <2>1, <2>2 DEF LinkInv, Free
<1>2. OneAtATime'
  <2>1. notes[t] = <<>> /\ copying = 0 /\ link[t].who = "push"
    BY DEF SubscribeDone, OneAtATime, HostFree
  <2>2. \A s \in Tags : link'[s].who = link[s].who
    BY TerminatedTyped DEF SubscribeDone, Links
  <2> QED
    BY <2>1, <2>2 DEF SubscribeDone, OneAtATime, request, peer
<1>3. ProgressInv'
  <2>1. img' = img \/ img' = 0
    BY DEF SubscribeDone, HostFree, request, attrs, peer, log
  <2>2. \A s \in Tags : notes'[s] \in {notes[s], <<>>}
    BY DEF SubscribeDone, HostFree, request, attrs, peer, log
  <2>3. UNCHANGED <<buf, delivered, targets, target, copying, pushOk, answered>>
    BY DEF SubscribeDone, HostFree, request, attrs, peer, log
  <2> QED
    BY <2>1, <2>2, <2>3, NothingNew
<1> QED
  BY <1>1, <1>2, <1>3

(* A push is asked for when nothing is under way, and starts from nothing. *)
LEMMA BeginKeepsSettled ==
  ASSUME Settle, SettledInv, NEW t \in Tags, Begin(t)
  PROVE  LinkInv' /\ OneAtATime' /\ ProgressInv'
<1> USE DEF SettledInv, IInv, TypeOK, StateOK, RadioOK, PeerOK, LogOK
<1>1. \A s \in Tags : link[s] = NoLink /\ notes[s] = <<>> /\ gatt[s] = "none"
  BY DEF Begin, Quiet, OneAtATime, NoLink
<1>2. copying = 0 /\ pend = Free
  BY <1>1 DEF Begin, Quiet, OneAtATime, NoLink
<1>3. UNCHANGED <<link, notes, gatt, copying, pend, delivered, answered>> /\ conn' = None
  BY DEF Begin, FreshConn, peer
<1>4. pushOk' = FALSE
  BY DEF Begin, FreshOk
<1>5. LinkInv'
  BY <1>1, <1>2, <1>3 DEF LinkInv, NoLink, Free
<1>6. OneAtATime'
  BY <1>1, <1>2, <1>3 DEF OneAtATime
<1>7. ProgressInv'
  <2>1. \A s \in Tags, p \in 1 .. Parts : ~Wants(s, p)'
    BY <1>1, <1>2, <1>3, Alone, Zenon DEF Wants
  <2>2. \A s \in Tags : notes'[s] # <<Note("done")>>
    BY <1>1, <1>3, Alone, Zenon
  <2> QED
    BY <1>3, <1>4, <2>1, <2>2 DEF ProgressInv
<1> QED
  BY <1>5, <1>6, <1>7

LEMMA AnswerKeepsSettled ==
  ASSUME SettledInv, Answer
  PROVE  LinkInv' /\ OneAtATime' /\ ProgressInv'
<1> USE DEF SettledInv
<1>1. UNCHANGED <<request, pushOk, target, attrs, copying, radio, peer, targets>>
  BY DEF Answer
<1>2. LinkInv' /\ OneAtATime'
  BY <1>1 DEF LinkInv, OneAtATime, request, radio, peer
<1>3. answered' \subseteq delivered
  BY DEF Answer, ProgressInv
<1>4. ProgressInv'
  <2>1. \A s \in Tags, p \in 1 .. Parts : Wants(s, p)' <=> Wants(s, p)
    BY <1>1 DEF Wants, peer
  <2> QED
    BY <1>1, <1>3, <2>1 DEF ProgressInv, request, peer
<1> QED
  BY <1>2, <1>4

LEMMA ReadDoneKeepsSettled ==
  ASSUME SettledInv, NEW t \in Tags, ReadDone(t)
  PROVE  LinkInv' /\ OneAtATime' /\ ProgressInv'
<1> USE DEF SettledInv, IInv, TypeOK, StateOK, RadioOK, PeerOK
<1>1. copying = 0 /\ t = target /\ \A s \in Tags : notes[s] = <<>>
  BY DEF ReadDone, HostFree, OneAtATime, LinkInv
<1>2. \A s \in Tags :
        \/ notes'[s] = <<>>
        \/ notes'[s] = <<Note("size")>> /\ s = target /\ link[s].who = "push"
  <2>1. notes' = Asked(notes, Note("size"))
    BY DEF ReadDone
  <2> QED
    BY <1>1, <2>1, NotesTyped, AskedAlone
<1>3. \A s \in Tags : Len(notes'[s]) <= 1
  BY <1>2, Alone, Zenon
<1>4. \A s \in Tags : gatt'[s] = "none"
  BY <1>1 DEF ReadDone, OneAtATime, LinkInv
<1>5. UNCHANGED <<link, pend, conn, target, copying, img>>
  BY DEF ReadDone, request
<1>6. LinkInv'
  BY <1>5 DEF LinkInv
<1>7. OneAtATime'
  BY <1>1, <1>2, <1>3, <1>4, <1>5 DEF OneAtATime
<1>8. ProgressInv'
  <2>1. UNCHANGED <<buf, delivered, targets, target, copying, pushOk, answered>>
    BY DEF ReadDone, request, log
  <2> QED
    BY <1>2, <1>5, <2>1, NothingNew
<1> QED
  BY <1>6, <1>7, <1>8

(* The image is declared: no block is wanted yet. *)
LEMMA SizeArrivesKeepsSettled ==
  ASSUME SettledInv, NEW t \in Tags, SizeArrives(t)
  PROVE  LinkInv' /\ OneAtATime' /\ ProgressInv'
<1> USE DEF SettledInv, IInv, TypeOK, StateOK, RadioOK, PeerOK
<1>1. /\ notes[t] # <<>> /\ t = target /\ copying = 0
      /\ \A s \in Tags : Without(t)[s] = <<>> /\ gatt[s] = "none"
  BY HeardFrom DEF SizeArrives, Arrives
<1>2. \A s \in Tags :
        \/ notes'[s] = <<>>
        \/ notes'[s] = <<Note("declared")>> /\ s = target /\ link[s].who = "push"
  <2>1. notes' = Asked(Without(t), Note("declared")) \/ notes' = Without(t)
    BY DEF SizeArrives
  <2> QED
    BY <1>1, <2>1, NotesTyped, RepliedAlone
<1>3. \A s \in Tags : Len(notes'[s]) <= 1
  BY <1>2, Alone, Zenon
<1>4. UNCHANGED <<link, gatt, pend, conn, target, copying, img>>
  BY DEF SizeArrives, request, radio
<1>5. LinkInv'
  BY <1>4 DEF LinkInv
<1>6. OneAtATime'
  BY <1>1, <1>2, <1>3, <1>4 DEF OneAtATime
<1>7. ProgressInv'
  <2>1. \A s \in Tags, p \in 1 .. Parts : ~Wants(s, p)'
    BY <1>1, <1>2, <1>4, Alone, Zenon DEF Wants
  <2>2. UNCHANGED <<delivered, targets, pushOk, answered>>
    BY DEF SizeArrives, log
  <2>3. \A s \in Tags : notes'[s] # <<Note("done")>>
    BY <1>2, Alone
  <2> QED
    BY <2>1, <2>2, <2>3 DEF ProgressInv
<1> QED
  BY <1>5, <1>6, <1>7

(* The first block is wanted: there is none before it. *)
LEMMA DeclaredArrivesKeepsSettled ==
  ASSUME SettledInv, NEW t \in Tags, DeclaredArrives(t)
  PROVE  LinkInv' /\ OneAtATime' /\ ProgressInv'
<1> USE DEF SettledInv, IInv, TypeOK, StateOK, RadioOK, PeerOK
<1>1. /\ notes[t] # <<>> /\ t = target /\ copying = 0
      /\ \A s \in Tags : Without(t)[s] = <<>> /\ gatt[s] = "none"
  BY HeardFrom DEF DeclaredArrives, Arrives
<1>2. \A s \in Tags :
        \/ notes'[s] = <<>>
        \/ notes'[s] = <<Part(1)>> /\ s = target /\ link[s].who = "push"
  <2>1. notes' = Asked(Without(t), Part(1)) /\ Part(1) \in Notes
    BY BleAssumption, NotesTyped DEF DeclaredArrives
  <2> QED
    BY <1>1, <2>1, RepliedAlone
<1>3. \A s \in Tags : Len(notes'[s]) <= 1
  BY <1>2, Alone, Zenon
<1>4. UNCHANGED <<link, gatt, pend, conn, target, copying, img>>
  BY DEF DeclaredArrives, request, radio
<1>5. LinkInv'
  BY <1>4 DEF LinkInv
<1>6. OneAtATime'
  BY <1>1, <1>2, <1>3, <1>4 DEF OneAtATime
<1>7. ProgressInv'
  <2>1. \A s \in Tags, p \in 1 .. Parts : Wants(s, p)' => p = 1
    BY <1>1, <1>2, <1>4, Alone, Zenon DEF Wants
  <2>2. \A s \in Tags : notes'[s] # <<Note("done")>>
    BY <1>2, Alone
  <2>3. UNCHANGED <<delivered, targets, pushOk, answered>>
    BY DEF DeclaredArrives, log
  <2> QED
    BY <2>1, <2>2, <2>3 DEF ProgressInv
<1> QED
  BY <1>5, <1>6, <1>7

(* The wanted block is about to be copied. *)
LEMMA PartArrivesKeepsSettled ==
  ASSUME SettledInv, NEW t \in Tags, PartArrives(t)
  PROVE  LinkInv' /\ OneAtATime' /\ ProgressInv'
<1> USE DEF SettledInv, IInv, TypeOK, StateOK, RadioOK, PeerOK
<1>1. PICK p \in 1 .. Parts :
        /\ Arrives(t, Part(p))
        /\ copying' = IF HasImage THEN p ELSE 0
  BY DEF PartArrives
<1>2. /\ notes[t] = <<Part(p)>> /\ t = target /\ copying = 0
      /\ \A s \in Tags : Without(t)[s] = <<>> /\ gatt[s] = "none"
  BY <1>1, HeardFrom DEF Arrives
<1>3. \A s \in Tags : notes'[s] = <<>>
  BY <1>2 DEF PartArrives
<1>4. UNCHANGED <<link, gatt, pend, conn, target, img, buf>>
  BY DEF PartArrives, request, radio
<1>5. copying' # 0 => copying' = p /\ img # 0
  BY <1>1 DEF HasImage
<1>6. LinkInv'
  BY <1>4 DEF LinkInv
<1>7. OneAtATime'
  <2>1. link[t].who = "push"
    BY <1>1 DEF OneAtATime, Arrives
  <2> QED
    BY <1>2, <1>3, <1>4, <1>5, <2>1, EmptySeq DEF OneAtATime
<1>8. ProgressInv'
  <2>1. \A s \in Tags, q \in 1 .. Parts : Wants(s, q)' => q = p
    BY <1>3, <1>5, Alone, Zenon DEF Wants
  <2>2. Wants(t, p)
    BY <1>2 DEF Wants
  <2>3. UNCHANGED <<delivered, targets, pushOk, answered>>
    BY DEF PartArrives, log
  <2> QED
    <3>1. \A s \in Tags : notes'[s] # <<Note("done")>>
      BY <1>3, Alone
    <3>2. \A s \in Tags, q \in 1 .. Parts :
            img # 0 /\ s = target /\ Wants(s, q)' =>
              \A r \in 1 .. (q - 1) : buf[s][r] = img
      BY <1>2, <2>1, <2>2 DEF ProgressInv
    <3>3. (pushOk => Len(targets) \in delivered) /\ answered \subseteq delivered
      BY DEF ProgressInv
    <3> HIDE DEF SettledInv, IInv, TypeOK, StateOK, RadioOK, PeerOK
    <3> QED
      BY <1>4, <2>3, <3>1, <3>2, <3>3 DEF ProgressInv
<1> QED
  BY <1>6, <1>7, <1>8

(* The block is written; with the last one the whole image has arrived. *)
LEMMA SendBlockKeepsSettled ==
  ASSUME SettledInv, SendBlock
  PROVE  LinkInv' /\ OneAtATime' /\ ProgressInv'
<1> USE DEF SettledInv, IInv, TypeOK, StateOK, RadioOK, PeerOK, LogOK
<1>1. /\ copying \in 1 .. Parts
      /\ \A s \in Tags : notes[s] = <<>> /\ gatt[s] = "none"
  BY DEF SendBlock, OneAtATime
<1>2. UNCHANGED <<link, gatt, pend, conn, target, targets, img, pushOk, answered>>
      /\ copying' = 0
  BY DEF SendBlock, request, radio, log
<1>3. LinkInv'
  BY <1>2 DEF LinkInv
<1>4. CASE ~Reaches
  <2>1. UNCHANGED peer
    BY <1>4 DEF SendBlock
  <2>2. OneAtATime'
    BY <1>1, <1>2, <2>1 DEF OneAtATime, peer
  <2>3. \A s \in Tags, p \in 1 .. Parts : ~Wants(s, p)'
    BY <1>1, <1>2, <2>1, Alone, Zenon DEF Wants, peer
  <2>4. ProgressInv'
    BY <1>1, <1>2, <2>1, <2>3 DEF ProgressInv, peer
  <2> QED
    BY <1>3, <2>2, <2>4
<1>5. CASE Reaches
  <2>0. img # 0 /\ img = Len(targets) /\ targets[img] = target /\ img \in DOMAIN targets
    BY <1>1, <1>5 DEF ImageInv, OneAtATime, Reaches
  <2>1. conn \in Tags /\ conn = target
    BY <1>5 DEF Reaches, LinkInv
  <2>2. Further(copying) \in Notes /\ notes' = Asked(notes, Further(copying))
    BY <1>1, <1>5, NotesTyped DEF SendBlock
  <2>3. \A s \in Tags :
          \/ notes'[s] = <<>>
          \/ notes'[s] = <<Further(copying)>> /\ s = target /\ link[s].who = "push"
    <3>1. \A s \in Tags :
            LET q == Asked(notes, Further(copying)) IN
              \/ q[s] = <<>>
              \/ q[s] = <<Further(copying)>> /\ s = target /\ link[s].who = "push"
      BY <1>1, <2>2, AskedAlone
    <3> QED
      BY <2>2, <3>1
  <2>4. \A s \in Tags : Len(notes'[s]) <= 1
    BY <2>3, Alone, Zenon
  <2>5. OneAtATime'
    BY <1>1, <1>2, <2>3, <2>4 DEF OneAtATime
  <2>6. /\ buf[target] \in [1 .. Parts -> 0 .. MaxPushes]
        /\ buf'[target] = [buf[target] EXCEPT ![copying] = img]
    BY <1>5, <2>1 DEF SendBlock
  <2>7. \A q \in 1 .. copying : buf'[target][q] = img
    <3>1. \A q \in 1 .. (copying - 1) : buf[target][q] = img
      BY <1>1, <2>0, <2>1 DEF ProgressInv, Wants
    <3>2. \A q \in 1 .. copying : q \in 1 .. Parts /\ (q = copying \/ q \in 1 .. (copying - 1))
      BY <1>1, BleAssumption
    <3> QED
      BY <2>6, <3>1, <3>2
  <2>8. /\ delivered \subseteq delivered'
        /\ copying = Parts => img \in delivered'
    <3> DEFINE got == [buf[conn] EXCEPT ![copying] = img]
    <3>1. delivered' = delivered \cup
            {n \in DOMAIN targets : targets[n] = conn /\ got = [p \in 1 .. Parts |-> n]}
      BY <1>5 DEF SendBlock
    <3>2. ASSUME copying = Parts PROVE got = [p \in 1 .. Parts |-> img]
      BY <2>1, <2>6, <2>7, <3>2
    <3> HIDE DEF got
    <3> QED
      BY <2>0, <2>1, <3>1, <3>2
  <2>9. \/ copying < Parts /\ Further(copying) = Part(copying + 1)
        \/ copying = Parts /\ Further(copying) = Note("done")
    BY <1>1, BleAssumption DEF Further
  <2>10. \A s \in Tags, p \in 1 .. Parts : Wants(s, p)' => p = copying + 1 /\ s = target
    <3>1. \A s \in Tags, p \in 1 .. Parts : Wants(s, p)' =>
            notes'[s] = <<Part(p)>> /\ s = target /\ <<Part(p)>> = <<Further(copying)>>
      <4>1. \A p \in 1 .. Parts : p # 0 /\ <<Part(p)>> # <<>>
        BY Alone
      <4> QED
        BY <1>2, <2>3, <4>1 DEF Wants
    <3>2. \A p \in 1 .. Parts : <<Part(p)>> = <<Further(copying)>> => p = copying + 1
      <4>1. CASE Further(copying) = Part(copying + 1)
        BY <4>1, Alone, Zenon
      <4>2. CASE Further(copying) = Note("done")
        BY <4>2, Alone, Zenon
      <4> QED
        BY <2>9, <4>1, <4>2
    <3> QED
      BY <3>1, <3>2
  <2>11. \A s \in Tags : notes'[s] = <<Note("done")>> => copying = Parts
    <3>1. \A s \in Tags : notes'[s] = <<Note("done")>> => <<Note("done")>> = <<Further(copying)>>
      <4>1. <<Note("done")>> # <<>>
        BY Alone
      <4> QED
        BY <2>3, <4>1
    <3>2. <<Part(copying + 1)>> # <<Note("done")>>
      BY Alone, Zenon
    <3> QED
      BY <2>9, <3>1, <3>2
  <2>12. ProgressInv'
    <3>1. \A s \in Tags, p \in 1 .. Parts : Wants(s, p)' =>
            \A q \in 1 .. (p - 1) : buf'[s][q] = img
      BY <1>1, <2>7, <2>10
    <3>2. \A s \in Tags : notes'[s] = <<Note("done")>> => Len(targets') \in delivered'
      BY <2>0, <1>2, <2>8, <2>11
    <3>3. pushOk' => Len(targets') \in delivered'
      BY <1>2, <2>8 DEF ProgressInv
    <3>4. answered' \subseteq delivered'
      BY <1>2, <2>8 DEF ProgressInv
    <3> QED
      BY <1>2, <3>1, <3>2, <3>3, <3>4 DEF ProgressInv
  <2> QED
    BY <1>3, <2>5, <2>12
<1> QED
  BY <1>4, <1>5

(* The tag says done only when it has the image. *)
LEMMA DoneArrivesKeepsSettled ==
  ASSUME SettledInv, NEW t \in Tags, DoneArrives(t)
  PROVE  LinkInv' /\ OneAtATime' /\ ProgressInv'
<1> USE DEF SettledInv, IInv, TypeOK, StateOK, RadioOK, PeerOK
<1>1. /\ notes[t] = <<Note("done")>> /\ copying = 0
      /\ \A s \in Tags : Without(t)[s] = <<>> /\ gatt[s] = "none"
  BY HeardFrom DEF DoneArrives, Arrives
<1>2. \A s \in Tags : notes'[s] = <<>>
  BY <1>1 DEF DoneArrives
<1>3. UNCHANGED <<gatt, pend, conn, target, copying, img, buf, delivered, targets, answered>>
  BY DEF DoneArrives, request, log
<1>4. \A s \in Tags : link'[s].who = link[s].who /\ (link'[s] = NoLink <=> link[s] = NoLink)
  <2>1. link' = Terminated(conn)
    BY DEF DoneArrives
  <2> QED
    BY <2>1, TerminatedTyped DEF Links
<1>5. LinkInv'
  BY <1>3, <1>4 DEF LinkInv, Free
<1>6. OneAtATime'
  BY <1>1, <1>2, <1>3, <1>4, EmptySeq DEF OneAtATime
<1>7. ProgressInv'
  <2>1. \A s \in Tags, p \in 1 .. Parts : Wants(s, p)' => Wants(s, p)
    BY <1>2, <1>3, Alone DEF Wants
  <2>2. Len(targets) \in delivered
    BY <1>1 DEF ProgressInv
  <2> QED
    BY <1>2, <1>3, <2>1, <2>2 DEF ProgressInv
<1> QED
  BY <1>5, <1>6, <1>7

-----------------------------------------------------------------------------
LEMMA InitSettled == Init => SettledInv
<1> SUFFICES ASSUME Init PROVE SettledInv
  OBVIOUS
<1>1. IInv
  BY InitIInv
<1>2. LinkInv
  BY DEF Init, LinkInv, NoLink, Free
<1>3. OneAtATime
  BY EmptySeq DEF Init, OneAtATime
<1>4. ProgressInv
  <2>1. \A t \in Tags, p \in 1 .. Parts : ~Wants(t, p)
    BY Alone, Zenon DEF Init, Wants
  <2>2. \A t \in Tags : notes[t] # <<Note("done")>>
    BY Alone, Zenon DEF Init
  <2> QED
    BY <2>1, <2>2 DEF Init, ProgressInv
<1> QED
  BY <1>1, <1>2, <1>3, <1>4 DEF SettledInv

LEMMA NextSettled ==
  ASSUME Settle, SettledInv, [Next]_vars
  PROVE  SettledInv'
<1>1. IInv'
  BY NextIInv DEF SettledInv
<1>2. LinkInv' /\ OneAtATime' /\ ProgressInv'
  <2>1. ASSUME NEW t \in Tags, Begin(t) \/ Found(t) \/ DumpFound(t) \/ Disconnected(t)
        PROVE  LinkInv' /\ OneAtATime' /\ ProgressInv'
    BY <2>1, BeginKeepsSettled, FoundKeepsSettled, DumpFoundKeepsSettled,
       DisconnectedKeepsSettled
  <2>2. ASSUME NEW t \in Tags, GattStep(t)
        PROVE  LinkInv' /\ OneAtATime' /\ ProgressInv'
    BY <2>2, MtuDoneKeepsSettled, ReadDoneKeepsSettled, CharsDoneKeepsSettled,
       SubscribeDoneKeepsSettled DEF GattStep
  <2>3. ASSUME NEW t \in Tags, NotifyStep(t)
        PROVE  LinkInv' /\ OneAtATime' /\ ProgressInv'
    BY <2>3, SizeArrivesKeepsSettled, DeclaredArrivesKeepsSettled,
       PartArrivesKeepsSettled, DoneArrivesKeepsSettled DEF NotifyStep
  <2>4. CASE HttpStep \/ Scan \/ Dump
    BY <2>4, AnswerKeepsSettled, ScanAnswerKeepsSettled, ScanKeepsSettled,
       DumpKeepsSettled DEF HttpStep
  <2>5. CASE Watchdog \/ DiscComplete \/ Connected \/ ConnectFails \/ SendBlock
    BY <2>5, WatchdogKeepsSettled, DiscCompleteKeepsSettled, ConnectedKeepsSettled,
       ConnectFailsKeepsSettled, SendBlockKeepsSettled
  <2>6. CASE UNCHANGED vars
    BY <2>6 DEF vars, request, attrs, radio, peer, log, SettledInv, LinkInv, OneAtATime,
                ProgressInv, Wants
  <2> QED
    BY <2>1, <2>2, <2>3, <2>4, <2>5, <2>6 DEF Next
<1> QED
  BY <1>1, <1>2 DEF SettledInv

(* Pushes that wait for the radio to be quiet keep to their own link and    *)
(* their own conversation.                                                  *)
THEOREM SettledInvariant ==
  ASSUME Settle
  PROVE  Spec => []SettledInv
<1>1. SettledInv /\ [Next]_vars => SettledInv'
  BY NextSettled
<1> QED
  BY <1>1, InitSettled, PTL DEF Spec

(* bridge.h: "Returns ESP_OK on success".  It does, for any number of       *)
(* tags, blocks and pushes, when a push is asked for only once the link of  *)
(* the one before is gone (ble_push.c:513-515), even if the watchdog runs   *)
(* in the middle of send_block.                                             *)
THEOREM OkIsDelivered ==
  ASSUME Settle
  PROVE  Spec => []OkMeansDelivered
<1>1. SettledInv => OkMeansDelivered
  BY DEF SettledInv, ProgressInv, OkMeansDelivered
<1> QED
  BY <1>1, SettledInvariant, PTL

(* On the same condition, only its own link can end a push                  *)
(* (ble_push.c:327-330).                                                    *)
THEOREM LinkIsOwn ==
  ASSUME Settle
  PROVE  Spec => []OwnLinkOnly
<1>1. SettledInv => OwnLinkOnly
  BY DEF SettledInv, LinkInv, OwnLinkOnly
<1> QED
  BY <1>1, SettledInvariant, PTL

(* When besides the watchdog stays out of send_block, no block is copied    *)
(* from an image given up (ble_push.c:300-306).                             *)
THEOREM BlocksAreLive ==
  ASSUME Settle, ~Preempt
  PROVE  Spec => []BlocksFromLiveImage
<1>1. SettledInv => BlocksFromLiveImage
  BY DEF SettledInv, OneAtATime, BlocksFromLiveImage
<1> QED
  BY <1>1, SettledInvariant, PTL

=============================================================================
