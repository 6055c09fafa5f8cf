------------------------------ MODULE BlePush ------------------------------
(***************************************************************************)
(* The bridge's radio side, src/bridge/main/ble_push.c.  Three tasks share *)
(* its static variables without a lock: the one task of the HTTP server,   *)
(* which runs ble_push, ble_scan_json and ble_dump_gatt and waits there;   *)
(* the NimBLE host task, which runs the GAP and GATT callbacks; and the    *)
(* timer task, which runs the watchdog.                                    *)
(*                                                                         *)
(* A step is one callback, or one stretch of the HTTP task between calls   *)
(* into NimBLE.  The radio (NimBLE's procedures and links) and the tags    *)
(* are the environment.  Time is left out: what can time out may do so at  *)
(* any moment.  An image is the number of the push that brought it.        *)
(***************************************************************************)
EXTENDS Naturals, Sequences, FiniteSets

CONSTANTS Tags,
          Parts,      \* how many blocks an image takes
          MaxPushes,  \* bound: how many pushes are asked for
          None,       \* no tag: BLE_HS_CONN_HANDLE_NONE
          Settle,     \* TRUE: a push is asked for only when the radio is quiet
          Preempt     \* TRUE: the watchdog may run in the middle of send_block

ASSUME BleAssumption ==
  /\ Parts \in Nat \ {0} /\ MaxPushes \in Nat
  /\ None \notin Tags
  /\ Settle \in BOOLEAN /\ Preempt \in BOOLEAN

VARIABLES
  http,       \* where the HTTP task is
  pushing,    \* s_pushing
  pushOk,     \* s_push_ok
  img,        \* s_img: the push whose image it holds, 0 when NULL
  target,     \* s_push_target
  found,      \* s_push_found
  conn,       \* s_push_conn: the tag at the other end, or None
  handles,    \* s_fef1, s_fef2 and s_cccd are set
  sized,      \* s_block_size is set
  wd,         \* the watchdog is armed
  copying,    \* the part send_block is about to copy, 0 outside send_block
  disc,       \* the discovery procedure that runs: "none" or whose it is
  pend,       \* the connection that is being made: whose and to which tag
  link,       \* the state of the link to each tag, and whose it is
  gatt,       \* the GATT callback that is due on a link
  notes,      \* notifications on their way from a tag
  buf,        \* what a tag has received of an image: the push of each block
  targets,    \* history: the tag each push was for
  delivered,  \* history: pushes whose whole image reached their tag
  answered    \* history: pushes the bridge answered with ESP_OK

request == <<pushing, img, found, conn, wd>>
attrs == <<handles, sized>>
radio == <<disc, pend, link, gatt>>
peer == <<notes, buf, delivered>>
log == <<targets, answered>>
vars == <<http, request, pushOk, target, attrs, copying, radio, peer, log>>

Free == [who |-> "none", tag |-> None]
NoLink == [at |-> "none", who |-> "none"]
Notes == [op : {"size", "declared", "part", "done"}, part : 0 .. Parts]
Note(op) == [op |-> op, part |-> 0]
Part(p) == [op |-> "part", part |-> p]
NoImage == [p \in 1 .. Parts |-> 0]

FlagsOK ==
  /\ pushing \in BOOLEAN /\ pushOk \in BOOLEAN /\ found \in BOOLEAN
  /\ handles \in BOOLEAN /\ sized \in BOOLEAN /\ wd \in BOOLEAN

StateOK ==
  /\ http \in {"idle", "wait", "scan"}
  /\ img \in 0 .. MaxPushes
  /\ target \in Tags \cup {None} /\ conn \in Tags \cup {None}
  /\ copying \in 0 .. Parts

RadioOK ==
  /\ disc \in {"none", "push", "scan", "dump"}
  /\ pend \in {Free} \cup [who : {"push", "dump"}, tag : Tags]
  /\ link \in [Tags -> {NoLink} \cup [at : {"up", "closing"}, who : {"push", "dump"}]]
  /\ gatt \in [Tags -> {"none", "mtu", "chars", "subscribe", "read"}]

PeerOK ==
  /\ notes \in [Tags -> Seq(Notes)]
  /\ buf \in [Tags -> [1 .. Parts -> 0 .. MaxPushes]]
  /\ delivered \subseteq 1 .. MaxPushes

LogOK ==
  /\ targets \in Seq(Tags) /\ Len(targets) <= MaxPushes
  /\ answered \subseteq 1 .. MaxPushes

TypeOK == FlagsOK /\ StateOK /\ RadioOK /\ PeerOK /\ LogOK

Init ==
  /\ http = "idle"
  /\ pushing = FALSE /\ pushOk = FALSE /\ img = 0 /\ target = None
  /\ found = FALSE /\ conn = None /\ handles = FALSE /\ sized = FALSE
  /\ wd = FALSE /\ copying = 0
  /\ disc = "none" /\ pend = Free
  /\ link = [t \in Tags |-> NoLink] /\ gatt = [t \in Tags |-> "none"]
  /\ notes = [t \in Tags |-> <<>>] /\ buf = [t \in Tags |-> NoImage]
  /\ targets = <<>> /\ delivered = {} /\ answered = {}

Quiet == disc = "none" /\ pend = Free /\ link = [t \in Tags |-> NoLink]

-----------------------------------------------------------------------------
(* Shared parts *)

(* A slip that push_cleanup could make, for RadioRests: the busy flag stays. *)
CleanupStaysBusy ==
  /\ wd' = FALSE
  /\ img' = 0
  /\ found' = FALSE
  /\ UNCHANGED <<pushing, conn>>

(* push_cleanup *)
Cleanup ==
  /\ wd' = FALSE
  /\ img' = 0
  /\ pushing' = FALSE
  /\ found' = FALSE
  /\ conn' = None

(* ble_gap_terminate: the disconnection is reported later. *)
Terminated(t) ==
  IF t # None /\ link[t].at = "up" THEN [link EXCEPT ![t].at = "closing"]
                                   ELSE link

(* Commands and blocks go to the connection of the push, whichever link the *)
(* callback that sends them belongs to.                                     *)
Reaches == conn # None /\ link[conn].at = "up" /\ handles

(* send_req, and the answer of the tag: q are the notifications that are    *)
(* left to deliver.                                                         *)
Asked(q, answer) ==
  IF Reaches THEN [q EXCEPT ![conn] = Append(@, answer)] ELSE q
Without(t) == [notes EXCEPT ![t] = Tail(@)]

(* No callback runs while send_block is between its checks and its copy.   *)
HostFree == copying = 0

-----------------------------------------------------------------------------
(* The HTTP task *)

(* Slips that ble_push could make: the result of the last push is left      *)
(* (OkMeansDelivered), or its connection (RightTag), or that is set to 0,   *)
(* which is a handle (TypeOK), and the wait is for a success only           *)
(* (RequestsEnd).                                                           *)
LastOk == pushOk
LastConn == conn
ZeroConn == 0
WaitForSuccess == pushOk

(* What ble_push starts with. *)
FreshOk == FALSE
FreshConn == None

(* The wait ends when a callback or the watchdog has cleared s_pushing; its *)
(* own limit, 38 s, lies behind the watchdog's 30 s.                        *)
WaitOver == pushing => ~wd

(* ble_push up to its wait, for tag t: no callback is as short as the few   *)
(* lines from s_pushing to ble_gap_disc.  A push in flight refuses another  *)
(* one; a procedure of NimBLE that still runs refuses the discovery, and    *)
(* the push gives up.                                                       *)
Begin(t) ==
  LET n == Len(targets) + 1
      free == disc = "none" /\ pend = Free IN
  /\ http = "idle"
  /\ n <= MaxPushes
  /\ Settle => Quiet
  /\ ~pushing
  /\ targets' = Append(targets, t)
  /\ target' = t
  /\ pushOk' = FreshOk /\ found' = FALSE /\ conn' = FreshConn
  /\ handles' = FALSE /\ sized' = FALSE
  /\ pushing' = free /\ wd' = free
  /\ img' = IF free THEN n ELSE 0
  /\ disc' = IF free THEN "push" ELSE disc
  /\ http' = IF free THEN "wait" ELSE "idle"
  /\ UNCHANGED <<copying, pend, link, gatt, peer, answered>>

(* ble_push returns s_push_ok, unless it gave up waiting. *)
Answer ==
  /\ http = "wait"
  /\ WaitOver
  /\ answered' = IF ~pushing /\ pushOk THEN answered \cup {Len(targets)}
                                       ELSE answered
  /\ http' = "idle"
  /\ UNCHANGED <<request, pushOk, target, attrs, copying, radio, peer, targets>>

(* ble_scan_json: not during a push.  The result of ble_gap_disc is not     *)
(* looked at.                                                               *)
Scan ==
  /\ http = "idle"
  /\ ~pushing
  /\ http' = "scan"
  /\ disc' = IF disc = "none" /\ pend = Free THEN "scan" ELSE disc
  /\ UNCHANGED <<request, pushOk, target, attrs, copying, pend, link, gatt, peer, log>>

ScanAnswer ==
  /\ http = "scan"
  /\ disc # "scan"
  /\ http' = "idle"
  /\ UNCHANGED <<request, pushOk, target, attrs, copying, radio, peer, log>>

(* ble_dump_gatt starts its own discovery and returns at once. *)
Dump ==
  /\ http = "idle"
  /\ disc = "none" /\ pend = Free
  /\ disc' = "dump"
  /\ UNCHANGED <<http, request, pushOk, target, attrs, copying, pend, link, gatt, peer, log>>

-----------------------------------------------------------------------------
(* The timer task: push_wd_cb.  The connection that is being made is not    *)
(* cancelled.                                                               *)
Watchdog ==
  /\ wd
  /\ Preempt \/ HostFree
  /\ wd' = FALSE
  /\ IF pushing
       THEN /\ Cleanup
            /\ link' = Terminated(conn)
            /\ disc' = IF conn = None THEN "none" ELSE disc
       ELSE UNCHANGED <<pushing, img, found, conn, link, disc>>
  /\ UNCHANGED <<http, pushOk, target, attrs, copying, pend, gatt, peer, log>>

-----------------------------------------------------------------------------
(* The host task: discovery *)

(* A slip, for OwnLinkOnly: the address of the advertisement is not looked  *)
(* at.                                                                      *)
AnyAdvertiser(t) == pushing /\ ~found

(* push_disc_scan_cb, BLE_GAP_EVENT_DISC: the first advertisement of the    *)
(* target ends the discovery, and the bridge connects to it.                *)
Advertiser(t) == pushing /\ ~found /\ t = target

Found(t) ==
  /\ HostFree /\ disc = "push"
  /\ Advertiser(t)
  /\ disc' = "none"
  /\ IF pend = Free /\ link[t].at = "none"
       THEN /\ pend' = [who |-> "push", tag |-> t]
            /\ found' = TRUE
            /\ UNCHANGED <<pushing, img, conn, wd>>
       ELSE /\ Cleanup
            /\ UNCHANGED pend
  /\ UNCHANGED <<http, pushOk, target, attrs, copying, link, gatt, peer, log>>

(* dump_disc_cb, for the tag to dump. *)
DumpFound(t) ==
  /\ HostFree /\ disc = "dump"
  /\ disc' = "none"
  /\ pend' = IF link[t].at = "none" THEN [who |-> "dump", tag |-> t] ELSE pend
  /\ UNCHANGED <<http, request, pushOk, target, attrs, copying, link, gatt, peer, log>>

(* BLE_GAP_EVENT_DISC_COMPLETE of any of the three discoveries. *)
DiscComplete ==
  /\ HostFree /\ disc # "none"
  /\ disc' = "none"
  /\ IF disc = "push" /\ pushing /\ ~found THEN Cleanup ELSE UNCHANGED request
  /\ UNCHANGED <<http, pushOk, target, attrs, copying, pend, link, gatt, peer, log>>

-----------------------------------------------------------------------------
(* The host task: push_gap_cb and dump_gap_cb *)

Connected ==
  LET t == pend.tag IN
  /\ HostFree /\ pend # Free
  /\ pend' = Free
  /\ link' = [link EXCEPT ![t] = [at |-> "up", who |-> pend.who]]
  /\ IF pend.who = "push"
       THEN /\ conn' = t
            /\ gatt' = [gatt EXCEPT ![t] = "mtu"]
       ELSE UNCHANGED <<conn, gatt>>
  /\ UNCHANGED <<http, pushing, img, found, wd, pushOk, target, attrs, copying, disc, peer, log>>

ConnectFails ==
  /\ HostFree /\ pend # Free
  /\ pend' = Free
  /\ IF pend.who = "push" THEN Cleanup ELSE UNCHANGED request
  /\ UNCHANGED <<http, pushOk, target, attrs, copying, disc, link, gatt, peer, log>>

(* A link goes down, by either side; whatever was under way on it is lost. *)
Disconnected(t) ==
  /\ HostFree /\ link[t].at # "none"
  /\ link' = [link EXCEPT ![t] = NoLink]
  /\ gatt' = [gatt EXCEPT ![t] = "none"]
  /\ notes' = [notes EXCEPT ![t] = <<>>]
  /\ IF link[t].who = "push" THEN Cleanup ELSE UNCHANGED request
  /\ UNCHANGED <<http, pushOk, target, attrs, copying, disc, pend, buf, delivered, log>>

(* push_mtu_cb *)
MtuDone(t) ==
  /\ HostFree /\ gatt[t] = "mtu"
  /\ gatt' = [gatt EXCEPT ![t] = "chars"]
  /\ handles' = FALSE
  /\ UNCHANGED <<http, request, pushOk, target, sized, copying, disc, pend, link, peer, log>>

(* push_disc_chr_cb and push_disc_dsc_cb: the handles are found, or the     *)
(* link is closed.                                                          *)
CharsDone(t, ok) ==
  /\ HostFree /\ gatt[t] = "chars"
  /\ gatt' = [gatt EXCEPT ![t] = IF ok THEN "subscribe" ELSE "none"]
  /\ handles' = ok
  /\ link' = IF ok THEN link ELSE Terminated(t)
  /\ UNCHANGED <<http, request, pushOk, target, sized, copying, disc, pend, peer, log>>

(* push_subscribe_cb *)
SubscribeDone(t, ok) ==
  /\ HostFree /\ gatt[t] = "subscribe"
  /\ gatt' = [gatt EXCEPT ![t] = IF ok THEN "read" ELSE "none"]
  /\ link' = IF ok THEN link ELSE Terminated(t)
  /\ UNCHANGED <<http, request, pushOk, target, attrs, copying, disc, pend, peer, log>>

(* push_cccd_read_cb asks for the block size, whatever the read returned. *)
ReadDone(t) ==
  /\ HostFree /\ gatt[t] = "read"
  /\ gatt' = [gatt EXCEPT ![t] = "none"]
  /\ notes' = Asked(notes, Note("size"))
  /\ UNCHANGED <<http, request, pushOk, target, attrs, copying, disc, pend, link, buf,
                 delivered, log>>

-----------------------------------------------------------------------------
(* The host task: BLE_GAP_EVENT_NOTIFY_RX *)

Arrives(t, note) == HostFree /\ notes[t] # <<>> /\ Head(notes[t]) = note

(* 0x01, the block size: declare the image.  A tag does not take an empty   *)
(* one; any other replaces what it had received before.                     *)
SizeArrives(t) ==
  LET taken == Reaches /\ img # 0 IN
  /\ Arrives(t, Note("size"))
  /\ sized' = TRUE
  /\ notes' = IF taken THEN Asked(Without(t), Note("declared")) ELSE Without(t)
  /\ buf' = IF taken THEN [buf EXCEPT ![conn] = NoImage] ELSE buf
  /\ UNCHANGED <<http, request, pushOk, target, handles, copying, radio, delivered, log>>

(* 0x02 0x00, the image is accepted: start; the tag asks for block 1. *)
DeclaredArrives(t) ==
  /\ Arrives(t, Note("declared"))
  /\ notes' = Asked(Without(t), Part(1))
  /\ UNCHANGED <<http, request, pushOk, target, attrs, copying, radio, buf, delivered, log>>

(* A slip that send_block could make, for BlocksFromLiveImage: it does not  *)
(* look whether there is an image.                                          *)
AnyImage == sized

(* send_block's checks *)
HasImage == sized /\ img # 0

(* 0x05 0x00 part, a block is wanted: send_block, up to its checks. *)
PartArrives(t) ==
  /\ \E p \in 1 .. Parts :
       /\ Arrives(t, Part(p))
       /\ copying' = IF HasImage THEN p ELSE 0
  /\ notes' = Without(t)
  /\ UNCHANGED <<http, request, pushOk, target, attrs, radio, buf, delivered, log>>

(* What a tag asks for when it has block p. *)
Further(p) == IF p < Parts THEN Part(p + 1) ELSE Note("done")

(* ... the copy from s_img and the write. *)
SendBlock ==
  LET got == [buf[conn] EXCEPT ![copying] = img] IN
  /\ copying # 0
  /\ copying' = 0
  /\ IF Reaches
       THEN /\ buf' = [buf EXCEPT ![conn] = got]
            /\ notes' = Asked(notes, Further(copying))
            /\ delivered' = delivered \cup
                 {n \in DOMAIN targets : targets[n] = conn /\ got = [p \in 1 .. Parts |-> n]}
       ELSE UNCHANGED peer
  /\ UNCHANGED <<http, request, pushOk, target, attrs, radio, log>>

(* 0x05 0x08, the tag has the image: the push is a success. *)
DoneArrives(t) ==
  /\ Arrives(t, Note("done"))
  /\ pushOk' = TRUE
  /\ link' = Terminated(conn)
  /\ notes' = Without(t)
  /\ UNCHANGED <<http, request, target, attrs, copying, disc, pend, gatt, buf, delivered, log>>

-----------------------------------------------------------------------------
HttpStep == Answer \/ ScanAnswer

GattStep(t) ==
  \/ MtuDone(t) \/ ReadDone(t)
  \/ \E ok \in BOOLEAN : CharsDone(t, ok) \/ SubscribeDone(t, ok)

NotifyStep(t) ==
  SizeArrives(t) \/ DeclaredArrives(t) \/ PartArrives(t) \/ DoneArrives(t)

Next ==
  \/ \E t \in Tags : Begin(t) \/ Found(t) \/ DumpFound(t) \/ Disconnected(t)
  \/ \E t \in Tags : GattStep(t) \/ NotifyStep(t)
  \/ HttpStep \/ Scan \/ Dump
  \/ Watchdog
  \/ DiscComplete \/ Connected \/ ConnectFails
  \/ SendBlock

(* The tasks run; NimBLE's procedures end by their own timeouts, and a link *)
(* does not stay up for ever.  No tag has to answer.                        *)
Fairness ==
  /\ WF_vars(HttpStep) /\ WF_vars(Watchdog) /\ WF_vars(SendBlock)
  /\ WF_vars(DiscComplete) /\ WF_vars(ConnectFails)
  /\ \A t \in Tags : WF_vars(Disconnected(t))

Spec == Init /\ [][Next]_vars /\ Fairness

-----------------------------------------------------------------------------
(* Properties *)

(* An answer of ESP_OK means that every block of that image, and of no      *)
(* other, reached the tag the push was for (bridge.h: "Returns ESP_OK on    *)
(* success"; ble_push.c:356-359, 513-515).                                  *)
OkMeansDelivered == answered \subseteq delivered

(* No tag ever receives a block of an image meant for another: the blocks   *)
(* follow s_push_conn, which every callback of every link may change        *)
(* (ble_push.c:295-312, 323).                                               *)
RightTag ==
  \A t \in Tags, p \in 1 .. Parts : buf[t][p] # 0 => targets[buf[t][p]] = t

(* While a push is in flight no link of an earlier push is left, so no      *)
(* callback but its own can end it (ble_push.c:327-330).                    *)
OwnLinkOnly ==
  pushing => \A t \in Tags : link[t].who = "push" => t = target

(* A block is copied from an image that s_img still owns (ble_push.c:241,   *)
(* 300-306).                                                                *)
BlocksFromLiveImage == copying # 0 => img # 0

(* Every request to push or scan is answered: a callback or the watchdog    *)
(* always ends the wait (ble_push.c:511-515).                               *)
RequestsEnd == http # "idle" ~> http = "idle"

(* When no GATT dump is asked for any more, the radio comes to rest, ready  *)
(* for another push: no failed push leaves it busy for good.                *)
RadioRests == <>[][~Dump]_vars => []<>(Quiet /\ ~pushing)

=============================================================================
