------------------------------- MODULE Wifi -------------------------------
(***************************************************************************)
(* The bridge's start and its network: src/bridge/main/wifi.c, app_main of *)
(* main.c and the /config handler of httpserver.c.  Three tasks share the  *)
(* retry counter and the event bits without a lock: app_main's, which      *)
(* waits for the first connection and may give up; the event task, which   *)
(* runs on_wifi_event; and the HTTP server's, which stores credentials and *)
(* restarts.  The WiFi driver, the network and the power supply are the    *)
(* environment: an attempt to join may succeed or fail whatever is stored. *)
(* The 20 s of the wait may be over at any moment.                         *)
(***************************************************************************)
EXTENDS Naturals, Sequences

CONSTANTS Names,       \* network names
          Keys,        \* passwords
          Unusable,    \* names load_creds refuses: empty, or longer than 32
          MaxRetries,  \* 10 in the code
          None         \* nothing stored, nothing asked for

ASSUME WifiAssumption ==
  /\ MaxRetries \in Nat /\ MaxRetries < 1000
  /\ Unusable \subseteq Names
  /\ None \notin Names /\ None \notin Keys

VARIABLES
  main,       \* app_main: off, joining, failing (gave up), online, or ap
  sta,        \* the driver's station: off, down, trying, joined, up
  events,     \* what the driver has posted to the event task
  retries,    \* s_retries
  ev,         \* the event task: idle, or before the s_retries++ of a retry
  seen,       \* what it had read of s_retries then
  bits,       \* s_wifi_events: CONNECTED and FAIL
  flash,      \* the two entries in NVS
  http,       \* /config: idle, named (ssid written), stored (about to restart)
  asked,      \* history: the credentials last sent to /config
  torn,       \* history: their saving was cut short, or refused by the flash
  losses      \* history: disconnections handled since the last address

handler == <<retries, ev, seen, losses>>
saving == <<flash, http, asked, torn>>
vars == <<main, sta, events, handler, bits, saving>>

Credentials == [ssid : Names, pass : Keys]
NoCredentials == [ssid |-> None, pass |-> None]

TasksOK ==
  /\ main \in {"off", "joining", "failing", "online", "ap"}
  /\ ev \in {"idle", "counting"}
  /\ retries \in Nat /\ (retries <= MaxRetries \/ retries \in {1000, 1001})
  /\ seen \in 0 .. MaxRetries /\ losses \in 0 .. MaxRetries + 1
  /\ bits \subseteq {"CONNECTED", "FAIL"}

DriverOK ==
  /\ sta \in {"off", "down", "trying", "joined", "up"}
  /\ events \in Seq({"start", "lost", "ip"})

SavingOK ==
  /\ flash \in [ssid : Names \cup {None}, pass : Keys \cup {None}]
  /\ http \in {"idle", "named", "stored"}
  /\ asked \in Credentials \cup {NoCredentials} /\ torn \in BOOLEAN

TypeOK == TasksOK /\ DriverOK /\ SavingOK

Init ==
  /\ main = "off" /\ sta = "off" /\ events = <<>>
  /\ retries = 0 /\ ev = "idle" /\ seen = 0 /\ losses = 0 /\ bits = {}
  /\ flash = NoCredentials /\ http = "idle"
  /\ asked = NoCredentials /\ torn = FALSE

-----------------------------------------------------------------------------
(* Start, and what ends a run of the firmware *)

(* load_creds *)
Loads(f) == f.ssid # None /\ f.pass # None /\ f.ssid \notin Unusable

(* app_main and wifi_start up to the wait.  nvs_flash_init may find the     *)
(* partition unusable, which is then erased.                                *)
Boot(kept) ==
  /\ main = "off"
  /\ flash' = kept /\ torn' = (torn \/ kept # flash)
  /\ retries' = 0 /\ ev' = "idle" /\ seen' = 0 /\ losses' = 0 /\ bits' = {}
  /\ \/ /\ Loads(kept)
        /\ main' = "joining" /\ sta' = "down" /\ events' = <<"start">>
     \/ /\ ~Loads(kept)
        /\ main' = "ap" /\ sta' = "off" /\ events' = <<>>
  /\ UNCHANGED <<http, asked>>

Halted ==
  /\ main' = "off" /\ sta' = "off" /\ events' = <<>>
  /\ http' = "idle"
  /\ UNCHANGED <<handler, bits, flash, asked>>

PowerLost ==
  /\ main # "off"
  /\ Halted
  /\ torn' = (torn \/ http = "named")

-----------------------------------------------------------------------------
(* The wait in wifi_start *)

JoinedInTime ==
  /\ main = "joining" /\ "CONNECTED" \in bits
  /\ main' = "online"
  /\ UNCHANGED <<sta, events, handler, bits, saving>>

(* A slip for BootEnds: the wait has no timeout. *)
OnlyRefused == bits = {"FAIL"}

(* The wait returns without CONNECTED_BIT: FAIL_BIT, or 20 s are over. *)
NotJoined == "CONNECTED" \notin bits

GiveUp ==
  /\ main = "joining" /\ NotJoined
  /\ main' = "failing"
  /\ retries' = 1000
  /\ UNCHANGED <<sta, events, ev, seen, losses, bits, saving>>

(* esp_wifi_stop, which ends a connection there is, and start_config_ap *)
FallBack ==
  /\ main = "failing"
  /\ main' = "ap" /\ sta' = "off"
  /\ events' = IF sta \in {"joined", "up"} THEN Append(events, "lost") ELSE events
  /\ UNCHANGED <<handler, bits, saving>>

-----------------------------------------------------------------------------
(* The event task: on_wifi_event *)

Handles(e) ==
  /\ ev = "idle"
  /\ events # <<>> /\ Head(events) = e
  /\ events' = Tail(events)

(* A slip for KeepsTrying: a bridge that was online once does not reconnect. *)
ConnectAtFirst == IF sta = "down" /\ "CONNECTED" \notin bits THEN "trying" ELSE sta

(* esp_wifi_connect: refused unless the station is started. *)
Connect == IF sta = "down" THEN "trying" ELSE sta

HandleStart ==
  /\ Handles("start")
  /\ sta' = Connect
  /\ UNCHANGED <<main, handler, bits, saving>>

(* A slip for TypeOK: one attempt more. *)
OneMoreTry == retries <= MaxRetries

MayRetry == retries < MaxRetries

Counted == IF losses <= MaxRetries THEN losses + 1 ELSE losses

HandleLost ==
  /\ Handles("lost")
  /\ losses' = Counted
  /\ \/ /\ MayRetry
        /\ sta' = Connect
        /\ ev' = "counting" /\ seen' = retries
        /\ UNCHANGED <<bits, retries>>
     \/ /\ ~MayRetry
        /\ bits' = bits \cup {"FAIL"}
        /\ UNCHANGED <<sta, retries, ev, seen>>
  /\ UNCHANGED <<main, saving>>

(* s_retries++, which reads and writes: app_main's 1000 may fall in between *)
(* and be lost.                                                             *)
CountRetry ==
  /\ ev = "counting"
  /\ ev' = "idle"
  /\ \E n \in {retries, seen} : retries' = n + 1
  /\ UNCHANGED <<main, sta, events, seen, losses, bits, saving>>

(* A slip for GivesUpLate: an address does not renew the attempts. *)
SameCount == retries

Renewed == 0

HandleIp ==
  /\ Handles("ip")
  /\ retries' = Renewed
  /\ bits' = bits \cup {"CONNECTED"}
  /\ losses' = 0
  /\ UNCHANGED <<main, sta, ev, seen, saving>>

-----------------------------------------------------------------------------
(* The driver and the network *)

Associate ==
  /\ sta = "trying"
  /\ sta' = "joined"
  /\ UNCHANGED <<main, events, handler, bits, saving>>

Refused ==
  /\ sta = "trying"
  /\ sta' = "down" /\ events' = Append(events, "lost")
  /\ UNCHANGED <<main, handler, bits, saving>>

Address ==
  /\ sta = "joined"
  /\ sta' = "up" /\ events' = Append(events, "ip")
  /\ UNCHANGED <<main, handler, bits, saving>>

LinkLost ==
  /\ sta \in {"joined", "up"}
  /\ sta' = "down" /\ events' = Append(events, "lost")
  /\ UNCHANGED <<main, handler, bits, saving>>

-----------------------------------------------------------------------------
(* /config: wifi_save_credentials, then a restart.  Each nvs_set_str writes *)
(* the flash, and may fail: neither its error nor the commit's is looked at. *)

Config(c, ok) ==
  /\ http = "idle" /\ (main = "ap" \/ (main = "online" /\ sta = "up"))
  /\ asked' = c
  /\ flash' = IF ok THEN [flash EXCEPT !.ssid = c.ssid] ELSE flash
  /\ torn' = ~ok
  /\ http' = "named"
  /\ UNCHANGED <<main, sta, events, handler, bits>>

(* A slip for StoredAsAsked: a password is stored only where there is none. *)
KeyIfNone(k) == IF flash.pass = None THEN [flash EXCEPT !.pass = k] ELSE flash

WithKey(k) == [flash EXCEPT !.pass = k]

StoreKey(ok) ==
  /\ http = "named"
  /\ flash' = IF ok THEN WithKey(asked.pass) ELSE flash
  /\ torn' = (torn \/ ~ok)
  /\ http' = "stored"
  /\ UNCHANGED <<main, sta, events, handler, bits, asked>>

(* esp_restart, a second after the answer *)
Restart ==
  /\ http = "stored"
  /\ Halted
  /\ UNCHANGED torn

-----------------------------------------------------------------------------
EventTask == HandleStart \/ HandleLost \/ CountRetry \/ HandleIp
MainTask == JoinedInTime \/ GiveUp \/ FallBack
HttpTask == Restart \/ \E ok \in BOOLEAN : StoreKey(ok)
Attempt == Associate \/ Refused

Next ==
  \/ \E kept \in {flash, NoCredentials} : Boot(kept)
  \/ PowerLost
  \/ MainTask \/ EventTask
  \/ Attempt \/ Address \/ LinkLost
  \/ \E c \in Credentials, ok \in BOOLEAN : Config(c, ok)
  \/ HttpTask

(* The three tasks run, and an attempt to join ends.  An address need not   *)
(* come, power need not fail or return, and nobody has to send credentials. *)
Fairness ==
  /\ WF_vars(MainTask) /\ WF_vars(EventTask) /\ WF_vars(HttpTask)
  /\ WF_vars(Attempt)

Spec == Init /\ [][Next]_vars /\ Fairness

-----------------------------------------------------------------------------
(* A station that has not decided to become an access point.                *)
Station == main \in {"joining", "online"}

(* A bridge gives its network up (FAIL_BIT) only after MaxRetries + 1       *)
(* disconnections in a row, however often it was online before: an address  *)
(* renews the attempts (wifi.c:31-44).                                      *)
GivesUpLate == Station /\ "FAIL" \in bits => losses = MaxRetries + 1

(* Until it gives up, a station is connected, trying, or about to be told   *)
(* to try: no order of losses, addresses and retries leaves it down with    *)
(* nothing to wake it (wifi.c:27-46).                                       *)
KeepsTrying ==
  Station /\ sta = "down" /\ "FAIL" \notin bits
    => events # <<>> /\ events[Len(events)] # "ip"

(* Unless the saving was cut short or the flash refused it, what the next   *)
(* start will load is exactly the pair last sent to /config, never a name   *)
(* with another's password (wifi.c:59-70, httpserver.c:133-139).            *)
StoredAsAsked == http = "idle" /\ ~torn => flash = asked

(* However a start goes, with credentials that are wrong, half saved or     *)
(* right but for a router that gives no address, the bridge can be reached  *)
(* in the end: it is online or offers its access point (wifi.c:114-125).    *)
BootEnds == main = "joining" ~> main \in {"online", "ap", "off"}
=============================================================================
