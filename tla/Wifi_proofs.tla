---------------------------- MODULE Wifi_proofs ----------------------------
(***************************************************************************)
(* Proofs about Wifi, for any names, passwords and number of retries.      *)
(* GivesUpLate and KeepsTrying are not inductive: that the count of        *)
(* retries is the count of losses depends on what the driver has posted    *)
(* and the event task not yet handled.  EventsFit says what that can be.   *)
(***************************************************************************)
EXTENDS Wifi, TLAPS

(* An attempt that is about to be counted was allowed, and only app_main    *)
(* has changed the count since.                                             *)
AttemptFits == ev = "counting" => seen < MaxRetries /\ retries \in {seen, 1000}

Posted(e) == Len(events) = 1 /\ events[1] = e

(* A station that tries or has associated has nothing to report; one with   *)
(* an address has reported that at most; one that is down has just been     *)
(* started or lost, unless it was given up.                                 *)
EventsFit ==
  /\ main \in {"off", "ap"} => sta = "off"
  /\ main \notin {"off", "ap"} =>
       /\ sta # "off"
       /\ sta \in {"trying", "joined"} => Len(events) = 0
       /\ sta = "up" => Len(events) = 0 \/ Posted("ip")
       /\ sta = "down" => \/ Posted("start") \/ Posted("lost")
                          \/ Len(events) = 2 /\ events[1] = "ip" /\ events[2] = "lost"
                          \/ "FAIL" \in bits /\ Len(events) = 0

(* While the bridge is a station, the retries are the losses handled.       *)
CountFits ==
  Station =>
    /\ "FAIL" \in bits => /\ losses = MaxRetries + 1
                          /\ sta = "down" /\ Len(events) = 0 /\ ev = "idle"
    /\ "FAIL" \notin bits =>
         /\ retries <= MaxRetries
         /\ ev = "idle" => losses = retries
         /\ ev = "counting" => losses = retries + 1 /\ seen = retries

SavingFits ==
  ~torn => /\ http = "named" => flash.ssid = asked.ssid
           /\ http # "named" => flash = asked

IInv == TypeOK /\ AttemptFits /\ EventsFit /\ CountFits /\ SavingFits

(* The start is fine: nothing runs, and nothing is stored or asked for.     *)
LEMMA InitIInv == Init => IInv
<1> SUFFICES ASSUME Init PROVE IInv
  OBVIOUS
<1>1. TasksOK
  BY WifiAssumption DEF Init, TasksOK
<1>2. DriverOK
  BY DEF Init, DriverOK
<1>3. SavingOK /\ SavingFits
  BY DEF Init, SavingOK, SavingFits, NoCredentials, Credentials
<1>4. AttemptFits /\ EventsFit /\ CountFits
  BY DEF Init, AttemptFits, EventsFit, CountFits, Station
<1> QED
  BY <1>1, <1>2, <1>3, <1>4 DEF IInv, TypeOK

(* Every step keeps the tasks' types.  What the event task counts needs to  *)
(* have been allowed.                                                       *)
LEMMA StepTasksOK ==
  TasksOK /\ AttemptFits /\ [Next]_vars => TasksOK' /\ AttemptFits'
<1> SUFFICES ASSUME TasksOK, AttemptFits, [Next]_vars
             PROVE  TasksOK' /\ AttemptFits'
  OBVIOUS
<1> USE WifiAssumption DEF TasksOK, AttemptFits
<1>1. ASSUME NEW kept \in {flash, NoCredentials}, Boot(kept)
      PROVE  TasksOK' /\ AttemptFits'
  BY <1>1 DEF Boot
<1>2. CASE PowerLost \/ Restart
  <2>1. main' = "off" /\ UNCHANGED <<retries, ev, seen, losses, bits>>
    BY <1>2 DEF PowerLost, Restart, Halted, handler
  <2> QED
    BY <2>1
<1>3. CASE MainTask
  <2>1. /\ main' \in {"online", "failing", "ap"} /\ retries' \in {retries, 1000}
        /\ UNCHANGED <<ev, seen, losses, bits>>
    BY <1>3 DEF MainTask, JoinedInTime, GiveUp, FallBack, handler
  <2> QED
    BY <2>1
<1>4. CASE HandleStart
  BY <1>4 DEF HandleStart, handler
<1>5. CASE HandleLost
  <2>1. losses' \in 0 .. MaxRetries + 1
    BY <1>5 DEF HandleLost, Counted
  <2>2. UNCHANGED <<main, retries>>
    BY <1>5 DEF HandleLost
  <2>3. CASE MayRetry
    <3>1. bits' = bits /\ ev' = "counting" /\ seen' = retries
      BY <1>5, <2>3 DEF HandleLost
    <3> QED
      BY <2>1, <2>2, <2>3, <3>1 DEF MayRetry
  <2>4. CASE ~MayRetry
    <3>1. bits' = bits \cup {"FAIL"} /\ UNCHANGED <<ev, seen>>
      BY <1>5, <2>4 DEF HandleLost
    <3> QED
      BY <2>1, <2>2, <3>1
  <2> QED
    BY <2>3, <2>4
<1>6. CASE CountRetry
  BY <1>6 DEF CountRetry
<1>7. CASE HandleIp
  BY <1>7 DEF HandleIp, Handles, Renewed
<1>8. CASE Attempt \/ Address \/ LinkLost
  <2>1. UNCHANGED <<main, retries, ev, seen, losses, bits>>
    BY <1>8 DEF Attempt, Associate, Refused, Address, LinkLost, handler
  <2> QED
    BY <2>1
<1>9. ASSUME NEW c \in Credentials, NEW ok \in BOOLEAN, Config(c, ok)
      PROVE  TasksOK' /\ AttemptFits'
  BY <1>9 DEF Config, handler
<1>10. ASSUME NEW ok \in BOOLEAN, StoreKey(ok) PROVE TasksOK' /\ AttemptFits'
  BY <1>10 DEF StoreKey, handler
<1>11. CASE UNCHANGED vars
  BY <1>11 DEF vars, handler
<1> QED
  BY <1>1, <1>2, <1>3, <1>4, <1>5, <1>6, <1>7, <1>8, <1>9, <1>10, <1>11
  DEF Next, EventTask, HttpTask

(* Every step keeps the driver's types.                                     *)
LEMMA StepDriverOK == DriverOK /\ [Next]_vars => DriverOK'
<1> SUFFICES ASSUME DriverOK, [Next]_vars PROVE DriverOK'
  OBVIOUS
<1> USE DEF DriverOK
<1>1. ASSUME NEW kept \in {flash, NoCredentials}, Boot(kept) PROVE DriverOK'
  <2>1. sta' \in {"off", "down"} /\ events' \in {<<>>, <<"start">>}
    BY <1>1 DEF Boot
  <2>2. <<>> \in Seq({"start", "lost", "ip"})
    OBVIOUS
  <2>3. <<"start">> \in Seq({"start", "lost", "ip"})
    OBVIOUS
  <2> QED
    BY <2>1, <2>2, <2>3
<1>2. CASE PowerLost \/ Restart
  <2>1. sta' = "off" /\ events' = <<>>
    BY <1>2 DEF PowerLost, Restart, Halted
  <2> QED
    BY <2>1
<1>3. CASE MainTask
  BY <1>3 DEF MainTask, JoinedInTime, GiveUp, FallBack
<1>4. CASE HandleStart \/ HandleLost \/ HandleIp
  <2>1. events # <<>> /\ events' = Tail(events)
    BY <1>4 DEF HandleStart, HandleLost, HandleIp, Handles
  <2>2. sta' \in {sta, "trying"}
    BY <1>4 DEF HandleStart, HandleLost, HandleIp, Connect
  <2> QED
    BY <2>1, <2>2
<1>5. CASE CountRetry
  BY <1>5 DEF CountRetry
<1>6. CASE Attempt \/ Address \/ LinkLost
  BY <1>6 DEF Attempt, Associate, Refused, Address, LinkLost
<1>7. ASSUME NEW c \in Credentials, NEW ok \in BOOLEAN, Config(c, ok)
      PROVE  DriverOK'
  BY <1>7 DEF Config
<1>8. ASSUME NEW ok \in BOOLEAN, StoreKey(ok) PROVE DriverOK'
  BY <1>8 DEF StoreKey
<1>9. CASE UNCHANGED vars
  BY <1>9 DEF vars
<1> QED
  BY <1>1, <1>2, <1>3, <1>4, <1>5, <1>6, <1>7, <1>8, <1>9
  DEF Next, EventTask, HttpTask

(* Every step keeps the types of what is stored and asked for.              *)
LEMMA StepSavingOK == SavingOK /\ [Next]_vars => SavingOK'
<1> SUFFICES ASSUME SavingOK, [Next]_vars PROVE SavingOK'
  OBVIOUS
<1> USE DEF SavingOK, Credentials, NoCredentials, saving
<1>1. ASSUME NEW kept \in {flash, NoCredentials}, Boot(kept) PROVE SavingOK'
  BY <1>1 DEF Boot
<1>2. CASE PowerLost \/ Restart
  BY <1>2 DEF PowerLost, Restart, Halted
<1>3. CASE MainTask \/ EventTask \/ Attempt \/ Address \/ LinkLost
  BY <1>3
  DEF MainTask, JoinedInTime, GiveUp, FallBack, EventTask, HandleStart,
      HandleLost, CountRetry, HandleIp, Attempt, Associate, Refused, Address,
      LinkLost
<1>4. ASSUME NEW c \in Credentials, NEW ok \in BOOLEAN, Config(c, ok)
      PROVE  SavingOK'
  BY <1>4 DEF Config
<1>5. ASSUME NEW ok \in BOOLEAN, StoreKey(ok) PROVE SavingOK'
  BY <1>5 DEF StoreKey, WithKey
<1>6. CASE UNCHANGED vars
  BY <1>6 DEF vars
<1> QED
  BY <1>1, <1>2, <1>3, <1>4, <1>5, <1>6 DEF Next, HttpTask

(* Every step keeps what may be posted.                                     *)
LEMMA StepEventsFit == DriverOK /\ EventsFit /\ [Next]_vars => EventsFit'
<1> SUFFICES ASSUME DriverOK, EventsFit, [Next]_vars PROVE EventsFit'
  OBVIOUS
<1> USE DEF DriverOK, EventsFit, Posted
<1>1. ASSUME NEW kept \in {flash, NoCredentials}, Boot(kept) PROVE EventsFit'
  BY <1>1 DEF Boot
<1>2. CASE PowerLost \/ Restart
  BY <1>2 DEF PowerLost, Restart, Halted
<1>3. CASE MainTask
  BY <1>3 DEF MainTask, JoinedInTime, GiveUp, FallBack
<1>4. CASE HandleStart
  BY <1>4 DEF HandleStart, Handles, Connect
<1>5. CASE HandleLost
  BY <1>5 DEF HandleLost, Handles, Connect
<1>6. CASE CountRetry
  BY <1>6 DEF CountRetry
<1>7. CASE HandleIp
  BY <1>7 DEF HandleIp, Handles
<1>8. CASE Attempt \/ Address \/ LinkLost
  <2>1. CASE Associate
    BY <2>1 DEF Associate
  <2>2. CASE Refused
    BY <2>2 DEF Refused
  <2>3. CASE Address
    BY <2>3 DEF Address
  <2>4. CASE LinkLost
    <3>1. CASE sta = "joined"
      BY <2>4, <3>1 DEF LinkLost
    <3>2. CASE sta = "up"
      BY <2>4, <3>2 DEF LinkLost
    <3> QED
      BY <2>4, <3>1, <3>2 DEF LinkLost
  <2> QED
    BY <1>8, <2>1, <2>2, <2>3, <2>4 DEF Attempt
<1>9. ASSUME NEW c \in Credentials, NEW ok \in BOOLEAN, Config(c, ok)
      PROVE  EventsFit'
  BY <1>9 DEF Config
<1>10. ASSUME NEW ok \in BOOLEAN, StoreKey(ok) PROVE EventsFit'
  BY <1>10 DEF StoreKey
<1>11. CASE UNCHANGED vars
  BY <1>11 DEF vars
<1> QED
  BY <1>1, <1>2, <1>3, <1>4, <1>5, <1>6, <1>7, <1>8, <1>9, <1>10, <1>11
  DEF Next, EventTask, HttpTask

(* Every step keeps the count of retries in line with the losses: when      *)
(* app_main's 1000 disturbs it, the bridge is no station any more.          *)
LEMMA StepCountFits == IInv /\ [Next]_vars => CountFits'
<1> SUFFICES ASSUME TasksOK, DriverOK, AttemptFits, EventsFit, CountFits,
                    [Next]_vars
             PROVE  CountFits'
  BY DEF IInv, TypeOK
<1> USE WifiAssumption DEF TasksOK, DriverOK, CountFits, Station
<1>1. ASSUME NEW kept \in {flash, NoCredentials}, Boot(kept) PROVE CountFits'
  BY <1>1 DEF Boot
<1>2. CASE PowerLost \/ Restart
  BY <1>2 DEF PowerLost, Restart, Halted
<1>3. CASE MainTask
  BY <1>3 DEF MainTask, JoinedInTime, GiveUp, FallBack, handler
<1>4. CASE HandleStart
  BY <1>4 DEF HandleStart, Handles, handler
<1>5. CASE HandleLost
  <2> SUFFICES ASSUME Station PROVE CountFits'
    BY <1>5 DEF HandleLost
  <2>1. "FAIL" \notin bits /\ ev = "idle" /\ losses = retries
    BY <1>5 DEF HandleLost, Handles
  <2>2. sta = "down" /\ Len(events) = 1
    BY <1>5, <2>1 DEF HandleLost, Handles, EventsFit, Posted
  <2>3. losses' = retries + 1 /\ Len(events') = 0
    BY <1>5, <2>1, <2>2 DEF HandleLost, Handles, Counted
  <2>4. CASE MayRetry
    BY <1>5, <2>1, <2>3, <2>4 DEF HandleLost, MayRetry
  <2>5. CASE ~MayRetry
    BY <1>5, <2>1, <2>2, <2>3, <2>5 DEF HandleLost, MayRetry
  <2> QED
    BY <2>4, <2>5
<1>6. CASE CountRetry
  <2> SUFFICES ASSUME Station PROVE CountFits'
    BY <1>6 DEF CountRetry
  <2>1. "FAIL" \notin bits /\ seen = retries /\ losses = retries + 1
    BY <1>6 DEF CountRetry
  <2>2. losses <= MaxRetries
    BY <1>6, <2>1 DEF CountRetry, AttemptFits
  <2>3. retries' = losses
    BY <1>6, <2>1 DEF CountRetry
  <2>4. ev' = "idle" /\ UNCHANGED <<main, losses, bits>>
    BY <1>6 DEF CountRetry
  <2> QED
    BY <2>1, <2>2, <2>3, <2>4
<1>7. CASE HandleIp
  BY <1>7 DEF HandleIp, Handles, Renewed
<1>8. CASE Attempt \/ Address \/ LinkLost
  BY <1>8 DEF Attempt, Associate, Refused, Address, LinkLost, handler
<1>9. ASSUME NEW c \in Credentials, NEW ok \in BOOLEAN, Config(c, ok)
      PROVE  CountFits'
  BY <1>9 DEF Config, handler
<1>10. ASSUME NEW ok \in BOOLEAN, StoreKey(ok) PROVE CountFits'
  BY <1>10 DEF StoreKey, handler
<1>11. CASE UNCHANGED vars
  BY <1>11 DEF vars, handler
<1> QED
  BY <1>1, <1>2, <1>3, <1>4, <1>5, <1>6, <1>7, <1>8, <1>9, <1>10, <1>11
  DEF Next, EventTask, HttpTask

(* Only /config's steps, a start and a loss of power touch what is stored.  *)
LEMMA StepSavingFits == SavingOK /\ SavingFits /\ [Next]_vars => SavingFits'
<1> SUFFICES ASSUME SavingOK, SavingFits, [Next]_vars PROVE SavingFits'
  OBVIOUS
<1> USE DEF SavingOK, SavingFits, Credentials, NoCredentials, saving
<1>1. ASSUME NEW kept \in {flash, NoCredentials}, Boot(kept) PROVE SavingFits'
  <2>1. CASE kept = flash
    BY <1>1, <2>1 DEF Boot
  <2>2. CASE kept # flash
    BY <1>1, <2>2 DEF Boot
  <2> QED
    BY <2>1, <2>2
<1>2. CASE PowerLost
  BY <1>2 DEF PowerLost, Halted
<1>3. CASE MainTask \/ EventTask \/ Attempt \/ Address \/ LinkLost
  BY <1>3
  DEF MainTask, JoinedInTime, GiveUp, FallBack, EventTask, HandleStart,
      HandleLost, CountRetry, HandleIp, Attempt, Associate, Refused, Address,
      LinkLost
<1>4. ASSUME NEW c \in Credentials, NEW ok \in BOOLEAN, Config(c, ok)
      PROVE  SavingFits'
  BY <1>4 DEF Config
<1>5. ASSUME NEW ok \in BOOLEAN, StoreKey(ok) PROVE SavingFits'
  <2>1. CASE ok /\ ~torn
    <3>1. flash' = [ssid |-> flash.ssid, pass |-> asked.pass]
      BY <1>5, <2>1 DEF StoreKey, WithKey
    <3>2. asked = [ssid |-> asked.ssid, pass |-> asked.pass]
      OBVIOUS
    <3> QED
      BY <1>5, <2>1, <3>1, <3>2 DEF StoreKey
  <2>2. CASE ~ok \/ torn
    BY <1>5, <2>2 DEF StoreKey
  <2> QED
    BY <2>1, <2>2
<1>6. CASE Restart
  BY <1>6 DEF Restart, Halted
<1>7. CASE UNCHANGED vars
  BY <1>7 DEF vars
<1> QED
  BY <1>1, <1>2, <1>3, <1>4, <1>5, <1>6, <1>7 DEF Next, HttpTask

(* The parts together are an invariant.                                     *)
THEOREM InductiveInvariant == Spec => []IInv
<1>1. IInv /\ [Next]_vars => IInv'
  BY StepTasksOK, StepDriverOK, StepSavingOK, StepEventsFit, StepCountFits,
     StepSavingFits
  DEF IInv, TypeOK
<1> QED
  BY InitIInv, <1>1, PTL DEF Spec

(* The bridge's state keeps its type, whatever the tasks overwrite.         *)
THEOREM TypeCorrect == Spec => []TypeOK
<1>1. IInv => TypeOK
  BY DEF IInv
<1> QED
  BY InductiveInvariant, <1>1, PTL

(* FAIL_BIT is set only after MaxRetries + 1 losses in a row.               *)
THEOREM GivesUpLateHolds == Spec => []GivesUpLate
<1>1. IInv => GivesUpLate
  BY DEF IInv, CountFits, GivesUpLate
<1> QED
  BY InductiveInvariant, <1>1, PTL

(* A station that is down and not given up will be told to connect.         *)
THEOREM KeepsTryingHolds == Spec => []KeepsTrying
<1>1. IInv => KeepsTrying
  BY DEF IInv, TypeOK, DriverOK, EventsFit, Posted, KeepsTrying, Station
<1> QED
  BY InductiveInvariant, <1>1, PTL

(* Name and password are stored together, or the interruption is known.     *)
THEOREM StoredAsAskedHolds == Spec => []StoredAsAsked
<1>1. IInv => StoredAsAsked
  BY DEF IInv, SavingFits, StoredAsAsked
<1> QED
  BY InductiveInvariant, <1>1, PTL

=============================================================================
