------------------------ MODULE RecordingAgentProofs ------------------------
(***************************************************************************)
(* Proofs about RecordingAgent for any number of cameras, any set of       *)
(* configurations, flags, time-outs and retry limit.                       *)
(***************************************************************************)
EXTENDS RecordingAgent, FiniteSetTheorems, TLAPS

-----------------------------------------------------------------------------
(* What the calls that start and stop a recorder do to the books.          *)

RecorderUnchanged == worker' = worker /\ status' = status /\ nRec' = nRec

RecorderStarted(c) ==
  /\ worker[c] = "none"
  /\ worker' = [worker EXCEPT ![c] = "alive"]
  /\ \E st \in SUBSET StatusFlags : status' = [status EXCEPT ![c] = st]
  /\ nRec' = nRec + 1

RecorderReleased(c) ==
  /\ worker[c] # "none"
  /\ worker' = [worker EXCEPT ![c] = "none"]
  /\ status' = [status EXCEPT ![c] = {}]
  /\ nRec' = IF nRec > 0 THEN nRec - 1 ELSE nRec

HelperTypes == meta' \in ProcessStates /\ space' \in ProcessStates

\* camera_recording_just_stopped releases one recorder and keeps the helpers well typed.
LEMMA JustStoppedEffect ==
  ASSUME TypeOK, NEW c \in Cameras, worker[c] # "none",
         NEW sp \in [ProcessStates -> ProcessStates],
         camera_recording_just_stopped(c, sp)
  PROVE  RecorderReleased(c) /\ HelperTypes
BY DEF TypeOK, camera_recording_just_stopped, handle_metarec, handle_space_monitor,
       RecorderReleased, HelperTypes, ProcessStates, Spawned

\* stop_recording_process releases the recorder of the camera, if there is one.
LEMMA StopEffect ==
  ASSUME TypeOK, NEW c \in Cameras, stop_recording_process(c)
  PROVE  /\ RecorderUnchanged \/ RecorderReleased(c)
         /\ HelperTypes
<1>1. CASE worker[c] = "none"
  BY <1>1 DEF TypeOK, stop_recording_process, RecorderUnchanged, HelperTypes
<1>2. CASE worker[c] # "none"
  <2> DEFINE sp == [s \in ProcessStates |-> stop_space_monitor(c, s)]
  <2>1. sp \in [ProcessStates -> ProcessStates]
    BY DEF stop_space_monitor, ProcessStates
  <2>2. camera_recording_just_stopped(c, sp)
    BY <1>2 DEF stop_recording_process
  <2> HIDE DEF sp
  <2>3. QED BY <1>2, <2>1, <2>2, JustStoppedEffect
<1>3. QED BY <1>1, <1>2

\* Resetting or advancing a retry counter below its limit keeps all counters in range.
LEMMA CountUp ==
  ASSUME NEW S, NEW N \in Nat, NEW f \in [S -> 0 .. N + 1], NEW k
  PROVE  /\ [f EXCEPT ![k] = 0] \in [S -> 0 .. N + 1]
         /\ ~(f[k] > N) => [f EXCEPT ![k] = @ + 1] \in [S -> 0 .. N + 1]
<1>1. CASE k \in S
  <2>1. f[k] \in 0 .. N + 1
    BY <1>1
  <2>2. ~(f[k] > N) => f[k] + 1 \in 0 .. N + 1
    BY <2>1
  <2>3. QED BY <1>1, <2>2
<1>2. CASE k \notin S
  BY <1>2
<1>3. QED BY <1>1, <1>2

\* start_recording_process starts at most the one recorder it is asked for, and
\* only if there is none.
LEMMA StartEffect ==
  ASSUME TypeOK, NEW c \in Cameras, start_recording_process(c)
  PROVE  /\ RecorderUnchanged \/ RecorderStarted(c)
         /\ HelperTypes
         /\ assigned' \subseteq assigned
         /\ mode' \in [Cameras -> SUBSET ModeFlags]
         /\ retry' \in [Slots -> 0 .. MaxRetries + 1]
<1> DEFINE RetryType == [Slots -> 0 .. MaxRetries + 1]
<1>t. /\ MaxRetries \in Nat
      /\ retry \in RetryType
      /\ mode \in [Cameras -> SUBSET ModeFlags]
      /\ worker \in [Cameras -> ProcessStates]
      /\ status \in [Cameras -> SUBSET StatusFlags]
      /\ meta \in ProcessStates
      /\ space \in ProcessStates
  BY ConstantsAssumption DEF TypeOK
<1>0. CommandedMode(c) \in SUBSET ModeFlags
  BY <1>t DEF CommandedMode, ModeFlags, StatusFlags, ChmFlags, SsdFlags
<1>r. /\ [retry EXCEPT ![SlotOf(c)] = 0] \in RetryType
      /\ ~(retry[SlotOf(c)] > MaxRetries) => [retry EXCEPT ![SlotOf(c)] = @ + 1] \in RetryType
  BY <1>t, CountUp
<1> HIDE DEF RetryType
<1>g. /\ RecorderUnchanged \/ RecorderStarted(c)
      /\ HelperTypes
      /\ assigned' \subseteq assigned
      /\ mode' \in [Cameras -> SUBSET ModeFlags]
      /\ retry' \in RetryType
  <2>1. CASE retry[SlotOf(c)] > MaxRetries
    BY <1>t, <2>1 DEF start_recording_process, RecorderUnchanged, HelperTypes
  <2>2. CASE /\ ~(retry[SlotOf(c)] > MaxRetries)
             /\ "CHM_VIDEO" \in CommandedMode(c) /\ "CHM" \notin ready
    BY <1>t, <1>0, <1>r, <2>2 DEF start_recording_process, RecorderUnchanged, HelperTypes
  <2>3. CASE /\ ~(retry[SlotOf(c)] > MaxRetries)
             /\ ~("CHM_VIDEO" \in CommandedMode(c) /\ "CHM" \notin ready)
    <3>1. Launch(c) /\ assigned' = assigned
      BY <2>3 DEF start_recording_process
    <3>2. mode' \in [Cameras -> SUBSET ModeFlags]
      BY <1>t, <1>0, <3>1 DEF Launch
    <3>3. meta' \in ProcessStates
      BY <1>t, <3>1 DEF Launch, handle_metarec, Spawned, ProcessStates
    <3>4. PICK m : NeedsRecorder(c) => SpawnSucceeds(c, m) \/ SpawnFails(c)
      BY <3>1 DEF Launch
    <3>5. CASE NeedsRecorder(c) /\ SpawnSucceeds(c, m)
      <4>1. StatusOf(m) \in SUBSET StatusFlags
        BY DEF StatusOf
      <4>2. space' \in ProcessStates
        BY <1>t, <3>5 DEF SpawnSucceeds, handle_space_monitor, stop_space_monitor,
                          Spawned, ProcessStates
      <4>3. RecorderStarted(c) /\ retry' \in RetryType
        BY <1>r, <3>5, <4>1 DEF SpawnSucceeds, NeedsRecorder, RecorderStarted
      <4>4. QED BY <3>1, <3>2, <3>3, <4>2, <4>3 DEF HelperTypes
    <3>6. CASE NeedsRecorder(c) /\ SpawnFails(c)
      <4>1. RecorderUnchanged /\ retry' \in RetryType
        BY <1>r, <2>3, <3>6 DEF SpawnFails, RecorderUnchanged
      <4>2. space' \in ProcessStates
        BY <1>t, <3>6 DEF SpawnFails, handle_space_monitor, Spawned, ProcessStates
      <4>3. QED BY <3>1, <3>2, <3>3, <4>1, <4>2 DEF HelperTypes
    <3>7. CASE ~NeedsRecorder(c)
      <4>1. RecorderUnchanged /\ retry' \in RetryType
        BY <1>t, <3>1, <3>7 DEF Launch, SpawnNotNeeded, RecorderUnchanged
      <4>2. space' \in ProcessStates
        BY <1>t, <3>1, <3>7 DEF Launch, SpawnNotNeeded, handle_space_monitor, Spawned, ProcessStates
      <4>3. QED BY <3>1, <3>2, <3>3, <4>1, <4>2 DEF HelperTypes
    <3>8. QED BY <3>4, <3>5, <3>6, <3>7
  <2>4. QED BY <2>1, <2>2, <2>3
<1>q. QED BY <1>g DEF RetryType

-----------------------------------------------------------------------------
(* Every call made from a handler or a visit is a call on one camera.      *)

RecorderCall(c) ==
  /\ RecorderUnchanged \/ RecorderStarted(c) \/ RecorderReleased(c)
  /\ HelperTypes
  /\ assigned' \subseteq assigned
  /\ mode' \in [Cameras -> SUBSET ModeFlags]
  /\ retry' \in [Slots -> 0 .. MaxRetries + 1]

\* The flags and retry counters that a call leaves alone stay well typed.
LEMMA CallKeepsRest ==
  ASSUME TypeOK, NEW c \in Cameras,
         RecorderUnchanged \/ RecorderReleased(c), HelperTypes,
         UNCHANGED <<assigned, mode, retry>>
  PROVE  RecorderCall(c)
<1>1. mode \in [Cameras -> SUBSET ModeFlags] /\ retry \in [Slots -> 0 .. MaxRetries + 1]
  BY DEF TypeOK
<1>2. QED BY <1>1 DEF RecorderCall

\* A step that leaves recorders, flags and helpers alone is a call without effect.
LEMMA NoCall ==
  ASSUME TypeOK, NEW c \in Cameras,
         UNCHANGED <<assigned, mode, status, worker, nRec, meta, space, retry>>
  PROVE  RecorderCall(c)
<1>1. RecorderUnchanged /\ HelperTypes
  BY DEF TypeOK, RecorderUnchanged, HelperTypes
<1>2. QED BY <1>1, CallKeepsRest

\* The pause and record commands make at most one call, on the camera they name.
LEMMA CommandEffect ==
  ASSUME TypeOK, NEW c \in Cameras, NEW record \in BOOLEAN,
         handle_camera_record_pause(c, record)
  PROVE  RecorderCall(c) /\ paused' \subseteq Cameras
<1>t. paused \subseteq Cameras /\ mode \in [Cameras -> SUBSET ModeFlags]
      /\ retry \in [Slots -> 0 .. MaxRetries + 1]
  BY DEF TypeOK
<1>1. CASE PauseCamera(c)
  <2>1. stop_recording_process(c)
    BY <1>1 DEF PauseCamera
  <2>2. (RecorderUnchanged \/ RecorderReleased(c)) /\ HelperTypes
    BY <2>1, StopEffect
  <2>3. mode' \in [Cameras -> SUBSET ModeFlags] /\ retry' = retry /\ assigned' = assigned
        /\ paused' \subseteq Cameras
    BY <1>1, <1>t DEF PauseCamera
  <2>4. QED BY <1>t, <2>2, <2>3 DEF RecorderCall
<1>2. CASE RecordCamera(c)
  <2>1. start_recording_process(c) /\ paused' \subseteq Cameras
    BY <1>2, <1>t DEF RecordCamera
  <2>2. QED BY <2>1, StartEffect DEF RecorderCall
<1>3. CASE KeepRecordState
  BY <1>3, <1>t, NoCall DEF KeepRecordState
<1>4. PauseCamera(c) \/ RecordCamera(c) \/ KeepRecordState
  BY DEF handle_camera_record_pause
<1>5. QED BY <1>1, <1>2, <1>3, <1>4

\* Resetting a per-slot timer keeps all timers in range.
LEMMA TimerReset ==
  ASSUME NEW S, NEW T, NEW f \in [S -> T], NEW k, NEW v \in T
  PROVE  [f EXCEPT ![k] = v] \in [S -> T]
OBVIOUS

\* camon_ttl counts down to 1 and no further.
LEMMA CamonCountdown ==
  ASSUME TypeOK, NEW c, NEW i, StaysAsIs(c, i),
         ~(c \notin reported /\ c \in online /\ camonTTL[i] <= 1)
  PROVE  camonTTL' \in [Slots -> 1 .. CamonTTL]
<1>t. camonTTL \in [Slots -> 1 .. CamonTTL] /\ CamonTTL \in Nat \ {0}
  BY ConstantsAssumption DEF TypeOK
<1>1. CASE i \in Slots
  <2>1. camonTTL[i] \in 1 .. CamonTTL
    BY <1>1, <1>t
  <2>2. (IF c \in reported THEN CamonTTL ELSE IF c \in online THEN camonTTL[i] - 1
         ELSE camonTTL[i]) \in 1 .. CamonTTL
    BY <1>t, <2>1
  <2>3. QED BY <1>t, <2>2 DEF StaysAsIs
<1>2. CASE i \notin Slots
  BY <1>2, <1>t DEF StaysAsIs
<1>3. QED BY <1>1, <1>2

\* A visit of the scan loop makes at most one call, on the camera visited.
LEMMA ScanEffect ==
  ASSUME TypeOK, StatusHasRecorder, NEW c \in Cameras, NEW i,
         reflect_camera_online_status(c, i)
  PROVE  /\ RecorderCall(c)
         /\ online' \subseteq Cameras
         /\ camonTTL' \in [Slots -> 1 .. CamonTTL]
<1>t. /\ online \subseteq Cameras
      /\ camonTTL \in [Slots -> 1 .. CamonTTL]
      /\ CamonTTL \in 1 .. CamonTTL
      /\ worker \in [Cameras -> ProcessStates]
  BY ConstantsAssumption DEF TypeOK
<1>1. CASE GoesOffline(c, i)
  <2>1. online' \subseteq Cameras /\ camonTTL' \in [Slots -> 1 .. CamonTTL]
    BY <1>1, <1>t, TimerReset DEF GoesOffline
  <2>2. UNCHANGED <<assigned, mode, retry>>
    BY <1>1 DEF GoesOffline
  <2>3. CASE status[c] = {}
    BY <1>1, <2>1, <2>3, NoCall DEF GoesOffline
  <2>4. CASE status[c] # {} /\ worker[c] = "dead"
    <3>1. KeepSpace \in [ProcessStates -> ProcessStates]
      BY DEF KeepSpace
    <3>2. camera_recording_just_stopped(c, KeepSpace)
      BY <1>1, <2>4 DEF GoesOffline
    <3>3. QED BY <2>1, <2>2, <2>4, <3>1, <3>2, JustStoppedEffect, CallKeepsRest
  <2>5. CASE status[c] # {} /\ worker[c] = "alive"
    <3>1. stop_recording_process(c)
      BY <1>1, <2>5 DEF GoesOffline
    <3>2. QED BY <2>1, <2>2, <3>1, StopEffect, CallKeepsRest
  <2>6. status[c] # {} => worker[c] = "dead" \/ worker[c] = "alive"
    BY <1>t DEF StatusHasRecorder, ProcessStates
  <2>7. QED BY <2>3, <2>4, <2>5, <2>6
<1>2. CASE GoesOnline(c, i)
  <2>1. online' \subseteq Cameras /\ camonTTL' \in [Slots -> 1 .. CamonTTL]
    BY <1>2, <1>t, TimerReset DEF GoesOnline
  <2>2. CASE mode[c] # {} /\ worker[c] = "dead"
    BY <1>2, <2>1, <2>2, StartEffect DEF GoesOnline, RecorderCall
  <2>3. CASE ~(mode[c] # {} /\ worker[c] = "dead")
    BY <1>2, <2>1, <2>3, NoCall DEF GoesOnline
  <2>4. QED BY <2>2, <2>3
<1>3. CASE /\ StaysAsIs(c, i)
           /\ ~(c \notin reported /\ c \in online /\ camonTTL[i] <= 1)
  BY <1>3, <1>t, CamonCountdown, NoCall DEF StaysAsIs
<1>4. QED BY <1>1, <1>2, <1>3 DEF reflect_camera_online_status

\* A visit of the watch loop makes at most one call, on the camera visited.
LEMMA WatchEffect ==
  ASSUME TypeOK, NEW c \in Cameras, NEW i, watch(c, i)
  PROVE  /\ RecorderCall(c)
         /\ online' \subseteq Cameras
         /\ rpTTL' \in [Slots -> -1 .. 2 * CamonTTL + 1]
<1>t. /\ online \subseteq Cameras
      /\ rpTTL \in [Slots -> -1 .. 2 * CamonTTL + 1]
      /\ CamonTTL \in Nat \ {0}
      /\ 0 \in -1 .. 2 * CamonTTL + 1
      /\ worker \in [Cameras -> ProcessStates]
  BY ConstantsAssumption DEF TypeOK
<1>r. [rpTTL EXCEPT ![i] = 0] \in [Slots -> -1 .. 2 * CamonTTL + 1]
  BY <1>t, TimerReset
<1>1. CASE mode[c] # {} /\ worker[c] # "none"
  <2>1. rpTTL' \in [Slots -> -1 .. 2 * CamonTTL + 1]
    BY <1>1, <1>r DEF watch
  <2>2. CASE worker[c] = "dead"
    <3>1. BuryRecorder(c)
      BY <1>1, <2>2 DEF watch
    <3>2. KeepSpace \in [ProcessStates -> ProcessStates]
      BY DEF KeepSpace
    <3>3. RecorderReleased(c) /\ HelperTypes
      BY <1>1, <3>1, <3>2, JustStoppedEffect DEF BuryRecorder
    <3>4. UNCHANGED <<assigned, mode, retry>> /\ online' \subseteq Cameras
      BY <1>t, <3>1 DEF BuryRecorder
    <3>5. QED BY <2>1, <3>3, <3>4, CallKeepsRest
  <2>3. CASE worker[c] # "dead"
    <3>1. UNCHANGED <<online, assigned, mode, status, worker, nRec, meta, space, retry>>
      BY <1>1, <2>3 DEF watch
    <3>2. QED BY <1>t, <2>1, <3>1, NoCall
  <2>4. QED BY <2>2, <2>3
<1>2. CASE mode[c] # {} /\ worker[c] = "none" /\ c \in online /\ c \in assigned
  <2>1. CASE rpTTL[i] > 2 * CamonTTL
    <3>1. /\ rpTTL' = [rpTTL EXCEPT ![i] = 0]
          /\ start_recording_process(c)
          /\ online' = online
      BY <1>2, <2>1 DEF watch
    <3>2. QED BY <1>t, <1>r, <3>1, StartEffect DEF RecorderCall
  <2>2. CASE ~(rpTTL[i] > 2 * CamonTTL)
    <3>1. WaitedLonger(i) /\ UNCHANGED <<online, assigned, mode, status, worker, nRec, meta, space, retry>>
      BY <1>2, <2>2 DEF watch
    <3>2. rpTTL' \in [Slots -> -1 .. 2 * CamonTTL + 1]
      <4>1. CASE i \in Slots
        <5>1. rpTTL[i] \in -1 .. 2 * CamonTTL + 1
          BY <1>t, <4>1
        <5>2. rpTTL[i] + 1 \in -1 .. 2 * CamonTTL + 1
          BY <1>t, <2>2, <5>1
        <5>3. QED BY <1>t, <3>1, <5>2 DEF WaitedLonger
      <4>2. CASE i \notin Slots
        BY <1>t, <3>1, <4>2 DEF WaitedLonger
      <4>3. QED BY <4>1, <4>2
    <3>3. QED BY <1>t, <3>1, <3>2, NoCall
  <2>3. QED BY <2>1, <2>2
<1>3. CASE /\ ~(mode[c] # {} /\ worker[c] # "none")
           /\ ~(mode[c] # {} /\ worker[c] = "none" /\ c \in online /\ c \in assigned)
  <2>1. UNCHANGED <<rpTTL, online, assigned, mode, status, worker, nRec, meta, space, retry>>
    BY <1>3 DEF watch
  <2>2. QED BY <1>t, <2>1, NoCall
<1>4. QED BY <1>1, <1>2, <1>3

-----------------------------------------------------------------------------
(* The inductive invariant: types together with StatusHasRecorder, which   *)
(* the scan loop relies on when it decides what to do with a recorder.     *)

IInv == TypeOK /\ StatusHasRecorder

\* The state of the process books after a call on one camera.
LEMMA CallPreserves ==
  ASSUME TypeOK, StatusHasRecorder, NEW c \in Cameras, RecorderCall(c)
  PROVE  /\ worker' \in [Cameras -> ProcessStates]
         /\ status' \in [Cameras -> SUBSET StatusFlags]
         /\ nRec' \in Nat
         /\ assigned' \subseteq Cameras
         /\ StatusHasRecorder'
<1>t. /\ worker \in [Cameras -> ProcessStates]
      /\ status \in [Cameras -> SUBSET StatusFlags]
      /\ nRec \in Nat
      /\ assigned \subseteq Cameras
  BY DEF TypeOK
<1>1. CASE RecorderUnchanged
  BY <1>t, <1>1 DEF RecorderCall, RecorderUnchanged, StatusHasRecorder
<1>2. CASE RecorderStarted(c)
  BY <1>t, <1>2 DEF RecorderCall, RecorderStarted, StatusHasRecorder, ProcessStates
<1>3. CASE RecorderReleased(c)
  BY <1>t, <1>3 DEF RecorderCall, RecorderReleased, StatusHasRecorder, ProcessStates
<1>4. QED BY <1>1, <1>2, <1>3 DEF RecorderCall

\* Everything else a call step may change, given the call itself.
LEMMA CallStep ==
  ASSUME IInv, NEW c \in Cameras, RecorderCall(c),
         UNCHANGED <<order, orphans, ready, shutdown, forkOK>>,
         online' \subseteq Cameras, paused' \subseteq Cameras,
         rpTTL' \in [Slots -> -1 .. 2 * CamonTTL + 1],
         camonTTL' \in [Slots -> 1 .. CamonTTL],
         pass' = pass, reported' = reported,
         pc' \in [at : {"idle", "scan", "watch", "reset"}, i : Nat \ {0}, n : Nat, cam : SUBSET Cameras]
  PROVE  IInv'
<1>1. /\ worker' \in [Cameras -> ProcessStates]
      /\ status' \in [Cameras -> SUBSET StatusFlags]
      /\ nRec' \in Nat
      /\ assigned' \subseteq Cameras
      /\ StatusHasRecorder'
  BY CallPreserves DEF IInv
<1>2. /\ mode' \in [Cameras -> SUBSET ModeFlags]
      /\ retry' \in [Slots -> 0 .. MaxRetries + 1]
      /\ meta' \in ProcessStates
      /\ space' \in ProcessStates
  BY DEF RecorderCall, HelperTypes
<1>3. /\ order' \in Seq(Cameras)
      /\ Len(order') <= Cardinality(Cameras)
      /\ orphans' \subseteq Cameras
      /\ ready' \subseteq Drives
      /\ shutdown' \in BOOLEAN
      /\ pass' \in {"tx", "rx"}
      /\ reported' \subseteq Cameras
      /\ forkOK' \in BOOLEAN
  BY DEF IInv, TypeOK
<1>4. QED BY <1>1, <1>2, <1>3 DEF IInv, TypeOK

\* The invariant holds once raconf_init has run.
LEMMA InitIInv == Init => IInv
<1> SUFFICES ASSUME Init PROVE IInv
  OBVIOUS
<1>1. PICK cfg \in Configs : order = cfg.order /\ assigned = cfg.assigned
  BY DEF Init
<1>2. IsConfig(cfg)
  BY ConstantsAssumption
<1>3. order \in Seq(Cameras) /\ Len(order) <= Cardinality(Cameras) /\ assigned \subseteq Cameras
  BY <1>1, <1>2 DEF IsConfig
<1>4. /\ retry \in [Slots -> 0 .. MaxRetries + 1]
      /\ rpTTL \in [Slots -> -1 .. 2 * CamonTTL + 1]
      /\ camonTTL \in [Slots -> 1 .. CamonTTL]
  BY ConstantsAssumption DEF Init
<1>5. pc \in [at : {"idle", "scan", "watch", "reset"}, i : Nat \ {0}, n : Nat, cam : SUBSET Cameras]
  BY DEF Init, Idle
<1>6. ready \subseteq Drives
  BY ConstantsAssumption DEF Init
<1>7. QED BY <1>3, <1>4, <1>5, <1>6 DEF Init, IInv, TypeOK, StatusHasRecorder, ProcessStates

PcType == [at : {"idle", "scan", "watch", "reset"}, i : Nat \ {0}, n : Nat, cam : SUBSET Cameras]

\* Moving the loop's position keeps the loop's state well typed.
LEMMA PcMoves ==
  ASSUME NEW p \in PcType, NEW k \in Nat \ {0}
  PROVE  [p EXCEPT !.i = k] \in PcType
BY DEF PcType

\* Every PTC message handler keeps the invariant.
LEMMA MessagesPreserve == IInv /\ Messages => IInv'
<1> SUFFICES ASSUME IInv, Messages PROVE IInv'
  OBVIOUS
<1>t. TypeOK /\ StatusHasRecorder
  BY DEF IInv
<1>u. /\ online \subseteq Cameras
      /\ paused \subseteq Cameras
      /\ rpTTL \in [Slots -> -1 .. 2 * CamonTTL + 1]
      /\ camonTTL \in [Slots -> 1 .. CamonTTL]
      /\ pc \in PcType
      /\ Idle \in PcType
  BY <1>t DEF TypeOK, PcType, Idle
<1>v. /\ mode \in [Cameras -> SUBSET ModeFlags]
      /\ status \in [Cameras -> SUBSET StatusFlags]
      /\ ready \subseteq Drives
      /\ shutdown \in BOOLEAN
  BY <1>t DEF TypeOK
<1>1. ASSUME NEW c \in Cameras, NEW record \in BOOLEAN, CameraRecordPause(c, record)
      PROVE  IInv'
  <2>1. handle_camera_record_pause(c, record)
    BY <1>1 DEF CameraRecordPause
  <2>2. RecorderCall(c) /\ paused' \subseteq Cameras
    BY <1>t, <2>1, CommandEffect
  <2>3. /\ UNCHANGED <<order, orphans, ready, shutdown, forkOK>>
        /\ UNCHANGED <<online, rpTTL, camonTTL, pass, reported, pc>>
    BY <1>1 DEF CameraRecordPause, timerVars
  <2>4. QED BY <1>u, <2>2, <2>3, CallStep DEF PcType
<1>2. ASSUME NEW c \in Cameras, ResetCameraStream(c)
      PROVE  IInv'
  <2>1. handle_camera_record_pause(c, FALSE)
    BY <1>2 DEF ResetCameraStream
  <2>2. RecorderCall(c) /\ paused' \subseteq Cameras
    BY <1>t, <2>1, CommandEffect
  <2>3. /\ UNCHANGED <<order, orphans, ready, shutdown, forkOK>>
        /\ UNCHANGED <<online, rpTTL, camonTTL, pass, reported>>
    BY <1>2 DEF ResetCameraStream, timerVars
  <2>4. pc' \in PcType
    BY <1>2, <1>u DEF ResetCameraStream, Idle, PcType
  <2>5. QED BY <1>u, <2>2, <2>3, <2>4, CallStep DEF PcType
<1>3. CASE ResumeCameraStream
  <2>1. PICK c \in pc.cam : handle_camera_record_pause(c, TRUE)
    BY <1>3 DEF ResumeCameraStream
  <2>2. c \in Cameras
    BY <1>u, <2>1 DEF PcType
  <2>3. RecorderCall(c) /\ paused' \subseteq Cameras
    BY <1>t, <2>1, <2>2, CommandEffect
  <2>4. /\ UNCHANGED <<order, orphans, ready, shutdown, forkOK>>
        /\ UNCHANGED <<online, rpTTL, camonTTL, pass, reported>>
        /\ pc' = Idle
    BY <1>3 DEF ResumeCameraStream, timerVars
  <2>5. QED BY <1>u, <2>2, <2>3, <2>4, CallStep DEF PcType
<1>4. ASSUME NEW drives \in DriveSets, ReadyStatus(drives)
      PROVE  IInv'
  <2>1. mode' \in [Cameras -> SUBSET ModeFlags] /\ ready' \subseteq Drives
    BY <1>4, <1>v, ConstantsAssumption DEF ReadyStatus, DriveFlags, ModeFlags
  <2>2. status' \in [Cameras -> SUBSET StatusFlags]
    BY <1>4, <1>v DEF ReadyStatus, StatusOf
  <2>3. StatusHasRecorder'
    BY <1>4, <1>t DEF ReadyStatus, StatusHasRecorder, procVars
  <2>4. QED
    BY <1>4, <1>t, <2>1, <2>2, <2>3
       DEF ReadyStatus, IInv, TypeOK, configVars, procVars, helperVars, timerVars
<1>5. ASSUME NEW drives \in {{"CHM"}, {"SSD"}, Drives}, Shutdown(drives)
      PROVE  IInv'
  <2>1. mode' \in [Cameras -> SUBSET ModeFlags] /\ ready' \subseteq Drives /\ shutdown' \in BOOLEAN
    BY <1>5, <1>v DEF Shutdown
  <2>2. status' \in [Cameras -> SUBSET StatusFlags]
    BY <1>5, <1>v DEF Shutdown
  <2>3. StatusHasRecorder'
    BY <1>5, <1>t, <1>v DEF Shutdown, StatusHasRecorder, procVars
  <2>4. QED
    BY <1>5, <1>t, <2>1, <2>2, <2>3
       DEF Shutdown, IInv, TypeOK, configVars, procVars, helperVars, timerVars
<1>6. ASSUME NEW c \in Cameras, NEW msg \in SettingsMsgs, CameraSettings(c, msg)
      PROVE  IInv'
  <2>1. mode' \in [Cameras -> SUBSET ModeFlags]
    BY <1>6, <1>v DEF CameraSettings, AudioFlags, ChmFlags, SsdFlags, StatusFlags, ModeFlags
  <2>2. QED
    BY <1>6, <1>t, <2>1
       DEF CameraSettings, IInv, TypeOK, StatusHasRecorder, configVars, procVars, helperVars, timerVars
<1>7. QED BY <1>1, <1>2, <1>3, <1>4, <1>5, <1>6 DEF Messages

\* The two passes of the 1 Hz callback, up to its loops, keep the invariant.
LEMMA TickPreserves == IInv /\ Tick => IInv'
<1> SUFFICES ASSUME IInv, Tick PROVE IInv'
  OBVIOUS
<1>n. Len(order) \in Nat
  BY DEF IInv, TypeOK
<1>1. CASE TickTransmit
  <2>1. pc' \in PcType
    BY <1>1, <1>n DEF TickTransmit, PcType
  <2>2. QED
    BY <1>1, <2>1 DEF TickTransmit, IInv, TypeOK, PcType, StatusHasRecorder,
                      configVars, flagVars, procVars, helperVars
<1>2. ASSUME NEW alive \in SUBSET Cameras, TickReceive(alive)
      PROVE  IInv'
  <2>1. pc' \in PcType
    BY <1>2, <1>n DEF TickReceive, PcType
  <2>2. QED
    BY <1>2, <2>1 DEF TickReceive, IInv, TypeOK, PcType, StatusHasRecorder,
                      configVars, flagVars, procVars, helperVars
<1>3. QED BY <1>1, <1>2 DEF Tick

\* A visit of one camera by the scan loop or the watch loop keeps the invariant.
LEMMA VisitPreserves == IInv /\ Visit => IInv'
<1> SUFFICES ASSUME IInv, Visit PROVE IInv'
  OBVIOUS
<1>t. TypeOK /\ StatusHasRecorder
  BY DEF IInv
<1>u. /\ online \subseteq Cameras
      /\ paused \subseteq Cameras
      /\ rpTTL \in [Slots -> -1 .. 2 * CamonTTL + 1]
      /\ camonTTL \in [Slots -> 1 .. CamonTTL]
      /\ pc \in PcType
      /\ order \in Seq(Cameras)
  BY <1>t DEF TypeOK, PcType
<1>p. [pc EXCEPT !.i = @ + 1] \in PcType
  <2>1. pc.i + 1 \in Nat \ {0}
    BY <1>u DEF PcType
  <2>2. QED BY <1>u, <2>1, PcMoves
<1>1. CASE ScanCamera
  <2>1. /\ UNCHANGED <<order, orphans, ready, shutdown, forkOK>>
        /\ UNCHANGED <<paused, rpTTL, pass, reported>>
        /\ pc' \in PcType
    BY <1>1, <1>p DEF ScanCamera, NextVisit
  <2>2. CASE pc.i <= Len(order) /\ order[pc.i] \in assigned
    <3>1. order[pc.i] \in Cameras
      BY <1>t, <2>2 DEF TypeOK
    <3>2. reflect_camera_online_status(order[pc.i], pc.i)
      BY <1>1, <2>2 DEF ScanCamera
    <3>3. /\ RecorderCall(order[pc.i])
          /\ online' \subseteq Cameras
          /\ camonTTL' \in [Slots -> 1 .. CamonTTL]
      BY <1>t, <3>1, <3>2, ScanEffect
    <3>4. QED BY <1>u, <2>1, <3>1, <3>3, CallStep DEF PcType
  <2>3. CASE ~(pc.i <= Len(order) /\ order[pc.i] \in assigned)
    <3>1. UNCHANGED <<online, assigned, mode, status, worker, nRec, meta, space, retry, camonTTL>>
      BY <1>1, <2>3 DEF ScanCamera
    <3>2. QED BY <1>t, <2>1, <3>1 DEF IInv, TypeOK, StatusHasRecorder, PcType
  <2>4. QED BY <2>2, <2>3
<1>2. CASE ScanDone
  <2>1. pc' \in PcType
    BY <1>2, <1>u DEF ScanDone, PcType
  <2>2. QED
    BY <1>2, <1>t, <2>1 DEF ScanDone, IInv, TypeOK, PcType, StatusHasRecorder,
                            configVars, flagVars, procVars, helperVars
<1>3. CASE WatchCamera
  <2>1. /\ UNCHANGED <<order, orphans, ready, shutdown, forkOK>>
        /\ UNCHANGED <<paused, camonTTL, pass, reported>>
        /\ pc' \in PcType
    BY <1>3, <1>p DEF WatchCamera, NextVisit
  <2>2. CASE pc.i \in 1 .. Len(order)
    <3>1. order[pc.i] \in Cameras
      BY <1>u, <2>2
    <3>2. watch(order[pc.i], pc.i)
      BY <1>3, <2>2, <1>u DEF WatchCamera, PcType
    <3>3. /\ RecorderCall(order[pc.i])
          /\ online' \subseteq Cameras
          /\ rpTTL' \in [Slots -> -1 .. 2 * CamonTTL + 1]
      BY <1>t, <3>1, <3>2, WatchEffect
    <3>4. QED BY <1>u, <2>1, <3>1, <3>3, CallStep DEF PcType
  <2>3. CASE pc.i > Len(order)
    <3>1. UNCHANGED <<rpTTL, online, assigned, mode, status, worker, nRec, meta, space, retry>>
      BY <1>3, <2>3, <1>u DEF WatchCamera, PcType
    <3>2. QED BY <1>t, <2>1, <3>1 DEF IInv, TypeOK, StatusHasRecorder, PcType
  <2>4. QED BY <2>2, <2>3, <1>u DEF PcType
<1>4. CASE WatchDone
  <2>1. pc' \in PcType
    BY <1>4 DEF WatchDone, Idle, PcType
  <2>2. meta' \in ProcessStates /\ space' \in ProcessStates
    BY <1>4, <1>t DEF WatchDone, TypeOK, handle_metarec, handle_space_monitor, Spawned, ProcessStates
  <2>3. QED
    BY <1>4, <1>t, <2>1, <2>2 DEF WatchDone, IInv, TypeOK, PcType, StatusHasRecorder,
                                  configVars, flagVars, procVars, timerVars
<1>5. QED BY <1>1, <1>2, <1>3, <1>4 DEF Visit

\* A reload, a dying process and a failing fork keep the invariant.
LEMMA EnvironmentPreserves == IInv /\ Environment => IInv'
<1> SUFFICES ASSUME IInv, Environment PROVE IInv'
  OBVIOUS
<1>t. TypeOK /\ StatusHasRecorder
  BY DEF IInv
<1>v. /\ mode \in [Cameras -> SUBSET ModeFlags]
      /\ status \in [Cameras -> SUBSET StatusFlags]
      /\ worker \in [Cameras -> ProcessStates]
      /\ orphans \subseteq Cameras
      /\ meta \in ProcessStates
      /\ space \in ProcessStates
      /\ nRec \in Nat
      /\ order \in Seq(Cameras)
  BY <1>t DEF TypeOK
<1>1. ASSUME NEW cfg \in Configs, Reload(cfg)
      PROVE  IInv'
  <2> DEFINE kept    == Configured \cap {cfg.order[i] : i \in 1 .. Len(cfg.order)}
             stopped == StoppedByReload(kept, cfg)
  <2>1. IsConfig(cfg)
    BY ConstantsAssumption
  <2>2. /\ order' \in Seq(Cameras)
        /\ Len(order') <= Cardinality(Cameras)
        /\ assigned' \subseteq Cameras
    BY <1>1, <2>1 DEF Reload, IsConfig
  <2>3. Configured \subseteq Cameras
    BY <1>v DEF Configured
  <2>4. online' \subseteq Cameras /\ paused' \subseteq Cameras /\ orphans' \subseteq Cameras
    BY <1>1, <1>v, <2>3 DEF Reload
  <2>5. mode' \in [Cameras -> SUBSET ModeFlags] /\ status' \in [Cameras -> SUBSET StatusFlags]
    BY <1>1, <1>v DEF Reload
  <2>6. worker' \in [Cameras -> ProcessStates]
    BY <1>1, <1>v DEF Reload, ProcessStates
  <2>7. IsFiniteSet(stopped)
    BY ConstantsAssumption, <2>3, FS_Subset DEF StoppedByReload
  <2>8. nRec' \in Nat
    <3>1. Cardinality(stopped) \in Nat
      BY <2>7, FS_CardinalityType
    <3>2. nRec' = RestoredCount(stopped)
      BY <1>1 DEF Reload
    <3> HIDE DEF stopped
    <3>3. QED BY <1>v, <3>1, <3>2 DEF RestoredCount
  <2>9. meta' \in ProcessStates /\ space' \in ProcessStates
    BY <1>1, <1>v DEF Reload, helperVars, handle_metarec, Spawned, ProcessStates
  <2>10. StatusHasRecorder'
    <3>1. status' = [c \in Cameras |-> IF c \in kept \cap cfg.assigned THEN status[c] ELSE {}]
      BY <1>1 DEF Reload
    <3>2. worker' = [c \in Cameras |-> IF c \in kept \ stopped THEN worker[c] ELSE "none"]
      BY <1>1 DEF Reload
    <3>3. (kept \cap cfg.assigned) \subseteq (kept \ stopped)
      BY DEF StoppedByReload
    <3> HIDE DEF kept, stopped
    <3>4. QED BY <1>t, <3>1, <3>2, <3>3 DEF StatusHasRecorder
  <2>11. UNCHANGED <<ready, shutdown, retry, timerVars, pc, forkOK>>
    BY <1>1 DEF Reload
  <2>12. QED
    BY <1>t, <2>2, <2>4, <2>5, <2>6, <2>8, <2>9, <2>10, <2>11 DEF IInv, TypeOK, timerVars
<1>2. ASSUME NEW c \in Cameras, RecorderDies(c)
      PROVE  IInv'
  <2>1. worker' \in [Cameras -> ProcessStates] /\ StatusHasRecorder'
    BY <1>2, <1>t, <1>v DEF RecorderDies, StatusHasRecorder, ProcessStates, flagVars
  <2>2. QED
    BY <1>2, <1>t, <2>1 DEF RecorderDies, IInv, TypeOK, configVars, flagVars, helperVars, timerVars
<1>3. CASE HelperDies
  <2>1. meta' \in ProcessStates /\ space' \in ProcessStates
    BY <1>3, <1>v DEF HelperDies, ProcessStates
  <2>2. QED
    BY <1>3, <1>t, <2>1 DEF HelperDies, IInv, TypeOK, StatusHasRecorder,
                            configVars, flagVars, procVars, timerVars
<1>4. ASSUME NEW c \in Cameras, OrphanDies(c)
      PROVE  IInv'
  BY <1>4, <1>t DEF OrphanDies, IInv, TypeOK, StatusHasRecorder,
                    configVars, flagVars, helperVars, timerVars
<1>5. CASE ForkAbilityChanges
  BY <1>5, <1>t DEF ForkAbilityChanges, IInv, TypeOK, StatusHasRecorder,
                    configVars, flagVars, procVars, helperVars, timerVars
<1>6. QED BY <1>1, <1>2, <1>3, <1>4, <1>5 DEF Environment

\* Every state the supervisor reaches is well typed and every camera it calls
\* recording has a recorder, for any number of cameras and any configurations.
THEOREM Invariance == Spec => []IInv
<1>1. IInv /\ UNCHANGED vars => IInv'
  BY DEF vars, IInv, TypeOK, StatusHasRecorder
<1>2. IInv /\ [Next]_vars => IInv'
  BY <1>1, MessagesPreserve, TickPreserves, VisitPreserves, EnvironmentPreserves DEF Next
<1>3. QED BY InitIInv, <1>2, PTL DEF Spec

\* Type correctness of the supervisor: in particular the retry counters and the
\* per-slot timers stay within their limits.
THEOREM TypeCorrect == Spec => []TypeOK
<1>1. IInv => TypeOK
  BY DEF IInv
<1>2. QED BY <1>1, Invariance, PTL

\* A camera reported as recording always has a recorder process on record.
THEOREM StatusHasRecorderAlways == Spec => []StatusHasRecorder
<1>1. IInv => StatusHasRecorder
  BY DEF IInv
<1>2. QED BY <1>1, Invariance, PTL
=============================================================================
