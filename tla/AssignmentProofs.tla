-------------------------- MODULE AssignmentProofs --------------------------
(***************************************************************************)
(* Which cameras may have a recorder: only assigned ones, and none that    *)
(* start_recording_process has given up, as long as no reload moves a      *)
(* camera to another place (the retry counters are kept by place).         *)
(***************************************************************************)
EXTENDS RecordingAgentProofs

\* What a call on camera c may do to worker, assigned and retry.
GivesUp(c) ==
  retry[SlotOf(c)] > MaxRetries /\ assigned' = assigned \ {c} /\ worker' = worker /\ retry' = retry
Starts(c) ==
  /\ NeedsRecorder(c) /\ ~(retry[SlotOf(c)] > MaxRetries)
  /\ worker' = [worker EXCEPT ![c] = "alive"] /\ retry' = [retry EXCEPT ![SlotOf(c)] = 0]
  /\ assigned' = assigned
FailsToStart(c) ==
  /\ NeedsRecorder(c) /\ ~(retry[SlotOf(c)] > MaxRetries)
  /\ retry' = [retry EXCEPT ![SlotOf(c)] = @ + 1] /\ worker' = worker /\ assigned' = assigned
ForgetsTries(c) ==
  /\ ~(retry[SlotOf(c)] > MaxRetries)
  /\ retry' = [retry EXCEPT ![SlotOf(c)] = 0] /\ worker' = worker /\ assigned' = assigned
Releases(c) ==
  worker' = [worker EXCEPT ![c] = "none"] /\ retry' = retry /\ assigned' = assigned
Nothing == worker' = worker /\ retry' = retry /\ assigned' = assigned

CallKind(c) ==
  \/ Nothing
  \/ c \in Configured /\ (GivesUp(c) \/ Starts(c) \/ FailsToStart(c) \/ ForgetsTries(c) \/ Releases(c))

\* start_recording_process does one of the five things to its camera, or nothing.
LEMMA StartKind ==
  ASSUME NEW c \in Cameras, c \in Configured, start_recording_process(c)
  PROVE  CallKind(c)
<1>1. CASE retry[SlotOf(c)] > MaxRetries
  BY <1>1 DEF start_recording_process, CallKind, GivesUp
<1>2. CASE ~(retry[SlotOf(c)] > MaxRetries) /\ "CHM_VIDEO" \in CommandedMode(c) /\ "CHM" \notin ready
  BY <1>2 DEF start_recording_process, CallKind, ForgetsTries
<1>3. CASE /\ ~(retry[SlotOf(c)] > MaxRetries)
           /\ ~("CHM_VIDEO" \in CommandedMode(c) /\ "CHM" \notin ready)
  <2>1. Launch(c) /\ assigned' = assigned
    BY <1>3 DEF start_recording_process
  <2>2. CASE NeedsRecorder(c)
    <3>1. PICK m : SpawnSucceeds(c, m) \/ SpawnFails(c)
      BY <2>1, <2>2 DEF Launch
    <3>2. QED
      BY <1>3, <2>1, <2>2, <3>1 DEF SpawnSucceeds, SpawnFails, CallKind, Starts, FailsToStart
  <2>3. CASE ~NeedsRecorder(c)
    BY <2>1, <2>3 DEF Launch, SpawnNotNeeded, CallKind, Nothing
  <2>4. QED
    BY <2>2, <2>3
<1>4. QED
  BY <1>1, <1>2, <1>3

\* So do the ways to stop a recorder.
LEMMA StopKind ==
  ASSUME NEW c \in Cameras, c \in Configured, UNCHANGED <<assigned, retry>>,
         \/ stop_recording_process(c)
         \/ \E sp : camera_recording_just_stopped(c, sp)
         \/ worker' = worker
  PROVE  CallKind(c)
BY DEF stop_recording_process, camera_recording_just_stopped, CallKind, Nothing, Releases

\* And the handling of a record or pause command.
LEMMA CommandKind ==
  ASSUME NEW c \in Cameras, NEW record, handle_camera_record_pause(c, record)
  PROVE  CallKind(c)
<1>1. CASE Commandable(c) /\ IsRecording(c) /\ ~record
  <2>1. c \in Configured /\ stop_recording_process(c) /\ UNCHANGED <<assigned, retry>>
    BY <1>1 DEF handle_camera_record_pause, PauseCamera, Commandable
  <2>2. QED
    BY <2>1, StopKind
<1>2. CASE Commandable(c) /\ ~IsRecording(c) /\ record /\ ready # {}
  <2>1. c \in Configured /\ start_recording_process(c)
    BY <1>2 DEF handle_camera_record_pause, RecordCamera, Commandable
  <2>2. QED
    BY <2>1, StartKind
<1>3. CASE /\ ~(Commandable(c) /\ IsRecording(c) /\ ~record)
           /\ ~(Commandable(c) /\ ~IsRecording(c) /\ record /\ ready # {})
  BY <1>3 DEF handle_camera_record_pause, KeepRecordState, CallKind, Nothing
<1>4. QED
  BY <1>1, <1>2, <1>3

\* The timer callback's look at a camera's online status is one such call.
LEMMA ScanKind ==
  ASSUME NEW c \in Cameras, c \in Configured, NEW i, reflect_camera_online_status(c, i)
  PROVE  CallKind(c)
<1>1. CASE GoesOffline(c, i)
  <2>1. /\ UNCHANGED <<assigned, retry>>
        /\ \/ stop_recording_process(c)
           \/ \E sp : camera_recording_just_stopped(c, sp)
           \/ worker' = worker
    BY <1>1 DEF GoesOffline
  <2>2. QED
    BY <2>1, StopKind
<1>2. CASE GoesOnline(c, i)
  <2>1. start_recording_process(c) \/ Nothing
    BY <1>2 DEF GoesOnline, Nothing
  <2>2. QED
    BY <2>1, StartKind DEF CallKind
<1>3. CASE StaysAsIs(c, i)
  BY <1>3 DEF StaysAsIs, CallKind, Nothing
<1>4. QED
  BY <1>1, <1>2, <1>3 DEF reflect_camera_online_status

\* So is its look at the recorder of a camera.
LEMMA WatchKind ==
  ASSUME NEW c \in Cameras, c \in Configured, NEW i, watch(c, i)
  PROVE  CallKind(c)
<1>1. \/ BuryRecorder(c)
      \/ start_recording_process(c)
      \/ Nothing
  BY DEF watch, Nothing
<1>2. CASE BuryRecorder(c)
  <2>1. UNCHANGED <<assigned, retry>> /\ camera_recording_just_stopped(c, KeepSpace)
    BY <1>2 DEF BuryRecorder
  <2>2. QED
    BY <2>1, StopKind
<1>3. QED
  BY <1>1, <1>2, StartKind DEF CallKind

-----------------------------------------------------------------------------
(* Every step is a call on one camera, a death or a reload.                *)

Dies(c) == worker[c] = "alive" /\ worker' = [worker EXCEPT ![c] = "dead"]
           /\ retry' = retry /\ assigned' = assigned

StepKind ==
  \/ order' = order /\ \E c \in Cameras : CallKind(c) \/ Dies(c)
  \/ order' = order /\ Nothing
  \/ \E cfg \in Configs : Reload(cfg)

\* Every message handler is one such call on some camera.
LEMMA MessageKind == TypeOK /\ Messages => StepKind
<1> SUFFICES ASSUME TypeOK, Messages PROVE StepKind
  OBVIOUS
<1>1. ASSUME NEW c \in Cameras, NEW record \in BOOLEAN, CameraRecordPause(c, record)
      PROVE  StepKind
  BY <1>1, CommandKind DEF CameraRecordPause, StepKind
<1>2. ASSUME NEW c \in Cameras, ResetCameraStream(c) PROVE StepKind
  BY <1>2, CommandKind DEF ResetCameraStream, StepKind
<1>3. CASE ResumeCameraStream
  <2>1. PICK c \in pc.cam : handle_camera_record_pause(c, TRUE)
    BY <1>3 DEF ResumeCameraStream
  <2>2. c \in Cameras /\ order' = order
    BY <1>3, <2>1 DEF TypeOK, ResumeCameraStream
  <2>3. QED
    BY <2>1, <2>2, CommandKind DEF StepKind
<1>4. ASSUME NEW drives \in DriveSets, ReadyStatus(drives) PROVE StepKind
  BY <1>4 DEF ReadyStatus, configVars, procVars, StepKind, Nothing
<1>5. ASSUME NEW drives \in {{"CHM"}, {"SSD"}, Drives}, Shutdown(drives) PROVE StepKind
  BY <1>5 DEF Shutdown, configVars, procVars, StepKind, Nothing
<1>6. ASSUME NEW c \in Cameras, NEW msg \in SettingsMsgs, CameraSettings(c, msg) PROVE StepKind
  BY <1>6 DEF CameraSettings, configVars, procVars, StepKind, Nothing
<1>7. QED
  BY <1>1, <1>2, <1>3, <1>4, <1>5, <1>6 DEF Messages

\* So is every visit of the timer callback.
LEMMA VisitKind == TypeOK /\ Visit => StepKind
<1> SUFFICES ASSUME TypeOK, Visit PROVE StepKind
  OBVIOUS
<1>u. pc.i \in Nat \ {0} /\ order \in Seq(Cameras)
  BY DEF TypeOK
<1>v. pc.i <= Len(order) => order[pc.i] \in Cameras /\ order[pc.i] \in Configured
  BY <1>u DEF Configured
<1>1. CASE ScanCamera
  <2>1. CASE pc.i <= Len(order) /\ order[pc.i] \in assigned
    BY <1>1, <1>v, <2>1, ScanKind DEF ScanCamera, StepKind
  <2>2. CASE ~(pc.i <= Len(order) /\ order[pc.i] \in assigned)
    BY <1>1, <2>2 DEF ScanCamera, StepKind, Nothing
  <2>3. QED
    BY <2>1, <2>2
<1>2. CASE WatchCamera
  <2>1. CASE pc.i <= Len(order)
    BY <1>2, <1>v, <2>1, WatchKind DEF WatchCamera, StepKind
  <2>2. CASE ~(pc.i <= Len(order))
    BY <1>2, <2>2 DEF WatchCamera, StepKind, Nothing
  <2>3. QED
    BY <2>1, <2>2
<1>3. CASE ScanDone \/ WatchDone
  BY <1>3 DEF ScanDone, WatchDone, configVars, procVars, StepKind, Nothing
<1>4. QED
  BY <1>1, <1>2, <1>3 DEF Visit

\* Every step is such a call, the death of a process, nothing or a reload.
LEMMA NextKind == TypeOK /\ [Next]_vars => StepKind
<1> SUFFICES ASSUME TypeOK, [Next]_vars PROVE StepKind
  OBVIOUS
<1>1. CASE Messages
  BY <1>1, MessageKind
<1>2. CASE Visit
  BY <1>2, VisitKind
<1>3. CASE Tick
  BY <1>3 DEF Tick, TickTransmit, TickReceive, configVars, procVars, StepKind, Nothing
<1>4. CASE \E c \in Cameras : RecorderDies(c)
  BY <1>4 DEF RecorderDies, configVars, StepKind, Dies
<1>5. CASE HelperDies \/ (\E c \in Cameras : OrphanDies(c)) \/ ForkAbilityChanges
  BY <1>5 DEF HelperDies, OrphanDies, ForkAbilityChanges, configVars, procVars, StepKind, Nothing
<1>6. CASE UNCHANGED vars
  BY <1>6 DEF vars, StepKind, Nothing
<1>7. QED
  BY <1>1, <1>2, <1>3, <1>4, <1>5, <1>6 DEF Next, Environment, StepKind

-----------------------------------------------------------------------------
(* The invariant.                                                          *)

\* A camera that was given up has no recorder; this makes it safe to unassign it.
GivenUpHasNone ==
  \A i \in 1 .. Len(order) : retry[i] > MaxRetries => worker[order[i]] = "none"

\* Every position holds a camera of its own, as in the configuration read last.
SlotsDistinct ==
  /\ \E cfg \in Configs : order = cfg.order
  /\ \A i, k \in 1 .. Len(order) : order[i] = order[k] => i = k

AInv == SlotsDistinct /\ GivenUpHasNone /\ RecordersOnlyForAssigned

\* A configured camera has one slot, with a retry counter.
LEMMA SlotOfConfigured ==
  ASSUME TypeOK, SlotsDistinct, NEW c \in Configured
  PROVE  /\ SlotOf(c) \in 1 .. Len(order) /\ order[SlotOf(c)] = c
         /\ SlotOf(c) \in DOMAIN retry
         /\ \A i \in 1 .. Len(order) : order[i] = c => i = SlotOf(c)
<1>1. \E i \in 1 .. Len(order) : order[i] = c
  BY DEF Configured
<1>2. SlotOf(c) \in 1 .. Len(order) /\ order[SlotOf(c)] = c
  BY <1>1, Zenon DEF SlotOf
<1>3. Len(order) \in Nat /\ Len(order) <= Cardinality(Cameras) /\ Cardinality(Cameras) \in Nat
  BY ConstantsAssumption, FS_CardinalityType DEF TypeOK
<1>4. SlotOf(c) \in DOMAIN retry
  BY <1>2, <1>3 DEF TypeOK, Slots
<1>5. QED
  BY <1>2, <1>4 DEF SlotsDistinct

\* Calls on one camera.
LEMMA CallKeeps ==
  ASSUME TypeOK, AInv, NEW c \in Cameras, CallKind(c) \/ Dies(c), order' = order
  PROVE  /\ AInv'
         /\ \A i \in 1 .. Len(order) : retry[i] > MaxRetries => retry'[i] > MaxRetries
<1>t. /\ worker \in [Cameras -> ProcessStates] /\ retry \in [Slots -> 0 .. MaxRetries + 1]
      /\ MaxRetries \in Nat /\ order \in Seq(Cameras)
      /\ \A i \in 1 .. Len(order) : order[i] \in Cameras
  BY ConstantsAssumption DEF TypeOK
<1>z. 0 \in Nat /\ ~(0 > MaxRetries)
  BY <1>t
<1>s. SlotsDistinct'
  BY DEF AInv, SlotsDistinct
<1>0. CASE Nothing
  BY <1>0, <1>s DEF Nothing, AInv, GivenUpHasNone, RecordersOnlyForAssigned
<1>1. CASE Dies(c)
  BY <1>1, <1>s, <1>t DEF Dies, AInv, GivenUpHasNone, RecordersOnlyForAssigned
<1>2. CASE Releases(c)
  BY <1>2, <1>s, <1>t DEF Releases, AInv, GivenUpHasNone, RecordersOnlyForAssigned
<1>3. CASE c \in Configured /\ GivesUp(c)
  <2>1. SlotOf(c) \in 1 .. Len(order) /\ order[SlotOf(c)] = c
    BY <1>3, SlotOfConfigured DEF AInv
  <2>2. worker[c] = "none"
    BY <1>3, <2>1 DEF GivesUp, AInv, GivenUpHasNone
  <2>3. QED
    BY <1>3, <1>s, <2>2 DEF GivesUp, AInv, GivenUpHasNone, RecordersOnlyForAssigned
<1>4. ASSUME c \in Configured, ~(retry[SlotOf(c)] > MaxRetries),
             NEW v \in Nat, retry' = [retry EXCEPT ![SlotOf(c)] = v],
             v > MaxRetries => worker' = worker /\ worker[c] = "none",
             \A d \in Cameras : d # c => worker'[d] = worker[d]
      PROVE  /\ GivenUpHasNone'
             /\ \A i \in 1 .. Len(order) : retry[i] > MaxRetries => retry'[i] > MaxRetries
  <2>1. /\ SlotOf(c) \in 1 .. Len(order) /\ order[SlotOf(c)] = c
        /\ SlotOf(c) \in DOMAIN retry
        /\ \A i \in 1 .. Len(order) : order[i] = c => i = SlotOf(c)
    BY <1>4, SlotOfConfigured DEF AInv
  <2>2. \A i : i # SlotOf(c) => retry'[i] = retry[i]
    BY <1>4, <1>t
  <2>3. retry'[SlotOf(c)] = v
    BY <1>4, <2>1
  <2>4. QED
    BY <1>4, <1>t, <2>1, <2>2, <2>3 DEF AInv, GivenUpHasNone
<1>5. CASE c \in Configured /\ Starts(c)
  <2>1. \A d \in Cameras : d # c => worker'[d] = worker[d]
    BY <1>5, <1>t DEF Starts
  <2>2. RecordersOnlyForAssigned'
    BY <1>5, <2>1 DEF Starts, NeedsRecorder, AInv, RecordersOnlyForAssigned
  <2>3. /\ GivenUpHasNone'
        /\ \A i \in 1 .. Len(order) : retry[i] > MaxRetries => retry'[i] > MaxRetries
    BY <1>4, <1>5, <1>z, <2>1 DEF Starts
  <2>4. QED
    BY <1>s, <2>2, <2>3 DEF AInv
<1>6. CASE c \in Configured /\ (FailsToStart(c) \/ ForgetsTries(c))
  <2>1. RecordersOnlyForAssigned'
    BY <1>6 DEF FailsToStart, ForgetsTries, AInv, RecordersOnlyForAssigned
  <2>2. SlotOf(c) \in Slots
    BY <1>6, <1>t, SlotOfConfigured DEF AInv
  <2>3. retry[SlotOf(c)] + 1 \in Nat /\ retry[SlotOf(c)] \in Nat
    BY <1>t, <2>2
  <2>4. /\ GivenUpHasNone'
        /\ \A i \in 1 .. Len(order) : retry[i] > MaxRetries => retry'[i] > MaxRetries
    <3>1. CASE FailsToStart(c)
      BY <1>4, <1>6, <1>t, <2>3, <3>1 DEF FailsToStart, NeedsRecorder
    <3>2. CASE ForgetsTries(c)
      BY <1>4, <1>6, <1>z, <3>2 DEF ForgetsTries
    <3>3. QED
      BY <1>6, <3>1, <3>2
  <2>5. QED
    BY <1>s, <2>1, <2>4 DEF AInv
<1>7. QED
  BY <1>0, <1>1, <1>2, <1>3, <1>5, <1>6 DEF CallKind

\* When no camera moves to another place, a reload only takes recorders away:
\* those of cameras it drops, and of cameras that are not assigned any more.
LEMMA ReloadKeeps ==
  ASSUME SamePlaces, TypeOK, AInv, NEW cfg \in Configs, Reload(cfg)
  PROVE  AInv' /\ retry' = retry /\ \A c \in Cameras : worker'[c] # "none" => worker'[c] = worker[c]
<1>1. order' = cfg.order /\ retry' = retry
  BY DEF Reload
<1>c. IsConfig(cfg)
  BY ConstantsAssumption
<1>2. \A c \in Cameras : worker'[c] # "none" => /\ worker[c] = worker'[c] /\ c \in assigned'
                                              /\ c \in Configured
  <2> SUFFICES ASSUME NEW c \in Cameras, worker'[c] # "none"
               PROVE  worker[c] = worker'[c] /\ c \in assigned' /\ c \in Configured
    OBVIOUS
  <2> DEFINE kept == Configured \cap {cfg.order[i] : i \in 1 .. Len(cfg.order)}
  <2>1. worker' = [b \in Cameras |-> IF b \in kept \ StoppedByReload(kept, cfg)
                                     THEN worker[b] ELSE "none"]
    BY DEF Reload
  <2>2. c \in kept \ StoppedByReload(kept, cfg) /\ worker'[c] = worker[c]
    BY <2>1
  <2>3. assigned' = cfg.assigned
    BY DEF Reload
  <2>4. QED
    BY <2>2, <2>3 DEF StoppedByReload
<1>3. \A i \in 1 .. Len(cfg.order) : cfg.order[i] \in Cameras
  BY <1>c DEF IsConfig
<1>4. GivenUpHasNone'
  <2> SUFFICES ASSUME NEW i \in 1 .. Len(cfg.order), retry[i] > MaxRetries,
                      worker'[cfg.order[i]] # "none"
               PROVE  FALSE
    BY <1>1 DEF GivenUpHasNone
  <2>1. cfg.order[i] \in Configured /\ worker[cfg.order[i]] # "none"
    BY <1>2, <1>3
  <2>2. PICK j \in 1 .. Len(order) : order[j] = cfg.order[i]
    BY <2>1 DEF Configured
  <2>3. i = j
    BY <2>2 DEF SamePlaces, AInv, SlotsDistinct
  <2>4. QED
    BY <2>1, <2>2, <2>3 DEF AInv, GivenUpHasNone
<1>5. RecordersOnlyForAssigned'
  BY <1>2 DEF RecordersOnlyForAssigned
<1>6. SlotsDistinct'
  BY <1>1, <1>c DEF SlotsDistinct, IsConfig
<1>7. QED
  BY <1>1, <1>2, <1>4, <1>5, <1>6 DEF AInv

\* Every step keeps AInv, and a slot once given up stays so, without a recorder.
LEMMA AStep ==
  ASSUME SamePlaces, TypeOK, AInv, [Next]_vars
  PROVE  /\ AInv'
         /\ \A i \in 1 .. Len(order) :
              retry[i] > MaxRetries => retry'[i] > MaxRetries /\ worker'[order[i]] = "none"
<1>0. \A i \in 1 .. Len(order) : order[i] \in Cameras
  BY DEF TypeOK
<1>1. StepKind
  BY NextKind
<1>2. CASE order' = order /\ \E c \in Cameras : CallKind(c) \/ Dies(c)
  BY <1>2, CallKeeps DEF AInv, GivenUpHasNone
<1>3. CASE order' = order /\ Nothing
  BY <1>3 DEF Nothing, AInv, SlotsDistinct, GivenUpHasNone, RecordersOnlyForAssigned
<1>4. CASE \E cfg \in Configs : Reload(cfg)
  BY <1>0, <1>4, ReloadKeeps DEF AInv, GivenUpHasNone
<1>5. QED
  BY <1>1, <1>2, <1>3, <1>4 DEF StepKind

\* At the start no camera has a recorder.
LEMMA InitAInv == Init => AInv
<1> SUFFICES ASSUME Init PROVE AInv
  OBVIOUS
<1>1. PICK cfg \in Configs : order = cfg.order
  BY DEF Init
<1>2. IsConfig(cfg)
  BY ConstantsAssumption
<1>3. SlotsDistinct
  BY <1>1, <1>2 DEF IsConfig, SlotsDistinct
<1>4. \A i \in 1 .. Len(order) : order[i] \in Cameras
  BY <1>1, <1>2 DEF IsConfig
<1>5. GivenUpHasNone /\ RecordersOnlyForAssigned
  BY <1>4 DEF Init, GivenUpHasNone, RecordersOnlyForAssigned
<1>6. QED
  BY <1>3, <1>5 DEF AInv

\* The invariant holds throughout.
LEMMA AInvAlways == ASSUME SamePlaces PROVE Spec => [](TypeOK /\ AInv)
<1>1. TypeOK /\ AInv /\ [Next]_vars => AInv'
  BY AStep
<1>2. QED
  BY <1>1, InitAInv, TypeCorrect, PTL DEF Spec

\* Giving a camera up unassigns it and a reload may unassign it: neither leaves
\* an unassigned camera with a recorder, for any cameras, retry limit and faults.
THEOREM RecordersOnlyForAssignedAlways ==
  ASSUME SamePlaces PROVE Spec => []RecordersOnlyForAssigned
<1>1. AInv => RecordersOnlyForAssigned
  BY DEF AInv
<1>2. QED
  BY <1>1, AInvAlways, PTL

\* A camera start_recording_process has given up stays without a recorder, for
\* any retry limit and through every reload.
THEOREM GivenUpForGoodAlways == ASSUME SamePlaces PROVE Spec => GivenUpForGood
<1> DEFINE Kept == \A i \in 1 .. Len(order) :
       retry[i] > MaxRetries => /\ retry'[i] > MaxRetries
                                /\ worker'[order[i]] = "none"
<1>1. TypeOK /\ AInv /\ [Next]_vars => [Kept]_vars
  BY AStep
<1>2. QED
  BY <1>1, AInvAlways, PTL DEF Spec, GivenUpForGood

-----------------------------------------------------------------------------
(* Paused cameras.  A CAMERA_SETTINGS message may set flags of a paused    *)
(* camera, and the watch loop then starts it; without such messages:       *)

\* Only the flags of cameras that are not paused are set.
PausedHasNoFlags == \A c \in paused : mode[c] = {}

PausedKept ==
  \A d \in Cameras : d \in paused' =>
    mode'[d] = {} /\ (d \in paused /\ worker[d] = "none" => worker'[d] = "none")

\* Starting a recorder leaves every other camera alone.
LEMMA StartFrame ==
  ASSUME TypeOK, NEW c \in Cameras, start_recording_process(c),
         NEW d \in Cameras, d # c
  PROVE  mode'[d] = mode[d] /\ worker'[d] = worker[d]
<1>1. worker \in [Cameras -> ProcessStates] /\ mode \in [Cameras -> SUBSET ModeFlags]
  BY DEF TypeOK
<1>2. worker' = worker \/ worker' = [worker EXCEPT ![c] = "alive"]
  BY StartEffect DEF RecorderUnchanged, RecorderStarted
<1>3. \/ mode' = mode
      \/ \E m : mode' = [mode EXCEPT ![c] = m]
  BY DEF start_recording_process, Launch
<1>4. QED
  BY <1>1, <1>2, <1>3

\* Starting a camera that is not paused, or stopping any camera.
LEMMA StartKeepsPaused ==
  ASSUME TypeOK, PausedHasNoFlags, NEW c \in Cameras, c \notin paused',
         start_recording_process(c), paused' \subseteq paused
  PROVE  PausedKept
BY StartFrame DEF PausedKept, PausedHasNoFlags

\* Stopping a recorder starts none of a paused camera.
LEMMA StopKeepsPaused ==
  ASSUME TypeOK, PausedHasNoFlags, NEW c \in Cameras, UNCHANGED <<paused, mode>>,
         \/ stop_recording_process(c)
         \/ \E sp : camera_recording_just_stopped(c, sp)
         \/ worker' = worker
  PROVE  PausedKept
<1>1. worker' = worker \/ worker' = [worker EXCEPT ![c] = "none"]
  BY DEF stop_recording_process, camera_recording_just_stopped
<1>2. QED
  BY <1>1 DEF PausedKept, PausedHasNoFlags, TypeOK

\* A command only starts the camera it ends the pause of.
LEMMA CommandKeepsPaused ==
  ASSUME TypeOK, PausedHasNoFlags, NEW c \in Cameras, NEW record,
         handle_camera_record_pause(c, record)
  PROVE  PausedKept
<1>1. CASE Commandable(c) /\ IsRecording(c) /\ ~record
  <2>1. /\ mode' = [mode EXCEPT ![c] = {}] /\ paused' = paused \cup {c}
        /\ stop_recording_process(c)
    BY <1>1 DEF handle_camera_record_pause, PauseCamera
  <2>2. worker' = worker \/ worker' = [worker EXCEPT ![c] = "none"]
    BY <2>1 DEF stop_recording_process, camera_recording_just_stopped
  <2>3. QED
    BY <2>1, <2>2 DEF PausedKept, PausedHasNoFlags, TypeOK
<1>2. CASE Commandable(c) /\ ~IsRecording(c) /\ record /\ ready # {}
  BY <1>2, StartKeepsPaused DEF handle_camera_record_pause, RecordCamera
<1>3. CASE /\ ~(Commandable(c) /\ IsRecording(c) /\ ~record)
           /\ ~(Commandable(c) /\ ~IsRecording(c) /\ record /\ ready # {})
  BY <1>3 DEF handle_camera_record_pause, KeepRecordState, PausedKept, PausedHasNoFlags
<1>4. QED
  BY <1>1, <1>2, <1>3

\* The timer callback starts no paused camera: it has no commanded mode.
LEMMA VisitKeepsPaused == TypeOK /\ PausedHasNoFlags /\ Visit => PausedKept
<1> SUFFICES ASSUME TypeOK, PausedHasNoFlags, Visit PROVE PausedKept
  OBVIOUS
<1>u. pc.i \in Nat \ {0} /\ order \in Seq(Cameras) /\ paused' = paused
  BY DEF TypeOK, Visit, ScanCamera, ScanDone, WatchCamera, WatchDone, configVars
<1>v. pc.i <= Len(order) => order[pc.i] \in Cameras
  BY <1>u
<1>0. ASSUME UNCHANGED <<mode, worker>> PROVE PausedKept
  BY <1>0, <1>u DEF PausedKept, PausedHasNoFlags
<1>1. ASSUME NEW c \in Cameras, NEW i, reflect_camera_online_status(c, i) PROVE PausedKept
  <2>1. CASE GoesOffline(c, i)
    <3>1. /\ UNCHANGED <<paused, mode>>
          /\ \/ stop_recording_process(c)
             \/ \E sp : camera_recording_just_stopped(c, sp)
             \/ worker' = worker
      BY <1>u, <2>1 DEF GoesOffline
    <3>2. QED
      BY <3>1, StopKeepsPaused
  <2>2. CASE GoesOnline(c, i)
    <3>1. (mode[c] # {} /\ start_recording_process(c)) \/ UNCHANGED <<mode, worker>>
      BY <2>2 DEF GoesOnline
    <3>2. QED
      BY <1>0, <1>u, <3>1, StartKeepsPaused DEF PausedHasNoFlags
  <2>3. CASE StaysAsIs(c, i)
    BY <1>0, <2>3 DEF StaysAsIs
  <2>4. QED
    BY <1>1, <2>1, <2>2, <2>3 DEF reflect_camera_online_status
<1>2. ASSUME NEW c \in Cameras, NEW i, watch(c, i) PROVE PausedKept
  <2>1. \/ BuryRecorder(c)
        \/ mode[c] # {} /\ start_recording_process(c)
        \/ UNCHANGED <<mode, worker>>
    BY <1>2 DEF watch
  <2>2. CASE BuryRecorder(c)
    <3>1. UNCHANGED <<paused, mode>> /\ camera_recording_just_stopped(c, KeepSpace)
      BY <1>u, <2>2 DEF BuryRecorder
    <3>2. QED
      BY <3>1, StopKeepsPaused
  <2>3. QED
    BY <1>0, <1>u, <2>1, <2>2, StartKeepsPaused DEF PausedHasNoFlags
<1>3. CASE ScanCamera
  BY <1>0, <1>1, <1>3, <1>v DEF ScanCamera
<1>4. CASE WatchCamera
  BY <1>0, <1>2, <1>4, <1>v DEF WatchCamera
<1>5. CASE ScanDone \/ WatchDone
  BY <1>0, <1>5 DEF ScanDone, WatchDone, flagVars, procVars
<1>6. QED
  BY <1>3, <1>4, <1>5 DEF Visit

\* Without settings messages no step starts a paused camera.
LEMMA PausedStep ==
  ASSUME SettingsMsgs = {}, TypeOK, PausedHasNoFlags, [Next]_vars
  PROVE  PausedKept
<1>0. ASSUME UNCHANGED <<paused, mode>>, \A d \in Cameras : worker[d] = "none" => worker'[d] = "none"
      PROVE  PausedKept
  BY <1>0 DEF PausedKept, PausedHasNoFlags
<1>1. ASSUME NEW c \in Cameras, NEW record, handle_camera_record_pause(c, record) PROVE PausedKept
  BY <1>1, CommandKeepsPaused
<1>2. CASE \/ \E c \in Cameras, record \in BOOLEAN : CameraRecordPause(c, record)
           \/ \E c \in Cameras : ResetCameraStream(c)
  BY <1>1, <1>2 DEF CameraRecordPause, ResetCameraStream
<1>3. CASE ResumeCameraStream
  <2>1. PICK c \in pc.cam : handle_camera_record_pause(c, TRUE)
    BY <1>3 DEF ResumeCameraStream
  <2>2. c \in Cameras
    BY <2>1 DEF TypeOK
  <2>3. QED
    BY <1>1, <2>1, <2>2
<1>4. ASSUME NEW drives, ReadyStatus(drives) PROVE PausedKept
  BY <1>4 DEF ReadyStatus, FollowsDrives, configVars, procVars, PausedKept, PausedHasNoFlags
<1>5. ASSUME NEW drives, Shutdown(drives) PROVE PausedKept
  <2>1. PICK gone : mode' = [c \in Cameras |-> IF c \in Configured THEN mode[c] \ gone ELSE mode[c]]
    BY <1>5 DEF Shutdown
  <2>2. paused' = paused /\ worker' = worker
    BY <1>5 DEF Shutdown, configVars, procVars
  <2>3. QED
    BY <2>1, <2>2 DEF PausedKept, PausedHasNoFlags
<1>6. CASE Tick
  BY <1>0, <1>6 DEF Tick, TickTransmit, TickReceive, configVars, flagVars, procVars
<1>7. CASE Visit
  BY <1>7, VisitKeepsPaused
<1>8. ASSUME NEW cfg \in Configs, Reload(cfg) PROVE PausedKept
  BY <1>8 DEF Reload, PausedKept
<1>9. ASSUME NEW c \in Cameras, RecorderDies(c) PROVE PausedKept
  <2>1. \A d \in Cameras : worker[d] = "none" => worker'[d] = "none"
    BY <1>9 DEF RecorderDies, TypeOK
  <2>2. QED
    BY <1>0, <1>9, <2>1 DEF RecorderDies, configVars, flagVars
<1>10. CASE HelperDies \/ (\E c \in Cameras : OrphanDies(c)) \/ ForkAbilityChanges
  BY <1>0, <1>10 DEF HelperDies, OrphanDies, ForkAbilityChanges, configVars, flagVars, procVars
<1>11. CASE UNCHANGED vars
  BY <1>0, <1>11 DEF vars
<1>12. QED
  BY <1>2, <1>3, <1>4, <1>5, <1>6, <1>7, <1>8, <1>9, <1>10, <1>11
     DEF Next, Messages, Environment

\* A paused camera gets no recorder while the pause stands, for any cameras,
\* drives and configurations, when no CAMERA_SETTINGS message sets its flags.
THEOREM PausedStaysStoppedAlways ==
  ASSUME SettingsMsgs = {} PROVE Spec => PausedStaysStopped
<1> DEFINE Stopped == \A c \in paused \cap paused' : worker[c] = "none" => worker'[c] = "none"
<1>1. Init => PausedHasNoFlags
  BY DEF Init, PausedHasNoFlags
<1>2. TypeOK /\ TypeOK' /\ PausedHasNoFlags /\ [Next]_vars => PausedHasNoFlags' /\ [Stopped]_vars
  <2> SUFFICES ASSUME TypeOK, TypeOK', PausedHasNoFlags, [Next]_vars
               PROVE  PausedHasNoFlags' /\ Stopped
    OBVIOUS
  <2>1. PausedKept
    BY PausedStep
  <2>2. paused \subseteq Cameras /\ paused' \subseteq Cameras
    BY DEF TypeOK
  <2>3. QED
    BY <2>1, <2>2 DEF PausedKept, PausedHasNoFlags
<1>3. QED
  BY <1>1, <1>2, TypeCorrect, PTL DEF Spec, PausedStaysStopped
=============================================================================
