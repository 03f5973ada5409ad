--------------------------- MODULE RecordingAgent ---------------------------
(***************************************************************************)
(* The recording supervisor of reagent: the PTC message handlers, the 1 Hz *)
(* timer callback and the SIGHUP reload, which start, watch, restart and   *)
(* stop one rtsprec process per camera, the metarec process and the        *)
(* space_monitor process (reagent/src/ptc_intf.c, reagent/src/main.c,      *)
(* reagent/src/config/reagent_config.c).                                   *)
(*                                                                         *)
(* The PTC event loop is single threaded: a message handler runs to its    *)
(* end, so it is one action, enabled when the loop is idle.  The timer     *)
(* callback visits the cameras one by one, each visit being one action,    *)
(* because child processes die and the SIGHUP handler runs between two     *)
(* visits.  Recording flags are sets of flag names.                        *)
(***************************************************************************)
EXTENDS Integers, FiniteSets, Sequences

CONSTANTS
  Cameras,        \* names of all cameras that may ever be configured
  Configs,        \* configurations the XML file may hold when it is (re)read
  Essential,      \* cameras whose is_essential is nonzero
  Audio,          \* cameras with do_audio
  MaxAge,         \* cameras with a positive grooming age
  DriveSets,      \* drives READY_STATUS may report, and the agent may start with
  SettingsMsgs,   \* CAMERA_SETTINGS contents: [noAudio, noChm : BOOLEAN]
  CamonTTL,       \* CAMON_TTL of camon.h
  MaxRetries,     \* 2 in start_recording_process
  MaxLost,        \* bound: recorders on the count whose pid reloads have lost
  Faults          \* faults of the environment: processes that may die, failing fork

Drives == {"CHM", "SSD"}
ChmFlags == {"CHM_VIDEO", "CHM_AUDIO"}
SsdFlags == {"SSD_VIDEO", "SSD_AUDIO"}
VideoFlags == {"CHM_VIDEO", "SSD_VIDEO"}
StatusFlags == ChmFlags \cup SsdFlags
ModeFlags == StatusFlags \cup {"DONT_USE_CHM"}
ProcessStates == {"none", "alive", "dead"}   \* pid 0, running, exited with the pid still recorded
Slots == 1 .. Cardinality(Cameras)           \* positions of media_info_t.cameras

IsConfig(cfg) ==
  /\ cfg.order \in Seq(Cameras)
  /\ Len(cfg.order) \in Nat
  /\ Len(cfg.order) <= Cardinality(Cameras)
  /\ \A i, j \in 1 .. Len(cfg.order) : cfg.order[i] = cfg.order[j] => i = j
  /\ cfg.assigned \subseteq {cfg.order[i] : i \in 1 .. Len(cfg.order)}

ASSUME ConstantsAssumption ==
  /\ IsFiniteSet(Cameras)
  /\ \A cfg \in Configs : IsConfig(cfg)
  /\ Essential \subseteq Cameras
  /\ Audio \subseteq Cameras
  /\ MaxAge \subseteq Cameras
  /\ DriveSets \subseteq SUBSET Drives
  /\ SettingsMsgs \subseteq [noAudio : BOOLEAN, noChm : BOOLEAN]
  /\ CamonTTL \in Nat \ {0}
  /\ MaxRetries \in Nat
  /\ MaxLost \in Nat
  /\ Faults \subseteq {"recorder", "meta", "space", "fork"}

VARIABLES
  order,      \* configured cameras in the order of the cameras[] array
  assigned,   \* cameras with runtime.is_assigned
  online,     \* cameras with runtime.is_online
  paused,     \* cameras with runtime.commanded_paused
  mode,       \* runtime.recording_mode_flags
  status,     \* runtime.recording_status_flags
  worker,     \* camera -> state of the process behind worker_pid
  orphans,    \* cameras with a running recorder whose pid the agent has lost
  ready,      \* drives with is_chm_ready / is_rssd_ready
  nRec,       \* runtime.n_cams_recording
  meta,       \* metaworker process
  space,      \* spacemonitor process
  shutdown,   \* shutdownInProcess
  retry,      \* retry_count[] of start_recording_process, by slot
  rpTTL,      \* rp_ttl[], by slot
  camonTTL,   \* camon_ttl[] of reflect_camera_online_status, by slot
  pass,       \* pass_flag: the next 1 Hz callback transmits or receives probes
  reported,   \* cameras reported alive by the last receive pass
  pc,         \* what the event loop is doing
  forkOK      \* the operating system currently creates every process asked for

configVars == <<order, assigned, online, paused>>
flagVars   == <<mode, status>>
procVars   == <<worker, orphans, nRec>>
helperVars == <<meta, space>>
timerVars  == <<rpTTL, camonTTL, pass, reported>>
vars == <<order, assigned, online, paused, mode, status, worker, orphans, ready,
          nRec, meta, space, shutdown, retry, rpTTL, camonTTL, pass, reported, pc, forkOK>>

Idle == [at |-> "idle", i |-> 1, n |-> 0, cam |-> {}]

Configured == {order[i] : i \in 1 .. Len(order)}

\* The position of a configured camera, by which the static counters are indexed.
SlotOf(c) == CHOOSE i \in 1 .. Len(order) : order[i] = c

TypeOK ==
  /\ order \in Seq(Cameras)
  /\ Len(order) <= Cardinality(Cameras)
  /\ assigned \subseteq Cameras
  /\ online \subseteq Cameras
  /\ paused \subseteq Cameras
  /\ mode \in [Cameras -> SUBSET ModeFlags]
  /\ status \in [Cameras -> SUBSET StatusFlags]
  /\ worker \in [Cameras -> ProcessStates]
  /\ orphans \subseteq Cameras
  /\ ready \subseteq Drives
  /\ nRec \in Nat
  /\ meta \in ProcessStates
  /\ space \in ProcessStates
  /\ shutdown \in BOOLEAN
  /\ retry \in [Slots -> 0 .. MaxRetries + 1]
  /\ rpTTL \in [Slots -> -1 .. 2 * CamonTTL + 1]
  /\ camonTTL \in [Slots -> 1 .. CamonTTL]
  /\ pass \in {"tx", "rx"}
  /\ reported \subseteq Cameras
  /\ pc \in [at : {"idle", "scan", "watch", "reset"}, i : Nat \ {0}, n : Nat, cam : SUBSET Cameras]
  /\ forkOK \in BOOLEAN

Init ==
  /\ \E cfg \in Configs : order = cfg.order /\ assigned = cfg.assigned
  /\ online = {}
  /\ paused = {}
  /\ mode = [c \in Cameras |-> {}]
  /\ status = [c \in Cameras |-> {}]
  /\ worker = [c \in Cameras |-> "none"]
  /\ orphans = {}
  /\ ready \in DriveSets
  /\ nRec = 0
  /\ meta = "none"
  /\ space = "none"
  /\ shutdown = FALSE
  /\ retry = [i \in Slots |-> 0]
  /\ rpTTL = [i \in Slots |-> -1]
  /\ camonTTL = [i \in Slots |-> CamonTTL]
  /\ pass = "tx"
  /\ reported = {}
  /\ pc = Idle
  /\ forkOK = TRUE

-----------------------------------------------------------------------------
(* Child processes and the flags derived from them.                        *)

\* spawn_process: the child runs, or fork fails and the caller gets -1.
Spawned == IF forkOK THEN {"alive"} ELSE {"alive", "none"}

StatusOf_Unmasked(m) == m

\* Status flags copied from the mode flags: audio only together with its video.
StatusOf(m) ==
  {f \in StatusFlags : /\ f \in m
                       /\ f \in ChmFlags => "CHM_VIDEO" \in m
                       /\ f \in SsdFlags => "SSD_VIDEO" \in m}

handle_metarec_NoRespawn ==
  IF ready = {} \/ meta # "none" THEN meta' = meta ELSE meta' \in Spawned

\* handle_metarec: (re)spawn metarec while some drive is ready; it is never stopped.
handle_metarec ==
  IF ready = {} \/ meta = "alive" THEN meta' = meta ELSE meta' \in Spawned

\* handle_space_monitor, called with the monitor in state s and n cameras recording.
handle_space_monitor(s, n) ==
  IF n = 0 \/ s = "alive" THEN {s} ELSE Spawned

\* stop_space_monitor, called when the camera has a grooming age.
stop_space_monitor(c, s) == IF c \in MaxAge THEN "none" ELSE s

camera_recording_just_stopped_KeepsStatus(c, sp) ==
  /\ worker' = [worker EXCEPT ![c] = "none"]
  /\ status' = status
  /\ nRec' = IF nRec > 0 THEN nRec - 1 ELSE nRec
  /\ handle_metarec
  /\ \E s \in handle_space_monitor(space, nRec') : space' = sp[s]

camera_recording_just_stopped_KeepsCount(c, sp) ==
  /\ worker' = [worker EXCEPT ![c] = "none"]
  /\ status' = [status EXCEPT ![c] = {}]
  /\ nRec' = nRec
  /\ handle_metarec
  /\ \E s \in handle_space_monitor(space, nRec') : space' = sp[s]

\* camera_recording_just_stopped, up to the space monitor's final state sp.
camera_recording_just_stopped(c, sp) ==
  /\ worker' = [worker EXCEPT ![c] = "none"]
  /\ status' = [status EXCEPT ![c] = {}]
  /\ nRec' = IF nRec > 0 THEN nRec - 1 ELSE nRec
  /\ handle_metarec
  /\ \E s \in handle_space_monitor(space, nRec') : space' = sp[s]

KeepSpace == [s \in ProcessStates |-> s]

\* stop_recording_process: SIGQUIT, wait, clean up; nothing without a pid.
stop_recording_process(c) ==
  IF worker[c] = "none"
  THEN UNCHANGED <<worker, status, nRec, meta, space>>
  ELSE camera_recording_just_stopped(c, [s \in ProcessStates |-> stop_space_monitor(c, s)])

\* The mode flags start_recording_process commands, before it looks at the drives.
CommandedMode(c) ==
  mode[c] \cup (IF c \in Essential THEN {"CHM_VIDEO"} ELSE {"DONT_USE_CHM"})
          \cup {"SSD_VIDEO"}
          \cup (IF c \notin Audio THEN {}
                ELSE IF c \in Essential THEN {"CHM_AUDIO", "SSD_AUDIO"} ELSE {"SSD_AUDIO"})

SpawnSucceeds(c, m) ==
  /\ retry' = [retry EXCEPT ![SlotOf(c)] = 0]
  /\ worker' = [worker EXCEPT ![c] = "alive"]
  /\ status' = [status EXCEPT ![c] = StatusOf(m)]
  /\ nRec' = nRec + 1
  /\ space' \in handle_space_monitor(stop_space_monitor(c, space), nRec')

SpawnFails(c) ==
  /\ ~forkOK
  /\ retry' = [retry EXCEPT ![SlotOf(c)] = @ + 1]
  /\ space' \in handle_space_monitor(space, nRec)
  /\ UNCHANGED <<worker, status, nRec>>

\* No spawn: the camera has a pid or is not assigned.
SpawnNotNeeded ==
  /\ space' \in handle_space_monitor(space, nRec)
  /\ UNCHANGED <<worker, status, nRec, retry>>

NeedsRecorder_Always(c) == c \in assigned

\* A recorder is spawned for an assigned camera without a pid.
NeedsRecorder(c) == c \in assigned /\ worker[c] = "none"

\* The end of start_recording_process, once the drives are checked.
Launch(c) ==
  LET m == IF "SSD" \in ready THEN CommandedMode(c) ELSE CommandedMode(c) \ SsdFlags IN
  /\ mode' = [mode EXCEPT ![c] = m]
  /\ IF NeedsRecorder(c)
     THEN SpawnSucceeds(c, m) \/ SpawnFails(c)
     ELSE SpawnNotNeeded
  /\ handle_metarec

start_recording_process_DriveFirst(c) ==
  IF "CHM_VIDEO" \in CommandedMode(c) /\ "CHM" \notin ready
  THEN /\ mode' = [mode EXCEPT ![c] = CommandedMode(c)]
       /\ retry' = [retry EXCEPT ![SlotOf(c)] = 0]
       /\ UNCHANGED <<assigned, worker, status, nRec, meta, space>>
  ELSE IF retry[SlotOf(c)] > MaxRetries
       THEN /\ assigned' = assigned \ {c}
            /\ UNCHANGED <<mode, worker, status, nRec, retry, meta, space>>
       ELSE assigned' = assigned /\ Launch(c)

start_recording_process(c) ==
  IF retry[SlotOf(c)] > MaxRetries
  THEN /\ assigned' = assigned \ {c}
       /\ UNCHANGED <<mode, worker, status, nRec, retry, meta, space>>
  ELSE /\ assigned' = assigned
       /\ IF "CHM_VIDEO" \in CommandedMode(c) /\ "CHM" \notin ready
          THEN /\ mode' = [mode EXCEPT ![c] = CommandedMode(c)]
               /\ retry' = [retry EXCEPT ![SlotOf(c)] = 0]
               /\ UNCHANGED <<worker, status, nRec, meta, space>>
          ELSE Launch(c)

-----------------------------------------------------------------------------
(* PTC message handlers.                                                   *)

IsRecording(c) == status[c] \cap VideoFlags # {}

\* handle_camera_record_pause accepts commands for this camera.
Commandable(c) ==
  ~shutdown /\ c \in Configured /\ c \in online /\ c \in assigned

PauseCamera(c) ==
  /\ mode' = [mode EXCEPT ![c] = {}]
  /\ paused' = paused \cup {c}
  /\ stop_recording_process(c)
  /\ UNCHANGED <<assigned, retry>>

RecordCamera(c) ==
  /\ paused' = paused \ {c}
  /\ start_recording_process(c)

KeepRecordState ==
  UNCHANGED <<assigned, paused, mode, status, worker, nRec, meta, space, retry>>

\* handle_camera_record_pause
handle_camera_record_pause(c, record) ==
  CASE Commandable(c) /\ IsRecording(c) /\ ~record -> PauseCamera(c)
    [] Commandable(c) /\ ~IsRecording(c) /\ record /\ ready # {} -> RecordCamera(c)
    [] OTHER -> KeepRecordState

\* msgcb_camera_record_pause
CameraRecordPause(c, record) ==
  /\ pc.at = "idle"
  /\ handle_camera_record_pause(c, record)
  /\ UNCHANGED <<order, online, orphans, ready, shutdown, timerVars, pc, forkOK>>

\* msgcb_camera_resolution, _compression, _frame_rate: the runtime value is
\* stored and reset_camera_stream pauses the camera, sleeps 500 ms ...
ResetCameraStream(c) ==
  /\ pc.at = "idle"
  /\ Commandable(c)
  /\ handle_camera_record_pause(c, FALSE)
  /\ pc' = IF IsRecording(c) /\ worker[c] = "none"
           THEN Idle ELSE [Idle EXCEPT !.at = "reset", !.cam = {c}]
  /\ UNCHANGED <<order, online, orphans, ready, shutdown, timerVars, forkOK>>

\* ... and records again.
ResumeCameraStream ==
  /\ pc.at = "reset"
  /\ \E c \in pc.cam : handle_camera_record_pause(c, TRUE)
  /\ pc' = Idle
  /\ UNCHANGED <<order, online, orphans, ready, shutdown, timerVars, forkOK>>

DriveFlags(c, drives) ==
  {f \in StatusFlags : /\ f \in {"CHM_AUDIO", "SSD_AUDIO"} => c \in Audio
                       /\ f \in ChmFlags => "CHM" \in drives
                       /\ f \in SsdFlags => "SSD" \in drives}

FollowsDrives_PausedToo(c) == c \in Configured /\ c \in online

\* Cameras whose mode flags follow the ready drives: online and not paused.
FollowsDrives(c) == c \in Configured /\ c \in online /\ c \notin paused

\* msgcb_ready_status
ReadyStatus(drives) ==
  /\ pc.at = "idle"
  /\ ready' = drives
  /\ mode' = [c \in Cameras |-> IF FollowsDrives(c)
                                THEN DriveFlags(c, drives) ELSE mode[c]]
  /\ status' = [c \in Cameras |-> IF c \in Configured /\ worker[c] # "none"
                                  THEN StatusOf(mode'[c]) ELSE status[c]]
  /\ UNCHANGED <<configVars, procVars, helperVars, shutdown, retry, timerVars, pc, forkOK>>

\* msgcb_shutdown_rec for SHUTDOWN_CHM, SHUTDOWN_REMOVABLE_SSD and SHUTDOWN_ALL.
\* Flags of every drive that is not ready are cleared, not only of the one named.
Shutdown(drives) ==
  LET left == ready \ drives
      gone == (IF "CHM" \in left THEN {} ELSE ChmFlags)
              \cup (IF "SSD" \in left THEN {} ELSE SsdFlags) IN
  /\ pc.at = "idle"
  /\ ready' = left
  /\ shutdown' = (shutdown \/ drives = Drives)
  /\ mode' = [c \in Cameras |-> IF c \in Configured THEN mode[c] \ gone ELSE mode[c]]
  /\ status' = [c \in Cameras |-> IF c \in Configured THEN status[c] \ gone ELSE status[c]]
  /\ UNCHANGED <<configVars, procVars, helperVars, retry, timerVars, pc, forkOK>>

AudioFlags == {"CHM_AUDIO", "SSD_AUDIO"}

\* msgcb_camera_settings: audio first, then CHM, each only when it differs.
CameraSettings(c, msg) ==
  LET a == IF msg.noAudio = (mode[c] \cap AudioFlags = {}) THEN mode[c]
           ELSE IF msg.noAudio THEN mode[c] \ AudioFlags ELSE mode[c] \cup AudioFlags
      b == IF msg.noChm = ("CHM_VIDEO" \notin a) THEN a
           ELSE IF msg.noChm THEN a \ ChmFlags ELSE a \cup ChmFlags IN
  /\ pc.at = "idle"
  /\ c \in Configured
  /\ mode' = [mode EXCEPT ![c] = b]
  /\ UNCHANGED <<configVars, status, procVars, ready, helperVars, shutdown, retry,
                 timerVars, pc, forkOK>>

-----------------------------------------------------------------------------
(* The 1 Hz timer callback.                                                *)

\* _1Hz_timer_callback, transmit pass: send the probe, then visit the cameras.
TickTransmit ==
  /\ pc.at = "idle"
  /\ pass = "tx"
  /\ pass' = "rx"
  /\ pc' = [at |-> "scan", i |-> 1, n |-> Len(order), cam |-> {}]
  /\ UNCHANGED <<configVars, flagVars, procVars, ready, helperVars, shutdown, retry,
                 rpTTL, camonTTL, reported, forkOK>>

\* _1Hz_timer_callback, receive pass: collect who answered, go on to the watch loop.
TickReceive(alive) ==
  /\ pc.at = "idle"
  /\ pass = "rx"
  /\ pass' = "tx"
  /\ reported' = alive
  /\ pc' = [at |-> "watch", i |-> 1, n |-> Len(order), cam |-> {}]
  /\ UNCHANGED <<configVars, flagVars, procVars, ready, helperVars, shutdown, retry,
                 rpTTL, camonTTL, forkOK>>

NextVisit == pc' = [pc EXCEPT !.i = @ + 1]

\* reflect_camera_online_status, camera gone for good: its recorder is buried or stopped.
GoesOffline(c, i) ==
  /\ online' = online \ {c}
  /\ camonTTL' = [camonTTL EXCEPT ![i] = CamonTTL]
  /\ CASE status[c] = {} -> UNCHANGED <<worker, status, nRec, meta, space>>
       [] status[c] # {} /\ worker[c] = "dead" -> camera_recording_just_stopped(c, KeepSpace)
       [] status[c] # {} /\ worker[c] = "alive" -> stop_recording_process(c)
       [] OTHER -> /\ status' = [status EXCEPT ![c] = {}]
                   /\ UNCHANGED <<worker, nRec, meta, space>>
  /\ UNCHANGED <<assigned, mode, retry>>

\* reflect_camera_online_status, camera back: no restart here unless its pid is stale.
GoesOnline(c, i) ==
  /\ online' = online \cup {c}
  /\ camonTTL' = [camonTTL EXCEPT ![i] = CamonTTL]
  /\ IF mode[c] # {} /\ worker[c] = "dead"
     THEN start_recording_process(c)
     ELSE UNCHANGED <<assigned, mode, status, worker, nRec, meta, space, retry>>

StaysAsIs(c, i) ==
  /\ camonTTL' = [camonTTL EXCEPT ![i] =
                    IF c \in reported THEN CamonTTL ELSE IF c \in online THEN @ - 1 ELSE @]
  /\ UNCHANGED <<online, assigned, mode, status, worker, nRec, meta, space, retry>>

reflect_camera_online_status(c, i) ==
  CASE c \notin reported /\ c \in online /\ camonTTL[i] <= 1 -> GoesOffline(c, i)
    [] c \in reported /\ c \notin online -> GoesOnline(c, i)
    [] OTHER -> StaysAsIs(c, i)

\* One visit of the scan loop: cameras[i] of a camera that is assigned.
ScanCamera ==
  /\ pc.at = "scan"
  /\ pc.i <= pc.n
  /\ IF pc.i <= Len(order) /\ order[pc.i] \in assigned
     THEN reflect_camera_online_status(order[pc.i], pc.i)
     ELSE UNCHANGED <<online, assigned, mode, status, worker, nRec, meta, space,
                      retry, camonTTL>>
  /\ NextVisit
  /\ UNCHANGED <<order, paused, orphans, ready, shutdown, rpTTL, pass, reported, forkOK>>

\* End of the scan loop: camon_ncams = -1, then the watch loop starts.
ScanDone ==
  /\ pc.at = "scan"
  /\ pc.i > pc.n
  /\ reported' = {}
  /\ pc' = [at |-> "watch", i |-> 1, n |-> pc.n, cam |-> {}]
  /\ UNCHANGED <<configVars, flagVars, procVars, ready, helperVars, shutdown, retry,
                 rpTTL, camonTTL, pass, forkOK>>

BuryRecorder_Forgotten(c) ==
  UNCHANGED <<online, assigned, mode, status, worker, nRec, meta, space, retry>>

\* The recorder of c died: forget it and treat the camera as offline.
BuryRecorder(c) ==
  /\ online' = online \ {c}
  /\ camera_recording_just_stopped(c, KeepSpace)
  /\ UNCHANGED <<assigned, mode, retry>>

WaitedLonger_Stuck(i) == rpTTL' = [rpTTL EXCEPT ![i] = 0]

WaitedLonger(i) == rpTTL' = [rpTTL EXCEPT ![i] = @ + 1]

\* One visit of the watch loop.
watch(c, i) ==
  CASE mode[c] # {} /\ worker[c] # "none" ->
         /\ rpTTL' = [rpTTL EXCEPT ![i] = 0]
         /\ IF worker[c] = "dead" THEN BuryRecorder(c)
            ELSE UNCHANGED <<online, assigned, mode, status, worker, nRec, meta, space, retry>>
    [] mode[c] # {} /\ worker[c] = "none" /\ c \in online /\ c \in assigned ->
         IF rpTTL[i] > 2 * CamonTTL
         THEN /\ rpTTL' = [rpTTL EXCEPT ![i] = 0]
              /\ start_recording_process(c)
              /\ online' = online
         ELSE /\ WaitedLonger(i)
              /\ UNCHANGED <<online, assigned, mode, status, worker, nRec, meta, space, retry>>
    [] OTHER ->
         UNCHANGED <<rpTTL, online, assigned, mode, status, worker, nRec, meta, space, retry>>

WatchCamera ==
  /\ pc.at = "watch"
  /\ pc.i <= pc.n
  /\ IF pc.i <= Len(order)
     THEN watch(order[pc.i], pc.i)
     ELSE UNCHANGED <<rpTTL, online, assigned, mode, status, worker, nRec, meta, space, retry>>
  /\ NextVisit
  /\ UNCHANGED <<order, paused, orphans, ready, shutdown, camonTTL, pass, reported, forkOK>>

\* End of the callback: look after metarec and the space monitor.
WatchDone ==
  /\ pc.at = "watch"
  /\ pc.i > pc.n
  /\ ready' = ready
  /\ handle_metarec
  /\ space' \in handle_space_monitor(space, nRec)
  /\ pc' = Idle
  /\ UNCHANGED <<configVars, flagVars, procVars, shutdown, retry, timerVars, forkOK>>

-----------------------------------------------------------------------------
(* SIGHUP and the processes' own lives.                                    *)

\* The space monitor's possible states after stop_recording_process has been
\* called for the first k cameras of stops.
SpaceAfterStops(stops) ==
  LET after[k \in 0 .. Len(stops)] ==
        IF k = 0 THEN {space}
        ELSE UNION {{stop_space_monitor(stops[k], t) :
                       t \in handle_space_monitor(s, IF nRec > k THEN nRec - k ELSE 0)} :
                    s \in after[k - 1]}
  IN after[Len(stops)]

StoppedByReload_None(kept, cfg) == {}

\* Kept cameras that are no longer assigned and have a recorder.
StoppedByReload(kept, cfg) == {c \in kept \ cfg.assigned : worker[c] # "none"}

RestoredCount_Zero(stopped) == 0

\* n_cams_recording as saved, less one for each recorder stopped while it is positive.
RestoredCount(stopped) ==
  IF nRec > Cardinality(stopped) THEN nRec - Cardinality(stopped) ELSE 0

\* handle_signal(SIGHUP): save, raconf_init, restore by name.  Cameras of the
\* new configuration keep their recorder; those no longer assigned are stopped;
\* the pid of a camera that left the configuration is forgotten.
Reload(cfg) ==
  LET kept    == Configured \cap {cfg.order[i] : i \in 1 .. Len(cfg.order)}
      stopped == StoppedByReload(kept, cfg)
      running == {c \in kept \cap cfg.assigned : status[c] # {}} IN
  /\ order' = cfg.order
  /\ assigned' = cfg.assigned
  /\ online' = running
  /\ paused' = {}
  /\ mode' = [c \in Cameras |-> IF c \in kept \cap cfg.assigned THEN mode[c] ELSE {}]
  /\ status' = [c \in Cameras |-> IF c \in kept \cap cfg.assigned THEN status[c] ELSE {}]
  /\ worker' = [c \in Cameras |-> IF c \in kept \ stopped THEN worker[c] ELSE "none"]
  /\ orphans' = orphans \cup {c \in Configured \ kept : worker[c] = "alive"}
  /\ nRec' = RestoredCount(stopped)
  /\ nRec' <= MaxLost + Cardinality({c \in Cameras : worker'[c] # "none"})
  /\ IF stopped = {}
     THEN UNCHANGED <<helperVars>>
     ELSE /\ handle_metarec
          /\ space' \in ProcessStates \cap SpaceAfterStops(SelectSeq(cfg.order, LAMBDA c : c \in stopped))
  /\ UNCHANGED <<ready, shutdown, retry, timerVars, pc, forkOK>>

\* rtsprec, metarec and space_monitor may exit at any time.
RecorderDies(c) ==
  /\ "recorder" \in Faults
  /\ worker[c] = "alive"
  /\ worker' = [worker EXCEPT ![c] = "dead"]
  /\ UNCHANGED <<configVars, flagVars, orphans, nRec, ready, helperVars, shutdown, retry,
                 timerVars, pc, forkOK>>

HelperDies ==
  /\ \/ "meta" \in Faults /\ meta = "alive" /\ meta' = "dead" /\ space' = space
     \/ "space" \in Faults /\ space = "alive" /\ space' = "dead" /\ meta' = meta
  /\ UNCHANGED <<configVars, flagVars, procVars, ready, shutdown, retry, timerVars, pc, forkOK>>

OrphanDies(c) ==
  /\ c \in orphans
  /\ orphans' = orphans \ {c}
  /\ UNCHANGED <<configVars, flagVars, worker, nRec, ready, helperVars, shutdown, retry,
                 timerVars, pc, forkOK>>

ForkAbilityChanges ==
  /\ "fork" \in Faults
  /\ forkOK' = ~forkOK
  /\ UNCHANGED <<configVars, flagVars, procVars, ready, helperVars, shutdown, retry,
                 timerVars, pc>>

-----------------------------------------------------------------------------
Messages ==
  \/ \E c \in Cameras, record \in BOOLEAN : CameraRecordPause(c, record)
  \/ \E c \in Cameras : ResetCameraStream(c)
  \/ ResumeCameraStream
  \/ \E drives \in DriveSets : ReadyStatus(drives)
  \/ \E drives \in {{"CHM"}, {"SSD"}, Drives} : Shutdown(drives)
  \/ \E c \in Cameras, msg \in SettingsMsgs : CameraSettings(c, msg)

Tick ==
  \/ TickTransmit
  \/ \E alive \in SUBSET Cameras : TickReceive(alive)

Visit == ScanCamera \/ ScanDone \/ WatchCamera \/ WatchDone

Environment ==
  \/ \E cfg \in Configs : Reload(cfg)
  \/ \E c \in Cameras : RecorderDies(c)
  \/ HelperDies
  \/ \E c \in Cameras : OrphanDies(c)
  \/ ForkAbilityChanges

Next == Messages \/ Tick \/ Visit \/ Environment

Spec == Init /\ [][Next]_vars

\* The event loop finishes every callback it starts and keeps serving the
\* periodic timer however many messages arrive.
FairSpec == Spec /\ WF_vars(Visit \/ ResumeCameraStream) /\ SF_vars(Tick)

-----------------------------------------------------------------------------
(* Safety properties.                                                      *)

\* A camera whose recording_status_flags say it is recording has a recorder
\* process on record: the host is never told of recording that nobody supervises.
StatusHasRecorder == \A c \in Cameras : status[c] # {} => worker[c] # "none"

\* n_cams_recording counts exactly the cameras with a recorder process, through
\* starts, deaths noticed in two different places, stops and reloads.
CountMatchesRecorders == nRec = Cardinality({c \in Cameras : worker[c] # "none"})

\* Only assigned cameras have a recorder: giving up after failed starts and a
\* reload that unassigns a camera both leave none behind.
RecordersOnlyForAssigned == \A c \in Cameras : worker[c] # "none" => c \in assigned

\* Once start_recording_process has given a slot up ("No more tries") no later
\* step, a reload that assigns the camera again included, starts a recorder for it.
GivenUpForGood ==
  [][\A i \in 1 .. Len(order) :
       retry[i] > MaxRetries => /\ retry'[i] > MaxRetries
                                /\ worker'[order[i]] = "none"]_vars

\* A camera commanded to pause gets no recorder while the pause stands, whatever
\* drives come and go and however often the watch loop passes by.
PausedStaysStopped ==
  [][\A c \in paused \cap paused' : worker[c] = "none" => worker'[c] = "none"]_vars

\* Whatever a reload drops from the configuration, n_cams_recording never falls
\* below the number of recorders on record, so a stop always finds it positive.
CountNeverLow == nRec >= Cardinality({c \in Cameras : worker[c] # "none"})

\* The supervisor's bookkeeping of recorder processes is that of RecorderPool.
Pool == INSTANCE RecorderPool WITH proc <- worker, count <- nRec
PoolSpec == Pool!Spec

\* Every configuration names the same cameras, in whatever order.
NoneDropped ==
  \A a, b \in Configs : {a.order[i] : i \in 1 .. Len(a.order)} = {b.order[i] : i \in 1 .. Len(b.order)}

\* A camera has the same place in every configuration that names it.
SamePlaces ==
  \A a, b \in Configs : \A i \in 1 .. Len(a.order), j \in 1 .. Len(b.order) :
    a.order[i] = b.order[j] => i = j

-----------------------------------------------------------------------------
(* Liveness properties.                                                    *)

\* The watch loop notices a dead recorder of a camera that is meant to record.
DeadRecorderNoticed ==
  \A c \in Cameras :
    (worker[c] = "dead" /\ mode[c] # {}) ~> (worker[c] # "dead" \/ mode[c] = {})

\* A camera that is online, assigned and meant to record gets a recorder, or is
\* given up, unless it goes away, is paused or the CHM it needs is missing.
LostRecorderRestarted ==
  \A c \in Cameras :
    (c \in online /\ c \in assigned /\ mode[c] # {} /\ worker[c] = "none")
      ~> (worker[c] # "none" \/ c \notin online \/ c \notin assigned \/ mode[c] = {}
          \/ "CHM" \notin ready)

\* Once processes can be created again, metarec runs while a drive is ready and
\* the space monitor runs while cameras record.
HelpersReturn ==
  <>[]forkOK => /\ (ready # {} ~> (meta = "alive" \/ ready = {}))
                /\ (nRec > 0 ~> (space = "alive" \/ nRec = 0))

-----------------------------------------------------------------------------
(* What comments in the code say and the code does not do.                 *)

\* raconf_init: "see if there are remnants from previous configuration init.
\* Clean-up, if so".
NoRemnants == orphans = {}
=============================================================================
