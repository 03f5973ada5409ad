---------------------------- MODULE DriveControl ----------------------------
(***************************************************************************)
(* The drive side of the host's event control                              *)
(* (host_utils/ra_video_rec/event_control/event_control.c): the 10 Hz      *)
(* callback watches the power-down indicator, the CHM connection and the   *)
(* caddy door of the removable SSD, and tells the recording agent (VRA)    *)
(* which drives it may record to.                                          *)
(*                                                                         *)
(* The 10 Hz callback and the timer handlers run one after the other in    *)
(* the PTC event loop; the door, the host and the mount threads act at any *)
(* time between them.  The build is the one for LDRS (neither LNVR nor     *)
(* QNX).  The handler of the video shutdown timer is not in the            *)
(* repository; what the code here needs of it is external.                 *)
(***************************************************************************)
EXTENDS Naturals

CONSTANTS
  PsonEvery,    \* NUM_INTERATIONS_BEFORE_CHECKING_PSON
  ChmEvery,     \* CHECK_CHM_CONNECT_THRESHOLD
  MaxThreads,   \* bound: threads waiting to mount the CHM at the same time
  Faults        \* "blip": the door may change twice between two polls
                \* "chm": the CHM may be disconnected and connected again
                \* "power": power may fail
                \* "mount": a drive that is there may fail to be mounted
                \* "reading": getDoorLockStatus may answer DOOR_UNKNOWN

ASSUME ThresholdsAssumption == PsonEvery \in Nat \ {0} /\ ChmEvery \in Nat \ {0}
ASSUME MaxThreadsAssumption == MaxThreads \in Nat \ {0}
ASSUME FaultsAssumption == Faults \subseteq {"blip", "chm", "power", "mount", "reading"}

VARIABLES
  door,           \* the caddy door: "locked" or "unlocked"
  inserted,       \* a removable SSD is in the caddy
  pson,           \* the power-down indicator in shared memory
  connected,      \* chm_connect in shared memory
  recordingChm,   \* recStatusOnCHM
  chmMounted, mounted,   \* the two video filesystems
  chmThreads, threads,   \* threads that have yet to mount the CHM, the SSD
  prevDoor,       \* prev_lock_status of process_door_lock_status
  checkMount, startup, shutdownStarted,
  removableReady, chmReady,     \* removableReady, chmReadyFlag
  chmSeen,        \* chm_ready of process_chm_connect_status: "unknown" is -1
  mountTimer, shutdownTimer,    \* active PTC timers
  psonCount, chmCount,          \* the counters of the two slower checks
  goingDown,      \* power_going_down
  status,         \* driveReadyStatus
  requested,      \* driveStatusRequested
  told,           \* the drives the VRA was last told it may use
  polled,         \* history: the door was polled since it was turned
  missed          \* history: the latest chance to mount the drive or to tell the VRA of
                  \* it was missed, and the door was not seen unlocked since

envVars == <<door, inserted, pson, connected, recordingChm>>
mountVars == <<chmMounted, mounted, chmThreads, threads>>
doorVars == <<prevDoor, checkMount, startup, shutdownStarted, mountTimer, shutdownTimer>>
chmVars == <<chmReady, chmSeen, chmCount>>
powerVars == <<psonCount, goingDown>>
msgVars == <<status, requested, told>>
history == <<polled, missed>>
vars == <<door, inserted, pson, connected, recordingChm, chmMounted, mounted, chmThreads,
          threads, prevDoor, checkMount, startup, shutdownStarted, removableReady, chmReady,
          chmSeen, mountTimer, shutdownTimer, psonCount, chmCount, goingDown, status,
          requested, told, polled, missed>>

-----------------------------------------------------------------------------
(* The outside world                                                       *)

\* The door is turned, without "blip" at most once between two polls.
TurnDoor ==
  /\ "blip" \in Faults \/ polled
  /\ door' = IF door = "locked" THEN "unlocked" ELSE "locked"
  /\ polled' = FALSE
  /\ UNCHANGED <<inserted, pson, connected, recordingChm, mountVars, doorVars, removableReady,
                 chmVars, powerVars, msgVars, missed>>

\* A drive is put in; or taken out once it is not mounted any more.
SwapDrive ==
  /\ door = "unlocked" /\ ~mounted
  /\ inserted' = ~inserted
  /\ UNCHANGED <<door, pson, connected, recordingChm, mountVars, doorVars, removableReady,
                 chmVars, powerVars, msgVars, history>>

PowerFails ==
  /\ "power" \in Faults /\ ~pson
  /\ pson' = TRUE
  /\ UNCHANGED <<door, inserted, connected, recordingChm, mountVars, doorVars, removableReady,
                 chmVars, powerVars, msgVars, history>>

\* The CHM data recorder connects and disconnects the CHM; the VRA reports
\* whether it records to it, which it does only when told that it may.
ChmChanges ==
  /\ "chm" \in Faults
  /\ \/ connected' = ~connected /\ UNCHANGED recordingChm
     \/ recordingChm' = ~recordingChm /\ "CHM" \in told /\ UNCHANGED connected
     \/ recordingChm /\ recordingChm' = FALSE /\ UNCHANGED connected
  /\ UNCHANGED <<door, inserted, pson, mountVars, doorVars, removableReady, chmVars, powerVars,
                 msgVars, history>>

-----------------------------------------------------------------------------
(* The mount threads                                                       *)

\* What getDoorLockStatus may answer.
Readings == {door} \cup (IF "reading" \in Faults THEN {"unknown"} ELSE {})

\* Whether mounting a drive that is there works.
MountWorks == IF "mount" \in Faults THEN BOOLEAN ELSE {TRUE}

\* chmSSDMountHandler: the device may be absent, mount may fail.
MountChm ==
  /\ chmThreads > 0
  /\ chmThreads' = chmThreads - 1
  /\ \E works \in MountWorks, present \in {TRUE, connected} :
       chmMounted' = (chmMounted \/ (present /\ works))
  /\ UNCHANGED <<envVars, mounted, threads, doorVars, removableReady, chmVars, powerVars,
                 msgVars, history>>

\* removableSSDThreadhandler after its sleep: mounted only if the door is still
\* locked, there is a drive and its mount works.  A thread that could not be
\* created is one that mounts nothing.
MountRemovable ==
  /\ threads > 0
  /\ threads' = threads - 1
  /\ \E lock \in Readings, works \in MountWorks :
       /\ mounted' = (mounted \/ (lock = "locked" /\ inserted /\ works))
       /\ missed' = (missed \/ lock = "unknown" \/ (lock = "locked" /\ inserted /\ ~works))
  /\ UNCHANGED <<envVars, chmMounted, chmThreads, doorVars, removableReady, chmVars, powerVars,
                 msgVars, polled>>

-----------------------------------------------------------------------------
(* The parts of the 10 Hz callback                                         *)

Ready(chm, ssd) == (IF chm THEN {"CHM"} ELSE {}) \cup (IF ssd THEN {"SSD"} ELSE {})

\* The power-down indicator is read on every PsonEvery-th call until it was
\* seen set.
PowerDown == ~goingDown /\ psonCount + 1 = PsonEvery /\ pson

PowerCheck ==
  /\ goingDown' = (goingDown \/ PowerDown)
  /\ psonCount' = IF goingDown THEN psonCount
                  ELSE IF psonCount + 1 = PsonEvery /\ ~pson THEN 0 ELSE psonCount + 1

\* Mutant: the status that was requested is sent whatever happened to the power.
Announced_IgnoresPower == IF requested \/ PowerDown THEN status ELSE told

\* What the VRA knows after READY_STATUS: no drive at all when power goes down,
\* before the shutdown command that follows it.
Announced ==
  IF ~(requested \/ PowerDown) THEN told
  ELSE IF goingDown \/ PowerDown THEN {} ELSE status

\* The callback returns right after the shutdown command.
ReturnsEarly == (requested /\ goingDown) \/ PowerDown

Answer(ready) == IF ready THEN "yes" ELSE "no"

\* process_chm_connect_status: connected, the CHM is mounted by a thread and
\* ready once it is; disconnected, it is unmounted unless it is recorded to.
ChmCheck ==
  IF chmCount < ChmEvery
  THEN /\ chmCount' = chmCount + 1
       /\ UNCHANGED <<chmThreads, chmMounted, chmReady, chmSeen>>
  ELSE /\ chmCount' = 0
       /\ chmThreads' = IF connected /\ ~chmMounted /\ chmThreads < MaxThreads
                        THEN chmThreads + 1 ELSE chmThreads
       /\ chmMounted' = (chmMounted /\ (connected \/ recordingChm))
       /\ chmReady' = IF connected THEN chmReady \/ chmMounted ELSE chmReady /\ recordingChm
       /\ chmSeen' = Answer(chmReady')

\* Mutant: only the CHM that becomes ready is announced.
ChmChanged_OnlyReady == chmSeen = "no" /\ chmSeen' = "yes"

\* The first answer is not a change.
ChmChanged == chmSeen # "unknown" /\ chmSeen' # chmSeen

\* Mutant: a door that is locked again does not force a mount check.
MountWanted_OnlyOnce(lock) == checkMount

\* The door was unlocked at the last poll and is locked now: checkMount is set.
MountWanted(lock) == checkMount \/ (prevDoor = "unlocked" /\ lock = "locked")

\* Mutant: the mount timer is not looked at.
StartsMount_Again(lock) ==
  lock = "locked" /\ ~removableReady /\ MountWanted(lock) /\ ~shutdownStarted

StartsMount(lock) ==
  lock = "locked" /\ ~removableReady /\ MountWanted(lock) /\ ~mountTimer /\ ~shutdownStarted

\* Mutant: only the turn of the door is looked at.
Unlocked_OnTheEdge(lock) == prevDoor = "locked" /\ lock = "unlocked" /\ removableReady

\* The door is unlocked while the SSD is in operation.
Unlocked(lock) == lock = "unlocked" /\ removableReady

\* An invalid reading hides that the door is or was unlocked.
HidesUnlocking(lock) == lock = "unknown" /\ (door = "unlocked" \/ prevDoor = "unlocked")

\* process_door_lock_status, its messages aside.  DOOR_UNKNOWN is remembered like
\* the other readings.
DoorCheck(lock) ==
  /\ checkMount' = (MountWanted(lock) /\ ~StartsMount(lock))
  /\ mountTimer' = (mountTimer \/ StartsMount(lock))
  /\ threads' = IF StartsMount(lock) THEN threads + 1 ELSE threads
  /\ shutdownStarted' = (shutdownStarted \/ Unlocked(lock))
  /\ shutdownTimer' = (shutdownTimer \/ Unlocked(lock))
  /\ prevDoor' = lock
  /\ startup' = FALSE
  /\ polled' = TRUE
  /\ missed' = (HidesUnlocking(lock) \/ (missed /\ lock # "unlocked" /\ ~StartsMount(lock)))

\* SHUTDOWN_REMOVABLE_SSD is sent when the shutdown timer is started.
Withdrawn(lock) == IF Unlocked(lock) /\ ~shutdownTimer THEN {"SSD"} ELSE {}

\* A READY_STATUS is requested by a change of the CHM, or by a door that is
\* unlocked at startup.
Requests(lock) == ChmChanged \/ (startup /\ lock = "unlocked" /\ ~removableReady)

\* check_for_event up to the discrete inputs.
CheckForEvent ==
  /\ PowerCheck
  /\ IF ReturnsEarly
     THEN /\ told' = Announced
          /\ requested' = FALSE
          /\ UNCHANGED <<status, chmThreads, chmMounted, chmVars, threads, doorVars, history>>
     ELSE \E lock \in Readings :
          /\ ChmCheck
          /\ DoorCheck(lock)
          /\ told' = Announced \ Withdrawn(lock)
          /\ requested' = Requests(lock)
          /\ status' = IF Requests(lock) THEN Ready(chmReady', removableReady) ELSE status
  /\ UNCHANGED <<envVars, mounted, removableReady>>

-----------------------------------------------------------------------------
(* The timers                                                              *)

\* Mutant: the mount is taken to have worked.
Outcome_Trusted == TRUE

\* filesys_is_mounted.
Outcome == mounted

\* No status is sent unless the door is read as locked.
AnnouncesMount(lock) == lock = "locked"

\* mountRemovableSSDTimerEventHandler.  The timer is longer than the two sleeps
\* of the mount thread.
MountTimer ==
  /\ mountTimer /\ threads = 0
  /\ mountTimer' = FALSE
  /\ removableReady' = Outcome
  /\ \E lock \in Readings :
       /\ IF AnnouncesMount(lock)
          THEN status' = Ready(chmReady, Outcome) /\ requested' = TRUE
          ELSE UNCHANGED <<status, requested>>
       /\ missed' = (missed \/ ~AnnouncesMount(lock))
  /\ UNCHANGED <<envVars, mountVars, prevDoor, checkMount, startup, shutdownStarted,
                 shutdownTimer, chmVars, powerVars, told, polled>>

\* The video shutdown timer: the drive is unmounted, and not ready any more.
ShutdownTimer ==
  /\ shutdownTimer
  /\ shutdownTimer' = FALSE
  /\ shutdownStarted' = FALSE
  /\ mounted' = FALSE
  /\ removableReady' = FALSE
  /\ UNCHANGED <<envVars, chmMounted, chmThreads, threads, prevDoor, checkMount, startup,
                 mountTimer, chmVars, powerVars, msgVars, history>>

-----------------------------------------------------------------------------
Init ==
  /\ door \in {"locked", "unlocked"} /\ inserted \in BOOLEAN /\ pson = FALSE
  /\ connected \in BOOLEAN /\ recordingChm = FALSE
  /\ chmMounted = connected /\ mounted = FALSE /\ chmThreads = 0 /\ threads = 0
  /\ prevDoor = "unknown" /\ checkMount = TRUE /\ startup = TRUE
  /\ shutdownStarted = FALSE /\ removableReady = FALSE /\ chmReady = connected
  /\ chmSeen = "unknown" /\ mountTimer = FALSE /\ shutdownTimer = FALSE
  /\ psonCount = 0 /\ chmCount = ChmEvery /\ goingDown = FALSE
  /\ status = {} /\ requested = FALSE /\ told = {}
  /\ polled = FALSE /\ missed = FALSE

EnvStep == TurnDoor \/ SwapDrive \/ PowerFails \/ ChmChanges

LoopStep == CheckForEvent \/ MountTimer \/ ShutdownTimer

Next == EnvStep \/ MountChm \/ MountRemovable \/ LoopStep

Spec == Init /\ [][Next]_vars

\* The event loop calls the 10 Hz callback again and again and every timer that
\* is due; the threads are scheduled.  Nothing is assumed of the outside world.
Fairness ==
  /\ WF_vars(CheckForEvent) /\ WF_vars(MountTimer) /\ WF_vars(ShutdownTimer)
  /\ WF_vars(MountChm) /\ WF_vars(MountRemovable)

FairSpec == Spec /\ Fairness

-----------------------------------------------------------------------------
(* Properties                                                              *)

TypeOK ==
  /\ door \in {"locked", "unlocked"} /\ inserted \in BOOLEAN /\ pson \in BOOLEAN
  /\ connected \in BOOLEAN /\ recordingChm \in BOOLEAN
  /\ chmMounted \in BOOLEAN /\ mounted \in BOOLEAN
  /\ chmThreads \in 0..MaxThreads /\ threads \in Nat
  /\ prevDoor \in {"unknown", "locked", "unlocked"}
  /\ checkMount \in BOOLEAN /\ startup \in BOOLEAN /\ shutdownStarted \in BOOLEAN
  /\ removableReady \in BOOLEAN /\ chmReady \in BOOLEAN
  /\ chmSeen \in {"unknown", "yes", "no"}
  /\ mountTimer \in BOOLEAN /\ shutdownTimer \in BOOLEAN
  /\ psonCount \in 0..PsonEvery /\ chmCount \in 0..ChmEvery /\ goingDown \in BOOLEAN
  /\ status \subseteq {"CHM", "SSD"} /\ requested \in BOOLEAN /\ told \subseteq {"CHM", "SSD"}
  /\ polled \in BOOLEAN /\ missed \in BOOLEAN

\* startRemovableSSDMountProcess creates a thread without looking for the one
\* before: the mount timer keeps two of them from powering and mounting the
\* drive at the same time, however often the door is turned.
OneMountThread == threads <= 1

\* removableReady is set by the mount timer and cleared by the shutdown timer,
\* the filesystem is mounted by a thread: the flag is never set for a drive
\* that is not mounted.
ReadyIsMounted == removableReady => mounted

\* Once the VRA was told that power is going down it is never again told that
\* a drive is ready, whatever the CHM, the door and the mount timer still ask
\* check_for_event to send.
PowerLossIsFinal == goingDown => told = {}

\* A CHM that is not ready any more is withdrawn by the very next callback: a
\* READY_STATUS request is never overwritten by one with older flags.
ChmLossIsTold == "CHM" \in told => chmReady \/ requested

\* With a drive in the caddy and the door left locked, and read as such, the
\* removable SSD ends up ready and the VRA told of it, unless power fails: a mount
\* that the thread aborted, or that failed without a drive, is tried again when
\* the door is locked again, and no message overtakes the one that announces the
\* drive.  The exceptions are those the code does not try again: a mount that
\* failed with the drive in place (checkMount is false, :998), a reading of
\* DOOR_UNKNOWN that hid an unlocking from the poll or the locked door from the
\* mount thread, and a mount timer that did not find the door locked (:1077), when
\* the next poll does not find it unlocked either.
DriveComesBack ==
  <>[](door = "locked" /\ prevDoor = "locked" /\ inserted /\ ~pson) =>
    <>[](missed \/ (removableReady /\ "SSD" \in told))

\* A door that stays unlocked and is read as such ends with the drive unmounted, so
\* that it can be taken out: the shutdown of the drive always completes.
DriveIsReleased ==
  <>[](door = "unlocked" /\ prevDoor = "unlocked" /\ ~goingDown /\ ~pson) => <>[]~mounted
=============================================================================
