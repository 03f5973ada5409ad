------------------------- MODULE DriveControlProofs -------------------------
(***************************************************************************)
(* The safety invariants of DriveControl, for all thresholds and bounds.   *)
(* Three of them are inductive with little help; that a lost CHM is told   *)
(* needs what the code keeps in step between two callbacks: chm_ready      *)
(* remembers chmReadyFlag, and a pending status was computed from it.  The *)
(* last section is about the mounting and the shutdown of the SSD.         *)
(***************************************************************************)
EXTENDS DriveControl, TLAPS

\* The mount timer runs as long as a mount thread does.
ThreadsTimed == threads > 0 => mountTimer

\* chm_ready is -1 until the first check, which the first callback makes.
BeforeFirstCheck ==
  chmSeen = "unknown" => chmCount = ChmEvery /\ told = {} /\ ~requested /\ ~mountTimer

\* Afterwards it is the CHM's flag.
SeenIsReady == chmSeen # "unknown" => chmSeen = Answer(chmReady)

\* A status waiting to be sent does not announce a CHM that is not ready.
PendingIsFresh == requested /\ "CHM" \in status => chmReady

\* The counter of the power check stands below its threshold until power goes down.
PsonCounting == ~goingDown => psonCount < PsonEvery

IInv ==
  /\ TypeOK
  /\ PsonCounting
  /\ OneMountThread
  /\ ThreadsTimed
  /\ ReadyIsMounted
  /\ PowerLossIsFinal
  /\ BeforeFirstCheck
  /\ SeenIsReady
  /\ PendingIsFresh
  /\ ChmLossIsTold

\* The initial states.
LEMMA InitIInv == Init => IInv
<1> SUFFICES ASSUME Init PROVE IInv
  OBVIOUS
<1>1. /\ psonCount \in 0 .. PsonEvery /\ chmCount \in 0 .. ChmEvery
      /\ chmThreads \in 0 .. MaxThreads /\ threads \in Nat
  BY ThresholdsAssumption, MaxThreadsAssumption DEF Init
<1>2. TypeOK
  BY <1>1, Zenon DEF Init, TypeOK
<1>3. PsonCounting /\ OneMountThread /\ ThreadsTimed
  BY ThresholdsAssumption DEF Init, PsonCounting, OneMountThread, ThreadsTimed
<1>4. /\ ReadyIsMounted /\ PowerLossIsFinal /\ BeforeFirstCheck /\ SeenIsReady
      /\ PendingIsFresh /\ ChmLossIsTold
  BY DEF Init, ReadyIsMounted, PowerLossIsFinal, BeforeFirstCheck, SeenIsReady,
         PendingIsFresh, ChmLossIsTold
<1>5. QED
  BY <1>2, <1>3, <1>4 DEF IInv

\* The door, the drives and the power line do not disturb the invariant.
LEMMA EnvStepPreserves == IInv /\ EnvStep => IInv'
<1> SUFFICES ASSUME IInv, EnvStep PROVE IInv'
  OBVIOUS
<1> USE DEF IInv, TypeOK, OneMountThread, ThreadsTimed, ReadyIsMounted, PowerLossIsFinal,
            PsonCounting,
            BeforeFirstCheck, SeenIsReady, PendingIsFresh, ChmLossIsTold, Answer,
            mountVars, doorVars, chmVars, powerVars, msgVars, history
<1>1. CASE TurnDoor
  <2>1. door' \in {"locked", "unlocked"} /\ polled' \in BOOLEAN
    BY <1>1, Zenon DEF TurnDoor
  <2>2. QED
    BY <1>1, <2>1 DEF TurnDoor
<1>2. CASE SwapDrive
  BY <1>2 DEF SwapDrive
<1>3. CASE PowerFails
  BY <1>3 DEF PowerFails
<1>4. CASE ChmChanges
  <2>1. connected' \in BOOLEAN /\ recordingChm' \in BOOLEAN
    BY <1>4, Zenon DEF ChmChanges
  <2>2. QED
    BY <1>4, <2>1 DEF ChmChanges
<1>5. QED
  BY <1>1, <1>2, <1>3, <1>4 DEF EnvStep

\* Nor do the mount threads.
LEMMA ThreadsPreserve == IInv /\ (MountChm \/ MountRemovable) => IInv'
<1> SUFFICES ASSUME IInv, MountChm \/ MountRemovable PROVE IInv'
  OBVIOUS
<1> USE MaxThreadsAssumption
    DEF IInv, TypeOK, OneMountThread, ThreadsTimed, ReadyIsMounted, PowerLossIsFinal,
            PsonCounting,
        BeforeFirstCheck, SeenIsReady, PendingIsFresh, ChmLossIsTold, Answer,
        envVars, doorVars, chmVars, powerVars, msgVars, history
<1>1. CASE MountChm
  BY <1>1 DEF MountChm
<1>2. CASE MountRemovable
  BY <1>2 DEF MountRemovable
<1>3. QED
  BY <1>1, <1>2

\* Nor do the handlers of the two timers.
LEMMA TimersPreserve == IInv /\ (MountTimer \/ ShutdownTimer) => IInv'
<1> SUFFICES ASSUME IInv, MountTimer \/ ShutdownTimer PROVE IInv'
  OBVIOUS
<1> USE DEF IInv, TypeOK, OneMountThread, ThreadsTimed, ReadyIsMounted, PowerLossIsFinal,
            PsonCounting,
            BeforeFirstCheck, SeenIsReady, PendingIsFresh, ChmLossIsTold, Answer,
            envVars, mountVars, chmVars, powerVars, msgVars, history
<1>1. CASE MountTimer
  <2>1. /\ mountTimer' \in BOOLEAN /\ removableReady' \in BOOLEAN
        /\ requested' \in BOOLEAN /\ status' \subseteq {"CHM", "SSD"}
    BY <1>1, Zenon DEF MountTimer, Outcome, Ready
  <2>2. PendingIsFresh' /\ ChmLossIsTold' /\ ReadyIsMounted'
    BY <1>1 DEF MountTimer, Outcome, Ready
  <2>3. QED
    BY <1>1, <2>1, <2>2 DEF MountTimer
<1>2. CASE ShutdownTimer
  <2>1. /\ shutdownTimer' \in BOOLEAN /\ shutdownStarted' \in BOOLEAN
        /\ mounted' \in BOOLEAN /\ removableReady' \in BOOLEAN
    BY <1>2, Zenon DEF ShutdownTimer
  <2>2. ReadyIsMounted'
    BY <1>2 DEF ShutdownTimer
  <2>3. QED
    BY <1>2, <2>1, <2>2 DEF ShutdownTimer
<1>3. QED
  BY <1>1, <1>2

-----------------------------------------------------------------------------
(* The 10 Hz callback.                                                     *)

\* The check of the power line keeps its counter and flag in range.
LEMMA PowerTypes ==
  ASSUME TypeOK, PsonCounting, PowerCheck
  PROVE  psonCount' \in 0 .. PsonEvery /\ goingDown' \in BOOLEAN /\ PsonCounting'
<1>1. goingDown' \in BOOLEAN
  BY Zenon DEF PowerCheck, TypeOK, PowerDown
<1>2. psonCount' \in 0 .. PsonEvery
  BY ThresholdsAssumption DEF PowerCheck, TypeOK, PsonCounting
<1>3. PsonCounting'
  BY ThresholdsAssumption DEF PowerCheck, PowerDown, TypeOK, PsonCounting
<1>4. QED
  BY <1>1, <1>2, <1>3

\* A callback that returns early has told the VRA to use no drive.
LEMMA EarlyReturnPreserves == IInv /\ CheckForEvent /\ ReturnsEarly => IInv'
<1> SUFFICES ASSUME IInv, CheckForEvent, ReturnsEarly PROVE IInv'
  OBVIOUS
<1>1. /\ PowerCheck
      /\ told' = Announced
      /\ requested' = FALSE
      /\ UNCHANGED <<status, chmThreads, chmMounted, chmVars, threads, doorVars, envVars,
                     mounted, removableReady, history>>
  BY DEF CheckForEvent
<1>2. told' = {}
  BY <1>1 DEF Announced, ReturnsEarly
<1>3. TypeOK'
  <2>1. requested' \in BOOLEAN
    BY <1>1, Zenon
  <2>2. QED
    BY <1>1, <1>2, <2>1, PowerTypes DEF IInv, TypeOK, envVars, doorVars, chmVars, history
<1>4. QED
  BY <1>1, <1>2, <1>3, PowerTypes
     DEF IInv, OneMountThread, ThreadsTimed, ReadyIsMounted, PowerLossIsFinal,
         PsonCounting, BeforeFirstCheck,
         SeenIsReady, PendingIsFresh, ChmLossIsTold, envVars, doorVars, chmVars

\* The check of the CHM keeps its variables in range.
LEMMA ChmTypes ==
  ASSUME TypeOK, ChmCheck
  PROVE  /\ chmCount' \in 0 .. ChmEvery
         /\ chmThreads' \in 0 .. MaxThreads
         /\ chmMounted' \in BOOLEAN
         /\ chmReady' \in BOOLEAN
         /\ chmSeen' \in {"unknown", "yes", "no"}
<1>1. chmCount' \in 0 .. ChmEvery /\ chmThreads' \in 0 .. MaxThreads
  BY ThresholdsAssumption, MaxThreadsAssumption DEF TypeOK, ChmCheck
<1>2. chmMounted' \in BOOLEAN /\ chmReady' \in BOOLEAN
  BY DEF TypeOK, ChmCheck
<1>3. chmSeen' \in {"unknown", "yes", "no"}
  BY DEF TypeOK, ChmCheck, Answer
<1>4. QED
  BY <1>1, <1>2, <1>3

\* The check of the door keeps its variables in range.
LEMMA DoorTypes ==
  ASSUME TypeOK, NEW lock \in Readings, DoorCheck(lock)
  PROVE  /\ checkMount' \in BOOLEAN /\ mountTimer' \in BOOLEAN /\ threads' \in Nat
         /\ shutdownStarted' \in BOOLEAN /\ shutdownTimer' \in BOOLEAN
         /\ prevDoor' \in {"unknown", "locked", "unlocked"} /\ startup' \in BOOLEAN
         /\ polled' \in BOOLEAN /\ missed' \in BOOLEAN
<1>1. /\ checkMount' \in BOOLEAN /\ mountTimer' \in BOOLEAN /\ startup' \in BOOLEAN
      /\ shutdownStarted' \in BOOLEAN /\ shutdownTimer' \in BOOLEAN
      /\ polled' \in BOOLEAN /\ missed' \in BOOLEAN
  BY Zenon DEF TypeOK, DoorCheck
<1>2. threads' \in Nat /\ prevDoor' \in {"unknown", "locked", "unlocked"}
  BY DEF TypeOK, DoorCheck, Readings
<1>3. QED
  BY <1>1, <1>2

\* What ChmCheck leaves between the flag and chm_ready.
LEMMA ChmCheckEffect ==
  ASSUME IInv, ChmCheck
  PROVE  /\ chmSeen' # "unknown"
         /\ chmSeen' = Answer(chmReady')
         /\ chmSeen # "unknown" /\ chmReady /\ ~chmReady' => ChmChanged
<1>1. chmReady' \in BOOLEAN
  BY ChmTypes DEF IInv
<1>2. CASE chmCount < ChmEvery
  <2>1. UNCHANGED <<chmReady, chmSeen>>
    BY <1>2 DEF ChmCheck
  <2>2. chmSeen # "unknown"
    BY <1>2, ThresholdsAssumption DEF IInv, BeforeFirstCheck
  <2>3. QED
    BY <2>1, <2>2 DEF IInv, SeenIsReady, Answer
<1>3. CASE ~(chmCount < ChmEvery)
  <2>1. chmSeen' = Answer(chmReady')
    BY <1>3 DEF ChmCheck
  <2>2. QED
    BY <2>1, <1>1 DEF IInv, SeenIsReady, Answer, ChmChanged
<1>4. QED
  BY <1>2, <1>3

\* A callback that makes all its checks keeps the invariant.
LEMMA FullCallbackPreserves == IInv /\ CheckForEvent /\ ~ReturnsEarly => IInv'
<1> SUFFICES ASSUME IInv, CheckForEvent, ~ReturnsEarly PROVE IInv'
  OBVIOUS
<1>0. PICK lock \in Readings :
        /\ ChmCheck
        /\ DoorCheck(lock)
        /\ told' = Announced \ Withdrawn(lock)
        /\ requested' = Requests(lock)
        /\ status' = IF Requests(lock) THEN Ready(chmReady', removableReady) ELSE status
  BY DEF CheckForEvent
<1>1. /\ PowerCheck /\ ChmCheck /\ DoorCheck(lock)
      /\ told' = Announced \ Withdrawn(lock)
      /\ requested' = Requests(lock)
      /\ status' = IF Requests(lock) THEN Ready(chmReady', removableReady) ELSE status
      /\ UNCHANGED <<envVars, mounted, removableReady>>
  BY <1>0 DEF CheckForEvent
<1>2. TypeOK'
  <2>1. told' \subseteq {"CHM", "SSD"} /\ status' \subseteq {"CHM", "SSD"}
    BY <1>1 DEF IInv, TypeOK, Announced, Ready
  <2>2. requested' \in BOOLEAN
    BY <1>1 DEF Requests, ChmChanged, TypeOK, IInv
  <2>3. QED
    BY <1>1, <2>1, <2>2, PowerTypes, ChmTypes, DoorTypes DEF IInv, TypeOK, envVars
<1>3. OneMountThread' /\ ThreadsTimed'
  <2>1. CASE StartsMount(lock)
    <3>1. threads = 0
      BY <2>1 DEF StartsMount, IInv, TypeOK, ThreadsTimed
    <3>2. mountTimer'
      BY <1>1, <2>1, Zenon DEF DoorCheck
    <3>3. QED
      BY <1>1, <2>1, <3>1, <3>2 DEF DoorCheck, OneMountThread, ThreadsTimed
  <2>2. CASE ~StartsMount(lock)
    <3>1. mountTimer => mountTimer'
      BY <1>1, Zenon DEF DoorCheck
    <3>2. QED
      BY <1>1, <2>2, <3>1 DEF IInv, DoorCheck, OneMountThread, ThreadsTimed
  <2>3. QED
    BY <2>1, <2>2
<1>4. ReadyIsMounted'
  BY <1>1 DEF IInv, ReadyIsMounted
<1>5. PowerLossIsFinal' /\ PsonCounting'
  BY <1>1, PowerTypes DEF IInv, PowerLossIsFinal, PowerCheck, Announced, ReturnsEarly
<1>6. /\ chmSeen' # "unknown"
      /\ chmSeen' = Answer(chmReady')
      /\ chmSeen # "unknown" /\ chmReady /\ ~chmReady' => ChmChanged
  BY <1>1, ChmCheckEffect
<1>7. BeforeFirstCheck' /\ SeenIsReady'
  BY <1>6 DEF BeforeFirstCheck, SeenIsReady, Answer
<1>8. PendingIsFresh'
  BY <1>1 DEF PendingIsFresh, Ready
<1>9. ChmLossIsTold'
  <2> SUFFICES ASSUME "CHM" \in told' PROVE chmReady' \/ requested'
    BY DEF ChmLossIsTold
  <2>1. "CHM" \in Announced
    BY <1>1
  <2>2. chmReady
    BY <2>1 DEF Announced, IInv, PendingIsFresh, ChmLossIsTold, ReturnsEarly
  <2>3. chmSeen # "unknown"
    BY <2>1 DEF Announced, IInv, BeforeFirstCheck, ReturnsEarly
  <2>4. QED
    BY <1>1, <1>6, <2>2, <2>3 DEF Requests
<1>10. QED
  BY <1>2, <1>3, <1>4, <1>5, <1>7, <1>8, <1>9 DEF IInv

-----------------------------------------------------------------------------
\* Every step of the host keeps the inductive invariant.
THEOREM Invariance == Spec => []IInv
<1>1. IInv /\ [Next]_vars => IInv'
  <2> SUFFICES ASSUME IInv, [Next]_vars PROVE IInv'
    OBVIOUS
  <2>1. CASE UNCHANGED vars
    BY <2>1 DEF vars, IInv, TypeOK, OneMountThread, ThreadsTimed, ReadyIsMounted,
                PowerLossIsFinal, PsonCounting, BeforeFirstCheck, SeenIsReady, PendingIsFresh,
                ChmLossIsTold, Answer
  <2>2. CASE Next
    BY <2>2, EnvStepPreserves, ThreadsPreserve, TimersPreserve, EarlyReturnPreserves,
       FullCallbackPreserves DEF Next, LoopStep
  <2>3. QED
    BY <2>1, <2>2
<1>2. QED
  BY InitIInv, <1>1, PTL DEF Spec

\* Flags, counters and messages keep their types; the two counters of the slower
\* checks never pass their thresholds.
THEOREM DriveTypeCorrect == Spec => []TypeOK
<1>1. IInv => TypeOK
  BY DEF IInv
<1>2. QED
  BY <1>1, Invariance, PTL

\* startRemovableSSDMountProcess never has two threads mounting the drive.
THEOREM OneMountThreadAlways == Spec => []OneMountThread
<1>1. IInv => OneMountThread
  BY DEF IInv
<1>2. QED
  BY <1>1, Invariance, PTL

\* removableReady is never set for a drive that is not mounted.
THEOREM ReadyIsMountedAlways == Spec => []ReadyIsMounted
<1>1. IInv => ReadyIsMounted
  BY DEF IInv
<1>2. QED
  BY <1>1, Invariance, PTL

\* After the power-down message no READY_STATUS names a drive.
THEOREM PowerLossIsFinalAlways == Spec => []PowerLossIsFinal
<1>1. IInv => PowerLossIsFinal
  BY DEF IInv
<1>2. QED
  BY <1>1, Invariance, PTL

\* A CHM that is not ready any more has been withdrawn, or its withdrawal is due
\* in the next callback.
THEOREM ChmLossIsToldAlways == Spec => []ChmLossIsTold
<1>1. IInv => ChmLossIsTold
  BY DEF IInv
<1>2. QED
  BY <1>1, Invariance, PTL

-----------------------------------------------------------------------------
(* The removable SSD.                                                      *)

\* The SSD is ready while it is being shut down, and not while it is mounted.
Phases ==
  /\ shutdownStarted <=> shutdownTimer
  /\ shutdownTimer => removableReady
  /\ mountTimer => ~removableReady

\* However the door is turned, a mount thread never works on a drive that is
\* being shut down: the two timers are never active together.
MountExcludesShutdown == shutdownTimer => ~mountTimer /\ threads = 0

\* What the full callback does to the phases.
LEMMA DoorKeepsPhases ==
  ASSUME Phases, NEW lock, DoorCheck(lock), UNCHANGED removableReady
  PROVE  Phases'
BY Zenon DEF Phases, DoorCheck, StartsMount, Unlocked

\* Every step keeps the phases apart.
LEMMA PhaseStep == Phases /\ [Next]_vars => Phases'
<1> SUFFICES ASSUME Phases, [Next]_vars PROVE Phases'
  OBVIOUS
<1>1. CASE UNCHANGED <<shutdownStarted, shutdownTimer, removableReady, mountTimer>>
  BY <1>1 DEF Phases
<1>2. CASE EnvStep \/ MountChm \/ MountRemovable \/ UNCHANGED vars
  BY <1>1, <1>2 DEF EnvStep, TurnDoor, SwapDrive, PowerFails, ChmChanges, MountChm, MountRemovable,
     doorVars, vars
<1>3. CASE CheckForEvent
  BY <1>1, <1>3, DoorKeepsPhases DEF CheckForEvent, doorVars
<1>4. CASE MountTimer
  <2>1. mountTimer /\ ~mountTimer' /\ UNCHANGED <<shutdownStarted, shutdownTimer>>
    BY <1>4 DEF MountTimer
  <2>2. QED
    BY <2>1 DEF Phases
<1>5. CASE ShutdownTimer
  <2>1. ~shutdownTimer' /\ ~shutdownStarted' /\ ~removableReady' /\ mountTimer' = mountTimer
    BY <1>5 DEF ShutdownTimer
  <2>2. QED
    BY <2>1 DEF Phases
<1>6. QED
  BY <1>2, <1>3, <1>4, <1>5 DEF Next, LoopStep

\* At the start nothing is mounted or shut down.
LEMMA InitPhases == Init => Phases
BY DEF Init, Phases

\* Mounting and shutting down the SSD exclude each other.
THEOREM MountExcludesShutdownAlways == Spec => []MountExcludesShutdown
<1>1. IInv /\ Phases => MountExcludesShutdown
  BY DEF IInv, TypeOK, ThreadsTimed, Phases, MountExcludesShutdown
<1>2. QED
  BY <1>1, Invariance, InitPhases, PhaseStep, PTL DEF Spec

\* The VRA is told that it may use the SSD only while that is ready and not being
\* shut down: neither the saved status nor the message that withdraws the drive
\* comes too late.
ToldSsdIsReady == "SSD" \in told => removableReady /\ ~shutdownTimer

\* A CHM that does not change is never announced again.
ChmSteady == /\ ~recordingChm
             /\ chmReady = connected
             /\ chmSeen \in {"unknown", Answer(connected)}

\* Nor does a status waiting to be sent name an SSD that is shut down.
PendingSsdIsReady == requested /\ "SSD" \in status => removableReady /\ ~shutdownTimer

SsdInv == Phases /\ ChmSteady /\ PendingSsdIsReady /\ ToldSsdIsReady

\* A callback asks for a status only at startup.
LEMMA SteadyChm ==
  ASSUME TypeOK, ChmSteady, ChmCheck, UNCHANGED <<connected, recordingChm>>
  PROVE  ChmSteady' /\ ~ChmChanged
<1>1. recordingChm = FALSE /\ chmReady = connected /\ connected \in BOOLEAN /\ chmMounted \in BOOLEAN
  BY DEF TypeOK, ChmSteady
<1>2. chmReady' = connected
  BY <1>1 DEF ChmCheck
<1>3. chmSeen' \in {chmSeen, Answer(connected)}
  BY <1>2 DEF ChmCheck
<1>4. QED
  BY <1>1, <1>2, <1>3 DEF ChmSteady, ChmChanged

\* The full callback withdraws the SSD in time.
LEMMA CallbackKeepsSsd ==
  ASSUME IInv, SsdInv, CheckForEvent
  PROVE  SsdInv'
<1>0. removableReady \in BOOLEAN /\ shutdownTimer \in BOOLEAN /\ UNCHANGED <<connected, recordingChm, removableReady>>
  BY DEF CheckForEvent, envVars, IInv, TypeOK
<1>1. CASE ReturnsEarly
  <2>1. /\ UNCHANGED <<chmReady, chmSeen, shutdownStarted, shutdownTimer, mountTimer>>
        /\ ~requested' /\ told' = Announced
    BY <1>1 DEF CheckForEvent, chmVars, doorVars
  <2>2. Announced = {}
    BY <1>1 DEF Announced, ReturnsEarly
  <2>3. QED
    BY <1>0, <2>1, <2>2 DEF SsdInv, Phases, ChmSteady, PendingSsdIsReady, ToldSsdIsReady
<1>2. CASE ~ReturnsEarly
  <2>1. PICK lock \in Readings :
        /\ ChmCheck /\ DoorCheck(lock)
        /\ told' = Announced \ Withdrawn(lock) /\ requested' = Requests(lock)
        /\ status' = IF Requests(lock) THEN Ready(chmReady', removableReady) ELSE status
    BY <1>2 DEF CheckForEvent
  <2>2. Phases'
    BY <1>0, <2>1, DoorKeepsPhases DEF SsdInv
  <2>3. ChmSteady' /\ ~ChmChanged
    BY <1>0, <2>1, SteadyChm DEF SsdInv, IInv
  <2>4. Requests(lock) => "SSD" \notin status'
    BY <2>1, <2>3 DEF Requests, Ready
  <2>5. ToldSsdIsReady'
    <3> SUFFICES ASSUME "SSD" \in told' PROVE removableReady /\ ~shutdownTimer'
      BY <1>0 DEF ToldSsdIsReady
    <3>1. "SSD" \in Announced /\ "SSD" \notin Withdrawn(lock)
      BY <2>1
    <3>2. removableReady /\ ~shutdownTimer
      BY <3>1 DEF Announced, SsdInv, PendingSsdIsReady, ToldSsdIsReady
    <3>3. ~Unlocked(lock)
      BY <3>1, <3>2 DEF Withdrawn
    <3>4. QED
      BY <2>1, <3>2, <3>3, Zenon DEF DoorCheck
  <2>6. QED
    BY <2>1, <2>2, <2>3, <2>4, <2>5 DEF SsdInv, PendingSsdIsReady
<1>3. QED
  BY <1>1, <1>2

\* As long as the CHM stays as it is, the VRA never takes an SSD for ready that is
\* being shut down or is unmounted.  (A CHM that changes while the SSD is shut down
\* makes process_chm_connect_status announce the SSD once more.)
THEOREM ToldSsdIsReadyAlways ==
  ASSUME "chm" \notin Faults
  PROVE  Spec => []ToldSsdIsReady
<1>1. IInv /\ SsdInv /\ [Next]_vars => SsdInv'
  <2> SUFFICES ASSUME IInv, SsdInv, [Next]_vars PROVE SsdInv'
    OBVIOUS
  <2>0. Phases'
    BY PhaseStep DEF SsdInv
  <2>1. ASSUME UNCHANGED <<recordingChm, connected, chmReady, chmSeen, requested, status, told>>,
               UNCHANGED <<removableReady, shutdownTimer>>
        PROVE  SsdInv'
    BY <2>0, <2>1 DEF SsdInv, ChmSteady, PendingSsdIsReady, ToldSsdIsReady, Answer
  <2>2. CASE EnvStep \/ MountChm \/ MountRemovable \/ UNCHANGED vars
    BY <2>1, <2>2 DEF EnvStep, TurnDoor, SwapDrive, PowerFails, ChmChanges, MountChm, MountRemovable,
       envVars, doorVars, chmVars, msgVars, vars
  <2>3. CASE CheckForEvent
    BY <2>3, CallbackKeepsSsd
  <2>4. CASE MountTimer
    <3>1. /\ mountTimer /\ removableReady' = mounted
          /\ UNCHANGED <<connected, recordingChm, chmReady, chmSeen, shutdownTimer, told>>
      BY <2>4 DEF MountTimer, Outcome, envVars, chmVars
    <3>2. ~removableReady /\ ~shutdownTimer
      BY <3>1 DEF SsdInv, Phases
    <3>3. "SSD" \notin told /\ ~(requested /\ "SSD" \in status)
      BY <3>2 DEF SsdInv, ToldSsdIsReady, PendingSsdIsReady
    <3>4. PendingSsdIsReady'
      <4>1. CASE status' = Ready(chmReady, Outcome) /\ requested' = TRUE
        BY <3>1, <3>2, <4>1 DEF Outcome, Ready, PendingSsdIsReady
      <4>2. CASE UNCHANGED <<status, requested>>
        BY <3>3, <4>2 DEF PendingSsdIsReady
      <4>3. QED
        BY <2>4, <4>1, <4>2 DEF MountTimer
    <3>5. QED
      BY <2>0, <3>1, <3>3, <3>4 DEF SsdInv, ChmSteady, ToldSsdIsReady, Answer
  <2>5. CASE ShutdownTimer
    <3>1. /\ shutdownTimer
          /\ UNCHANGED <<connected, recordingChm, chmReady, chmSeen, told, status, requested>>
      BY <2>5 DEF ShutdownTimer, envVars, chmVars, msgVars
    <3>2. QED
      BY <2>0, <3>1 DEF SsdInv, ChmSteady, PendingSsdIsReady, ToldSsdIsReady, Answer
  <2>6. QED
    BY <2>2, <2>3, <2>4, <2>5 DEF Next, LoopStep
<1>2. Init => SsdInv
  BY DEF Init, SsdInv, Phases, ChmSteady, PendingSsdIsReady, ToldSsdIsReady
<1>3. SsdInv => ToldSsdIsReady
  BY DEF SsdInv
<1>4. QED
  BY <1>1, <1>2, <1>3, Invariance, PTL DEF Spec
=============================================================================
