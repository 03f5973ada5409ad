------------------------ MODULE RecorderCountProofs ------------------------
(***************************************************************************)
(* n_cams_recording against the recorder processes on record: it is never  *)
(* too low, whatever the reloads do, and it is exact, and the supervisor   *)
(* implements RecorderPool, as long as every configuration names the same  *)
(* cameras.  All three follow from a classification of the steps by what   *)
(* they do to worker and nRec.                                             *)
(***************************************************************************)
EXTENDS RecordingAgentProofs

Books == {c \in Cameras : worker[c] # "none"}

BooksKept == worker' = worker /\ nRec' = nRec /\ order' = order

BooksStart(c) ==
  /\ c \in Configured
  /\ worker[c] = "none"
  /\ worker' = [worker EXCEPT ![c] = "alive"]
  /\ nRec' = nRec + 1
  /\ order' = order

BooksExit(c) ==
  /\ worker[c] = "alive"
  /\ worker' = [worker EXCEPT ![c] = "dead"]
  /\ nRec' = nRec
  /\ order' = order

BooksRelease(c) ==
  /\ worker[c] # "none"
  /\ worker' = [worker EXCEPT ![c] = "none"]
  /\ nRec' = IF nRec > 0 THEN nRec - 1 ELSE nRec
  /\ order' = order

\* A reload takes the recorders of stopped and of lost off the books and counts
\* only the first; what is lost belongs to a camera that was dropped.
BooksReload(stopped, lost) ==
  /\ stopped \subseteq Books
  /\ lost \subseteq Books
  /\ worker' = [c \in Cameras |-> IF c \in stopped \cup lost THEN "none" ELSE worker[c]]
  /\ nRec' = RestoredCount(stopped)
  /\ \E cfg \in Configs : order' = cfg.order
  /\ lost \cap Configured \cap Configured' = {}
  /\ Books' \subseteq Configured'

BooksStep ==
  \/ BooksKept
  \/ \E c \in Cameras : BooksStart(c) \/ BooksExit(c) \/ BooksRelease(c)
  \/ \E stopped, lost \in SUBSET Cameras : BooksReload(stopped, lost)

\* A call on a configured camera keeps, starts or releases one recorder.
LEMMA CallOnBooks ==
  ASSUME NEW c \in Cameras, RecorderCall(c), order' = order,
         c \in Configured \/ RecorderUnchanged
  PROVE  BooksStep
BY DEF RecorderCall, RecorderUnchanged, RecorderStarted, RecorderReleased,
       BooksStep, BooksKept, BooksStart, BooksRelease

\* Pause and record commands touch only the recorders of configured cameras.
LEMMA CommandConfigured ==
  ASSUME NEW c, NEW record, handle_camera_record_pause(c, record)
  PROVE  c \in Configured \/ RecorderUnchanged
<1>1. Commandable(c) \/ KeepRecordState
  BY DEF handle_camera_record_pause
<1>2. QED BY <1>1 DEF Commandable, KeepRecordState, RecorderUnchanged

\* A PTC message handler does to the recorders on record one of the five things.
LEMMA MessagesOnBooks == IInv /\ Messages => BooksStep
<1> SUFFICES ASSUME IInv, Messages PROVE BooksStep
  OBVIOUS
<1>t. TypeOK
  BY DEF IInv
<1>1. ASSUME NEW c \in Cameras, NEW record \in BOOLEAN, CameraRecordPause(c, record)
      PROVE  BooksStep
  <2>1. handle_camera_record_pause(c, record) /\ order' = order
    BY <1>1 DEF CameraRecordPause
  <2>2. QED BY <1>t, <2>1, CommandEffect, CommandConfigured, CallOnBooks
<1>2. ASSUME NEW c \in Cameras, ResetCameraStream(c)
      PROVE  BooksStep
  <2>1. handle_camera_record_pause(c, FALSE) /\ order' = order
    BY <1>2 DEF ResetCameraStream
  <2>2. QED BY <1>t, <2>1, CommandEffect, CommandConfigured, CallOnBooks
<1>3. CASE ResumeCameraStream
  <2>1. PICK c \in pc.cam : handle_camera_record_pause(c, TRUE)
    BY <1>3 DEF ResumeCameraStream
  <2>2. c \in Cameras
    BY <1>t, <2>1 DEF TypeOK
  <2>3. order' = order
    BY <1>3 DEF ResumeCameraStream
  <2>4. QED BY <1>t, <2>1, <2>2, <2>3, CommandEffect, CommandConfigured, CallOnBooks
<1>4. ASSUME NEW drives \in DriveSets, ReadyStatus(drives)
      PROVE  BooksStep
  BY <1>4 DEF ReadyStatus, configVars, procVars, BooksStep, BooksKept
<1>5. ASSUME NEW drives \in {{"CHM"}, {"SSD"}, Drives}, Shutdown(drives)
      PROVE  BooksStep
  BY <1>5 DEF Shutdown, configVars, procVars, BooksStep, BooksKept
<1>6. ASSUME NEW c \in Cameras, NEW msg \in SettingsMsgs, CameraSettings(c, msg)
      PROVE  BooksStep
  BY <1>6 DEF CameraSettings, configVars, procVars, BooksStep, BooksKept
<1>7. QED BY <1>1, <1>2, <1>3, <1>4, <1>5, <1>6 DEF Messages

\* A visit by the scan loop or the watch loop does one of the five things.
LEMMA VisitOnBooks == IInv /\ Visit => BooksStep
<1> SUFFICES ASSUME IInv, Visit PROVE BooksStep
  OBVIOUS
<1>t. TypeOK /\ StatusHasRecorder
  BY DEF IInv
<1>u. pc.i \in Nat \ {0} /\ order \in Seq(Cameras)
  BY <1>t DEF TypeOK
<1>1. CASE ScanCamera
  <2>1. order' = order
    BY <1>1 DEF ScanCamera
  <2>2. CASE pc.i <= Len(order) /\ order[pc.i] \in assigned
    <3>1. order[pc.i] \in Cameras /\ order[pc.i] \in Configured
      BY <1>u, <2>2 DEF Configured
    <3>2. reflect_camera_online_status(order[pc.i], pc.i)
      BY <1>1, <2>2 DEF ScanCamera
    <3>3. QED BY <1>t, <2>1, <3>1, <3>2, ScanEffect, CallOnBooks
  <2>3. CASE ~(pc.i <= Len(order) /\ order[pc.i] \in assigned)
    BY <1>1, <2>1, <2>3 DEF ScanCamera, BooksStep, BooksKept
  <2>4. QED BY <2>2, <2>3
<1>2. CASE ScanDone
  BY <1>2 DEF ScanDone, configVars, procVars, BooksStep, BooksKept
<1>3. CASE WatchCamera
  <2>1. order' = order
    BY <1>3 DEF WatchCamera
  <2>2. CASE pc.i <= Len(order)
    <3>1. order[pc.i] \in Cameras /\ order[pc.i] \in Configured
      BY <1>u, <2>2 DEF Configured
    <3>2. watch(order[pc.i], pc.i)
      BY <1>3, <2>2 DEF WatchCamera
    <3>3. QED BY <1>t, <2>1, <3>1, <3>2, WatchEffect, CallOnBooks
  <2>3. CASE ~(pc.i <= Len(order))
    BY <1>3, <2>1, <2>3 DEF WatchCamera, BooksStep, BooksKept
  <2>4. QED BY <2>2, <2>3
<1>4. CASE WatchDone
  BY <1>4 DEF WatchDone, configVars, procVars, BooksStep, BooksKept
<1>5. QED BY <1>1, <1>2, <1>3, <1>4 DEF Visit

\* A reload stops the recorders of kept cameras that are no longer assigned and
\* loses those of cameras that are not kept.
LEMMA ReloadOnBooks ==
  ASSUME IInv, NEW cfg \in Configs, Reload(cfg)
  PROVE  BooksStep
<1> DEFINE kept    == Configured \cap {cfg.order[i] : i \in 1 .. Len(cfg.order)}
           stopped == StoppedByReload(kept, cfg)
           lost    == Books \ kept
<1>1. worker' = [c \in Cameras |-> IF c \in kept \ stopped THEN worker[c] ELSE "none"]
  BY DEF Reload
<1>2. order \in Seq(Cameras) /\ worker \in [Cameras -> ProcessStates]
  BY DEF IInv, TypeOK
<1>3. Configured \subseteq Cameras
  BY <1>2 DEF Configured
<1>4. stopped \subseteq Books /\ lost \subseteq Books
  BY <1>3 DEF StoppedByReload, Books
<1>5. \A c \in Cameras : c \notin kept \ stopped /\ c \notin stopped \cup lost => worker[c] = "none"
  BY DEF Books
<1>6. stopped \cap (kept \ stopped) = {} /\ lost \cap kept = {}
  OBVIOUS
<1>7. nRec' = RestoredCount(stopped) /\ order' = cfg.order
  BY DEF Reload
<1>8. lost \cap Configured \cap Configured' = {}
  BY <1>7 DEF Configured
<1>8a. Books' \subseteq Configured'
  <2>1. Books' \subseteq kept
    BY <1>1 DEF Books
  <2>2. kept \subseteq Configured'
    BY <1>7 DEF Configured
  <2>3. QED BY <2>1, <2>2
<1> HIDE DEF kept, stopped, lost
<1>9. worker' = [c \in Cameras |-> IF c \in stopped \cup lost THEN "none" ELSE worker[c]]
  BY <1>1, <1>5, <1>6
<1>10. BooksReload(stopped, lost)
  BY <1>4, <1>7, <1>8, <1>8a, <1>9 DEF BooksReload
<1>11. stopped \in SUBSET Cameras /\ lost \in SUBSET Cameras
  BY <1>4 DEF Books
<1>12. QED BY <1>10, <1>11 DEF BooksStep

\* Every step of the supervisor is one of the five kinds.
LEMMA StepOnBooks == IInv /\ [Next]_vars => BooksStep
<1> SUFFICES ASSUME IInv, [Next]_vars PROVE BooksStep
  OBVIOUS
<1>1. CASE Messages
  BY <1>1, MessagesOnBooks
<1>2. CASE Tick
  BY <1>2 DEF Tick, TickTransmit, TickReceive, configVars, procVars, BooksStep, BooksKept
<1>3. CASE Visit
  BY <1>3, VisitOnBooks
<1>4. CASE Environment
  <2>1. ASSUME NEW cfg \in Configs, Reload(cfg) PROVE BooksStep
    BY <2>1, ReloadOnBooks
  <2>2. ASSUME NEW c \in Cameras, RecorderDies(c) PROVE BooksStep
    BY <2>2 DEF RecorderDies, configVars, BooksStep, BooksExit
  <2>3. CASE HelperDies
    BY <2>3 DEF HelperDies, configVars, procVars, BooksStep, BooksKept
  <2>4. ASSUME NEW c \in Cameras, OrphanDies(c) PROVE BooksStep
    BY <2>4 DEF OrphanDies, configVars, BooksStep, BooksKept
  <2>5. CASE ForkAbilityChanges
    BY <2>5 DEF ForkAbilityChanges, configVars, procVars, BooksStep, BooksKept
  <2>6. QED BY <1>4, <2>1, <2>2, <2>3, <2>4, <2>5 DEF Environment
<1>5. CASE UNCHANGED vars
  BY <1>5 DEF vars, BooksStep, BooksKept
<1>6. QED BY <1>1, <1>2, <1>3, <1>4, <1>5 DEF Next

-----------------------------------------------------------------------------
(* The count is never too low.                                             *)

\* What a step does to the number of recorders on the books.
LEMMA BooksCardinality ==
  ASSUME IInv
  PROVE  /\ IsFiniteSet(Books)
         /\ Cardinality(Books) \in Nat
         /\ \A c \in Cameras : BooksStart(c) => Cardinality(Books') = Cardinality(Books) + 1
         /\ \A c \in Cameras : BooksExit(c) => Books' = Books
         /\ \A c \in Cameras : BooksRelease(c) => Cardinality(Books') = Cardinality(Books) - 1
         /\ \A stopped, lost \in SUBSET Cameras :
              BooksReload(stopped, lost) =>
                /\ Cardinality(stopped) \in Nat
                /\ Cardinality(stopped) <= Cardinality(Books)
                /\ Cardinality(Books') <= Cardinality(Books) - Cardinality(stopped)
                /\ lost = {} => Cardinality(Books') = Cardinality(Books) - Cardinality(stopped)
<1>w. worker \in [Cameras -> ProcessStates]
  BY DEF IInv, TypeOK
<1>1. IsFiniteSet(Books)
  BY ConstantsAssumption, FS_Subset DEF Books
<1>2. Cardinality(Books) \in Nat
  BY <1>1, FS_CardinalityType
<1>3. ASSUME NEW c \in Cameras, BooksStart(c)
      PROVE  Cardinality(Books') = Cardinality(Books) + 1
  <2>1. Books' = Books \cup {c} /\ c \notin Books
    BY <1>3, <1>w DEF BooksStart, Books
  <2>2. QED BY <1>1, <2>1, FS_AddElement
<1>4. ASSUME NEW c \in Cameras, BooksExit(c)
      PROVE  Books' = Books
  BY <1>4, <1>w DEF BooksExit, Books
<1>5. ASSUME NEW c \in Cameras, BooksRelease(c)
      PROVE  Cardinality(Books') = Cardinality(Books) - 1
  <2>1. Books' = Books \ {c} /\ c \in Books
    BY <1>5, <1>w DEF BooksRelease, Books
  <2>2. QED BY <1>1, <2>1, FS_RemoveElement
<1>6. ASSUME NEW stopped \in SUBSET Cameras, NEW lost \in SUBSET Cameras,
             BooksReload(stopped, lost)
      PROVE  /\ Cardinality(stopped) \in Nat
             /\ Cardinality(stopped) <= Cardinality(Books)
             /\ Cardinality(Books') <= Cardinality(Books) - Cardinality(stopped)
             /\ lost = {} => Cardinality(Books') = Cardinality(Books) - Cardinality(stopped)
  <2>1. stopped \subseteq Books
    BY <1>6 DEF BooksReload
  <2>2. Books' = (Books \ stopped) \ lost
    BY <1>6, <1>w DEF BooksReload, Books
  <2>3. IsFiniteSet(stopped) /\ Cardinality(stopped) <= Cardinality(Books)
    BY <1>1, <2>1, FS_Subset
  <2>4. Books \cap stopped = stopped
    BY <2>1
  <2>5. /\ IsFiniteSet(Books \ stopped)
        /\ Cardinality(Books \ stopped) = Cardinality(Books) - Cardinality(stopped)
    BY <1>1, <2>4, FS_Difference
  <2>6. Cardinality(Books') <= Cardinality(Books \ stopped)
    <3>1. Books' \in SUBSET (Books \ stopped)
      BY <2>2
    <3>2. QED BY <2>5, <3>1, FS_Subset
  <2>7. lost = {} => Books' = Books \ stopped
    BY <2>2
  <2>8. QED BY <2>3, <2>5, <2>6, <2>7, FS_CardinalityType
<1>7. QED BY <1>1, <1>2, <1>3, <1>4, <1>5, <1>6

\* One step keeps the count from falling below the number of recorders.
LEMMA CountStep ==
  ASSUME IInv, nRec >= Cardinality(Books), BooksStep
  PROVE  nRec' >= Cardinality(Books')
<1>n. nRec \in Nat
  BY DEF IInv, TypeOK
<1>c. Cardinality(Books) \in Nat
  BY BooksCardinality
<1>1. CASE BooksKept
  BY <1>1 DEF BooksKept, Books
<1>2. ASSUME NEW c \in Cameras, BooksStart(c)
      PROVE  nRec' >= Cardinality(Books')
  <2>1. Cardinality(Books') = Cardinality(Books) + 1 /\ nRec' = nRec + 1
    BY <1>2, BooksCardinality DEF BooksStart
  <2>2. QED BY <1>n, <1>c, <2>1
<1>3. ASSUME NEW c \in Cameras, BooksExit(c)
      PROVE  nRec' >= Cardinality(Books')
  <2>1. Books' = Books /\ nRec' = nRec
    BY <1>3, BooksCardinality DEF BooksExit
  <2>2. QED BY <2>1
<1>4. ASSUME NEW c \in Cameras, BooksRelease(c)
      PROVE  nRec' >= Cardinality(Books')
  <2>1. Cardinality(Books') = Cardinality(Books) - 1
    BY <1>4, BooksCardinality
  <2>2. nRec' = IF nRec > 0 THEN nRec - 1 ELSE nRec
    BY <1>4 DEF BooksRelease
  <2>3. QED BY <1>n, <1>c, <2>1, <2>2
<1>5. ASSUME NEW stopped \in SUBSET Cameras, NEW lost \in SUBSET Cameras,
             BooksReload(stopped, lost)
      PROVE  nRec' >= Cardinality(Books')
  <2>1. /\ Cardinality(stopped) \in Nat
        /\ Cardinality(stopped) <= Cardinality(Books)
        /\ Cardinality(Books') <= Cardinality(Books) - Cardinality(stopped)
    BY <1>5, BooksCardinality
  <2>2. nRec' = RestoredCount(stopped)
    BY <1>5 DEF BooksReload
  <2>3. Cardinality(Books') \in Nat
    <3>1. IsFiniteSet(Books')
      BY ConstantsAssumption, FS_Subset DEF Books
    <3>2. QED BY <3>1, FS_CardinalityType
  <2>4. QED BY <1>n, <1>c, <2>1, <2>2, <2>3 DEF RestoredCount
<1>6. QED BY <1>1, <1>2, <1>3, <1>4, <1>5 DEF BooksStep

\* n_cams_recording never falls below the number of recorders on record, for any
\* cameras, configurations and faults: a stop always finds it positive.
THEOREM CountNeverLowAlways == Spec => []CountNeverLow
<1>1. Init => CountNeverLow
  <2> SUFFICES ASSUME Init PROVE CountNeverLow
    OBVIOUS
  <2>1. {c \in Cameras : worker[c] # "none"} = {} /\ nRec = 0
    BY DEF Init
  <2>2. QED BY <2>1, FS_EmptySet DEF CountNeverLow
<1>2. IInv /\ CountNeverLow /\ [Next]_vars => CountNeverLow'
  BY StepOnBooks, CountStep DEF CountNeverLow, Books
<1>3. QED BY <1>1, <1>2, Invariance, PTL DEF Spec

-----------------------------------------------------------------------------
(* Every recorder on record can be reached through the camera table.       *)

\* The order is that of some configuration.
OrderIsRead == \E cfg \in Configs : order = cfg.order

\* A pid on record is that of a configured camera: the loops over cameras[] and
\* the handlers, which look a camera up by name, reach every one of them.
RecordersConfigured == {c \in Cameras : worker[c] # "none"} \subseteq Configured

\* No step puts a recorder out of their reach.
LEMMA ConfiguredStep ==
  ASSUME IInv, RecordersConfigured, OrderIsRead, BooksStep
  PROVE  RecordersConfigured' /\ OrderIsRead'
<1>w. worker \in [Cameras -> ProcessStates]
  BY DEF IInv, TypeOK
<1> USE DEF RecordersConfigured, OrderIsRead
<1>1. CASE BooksKept
  BY <1>1 DEF BooksKept, Configured
<1>2. ASSUME NEW c \in Cameras, BooksStart(c) \/ BooksExit(c) \/ BooksRelease(c)
      PROVE  RecordersConfigured' /\ OrderIsRead'
  BY <1>2, <1>w DEF BooksStart, BooksExit, BooksRelease, Configured
<1>3. ASSUME NEW stopped \in SUBSET Cameras, NEW lost \in SUBSET Cameras,
             BooksReload(stopped, lost)
      PROVE  RecordersConfigured' /\ OrderIsRead'
  BY <1>3 DEF BooksReload, Books
<1>4. QED BY <1>1, <1>2, <1>3 DEF BooksStep

\* The same for the initial states.
LEMMA InitConfigured == Init => RecordersConfigured /\ OrderIsRead
BY DEF Init, RecordersConfigured, OrderIsRead

\* Whatever reloads drop and bring back, every recorder on record belongs to a
\* configured camera, so that the agent can always watch and stop it.
THEOREM RecordersConfiguredAlways == Spec => []RecordersConfigured
<1>1. IInv /\ RecordersConfigured /\ OrderIsRead /\ [Next]_vars => RecordersConfigured' /\ OrderIsRead'
  BY StepOnBooks, ConfiguredStep
<1>2. QED BY <1>1, InitConfigured, Invariance, PTL DEF Spec

-----------------------------------------------------------------------------
(* With the same cameras in every configuration nothing is ever lost.      *)

CountInv == RecordersConfigured /\ OrderIsRead /\ CountMatchesRecorders

\* A reload that keeps the cameras, in whatever order, loses no recorder.
LEMMA NothingLost ==
  ASSUME NoneDropped, RecordersConfigured, OrderIsRead,
         NEW stopped \in SUBSET Cameras, NEW lost \in SUBSET Cameras,
         BooksReload(stopped, lost)
  PROVE  lost = {}
<1>1. Configured' = Configured
  <2>1. PICK a \in Configs : order = a.order
    BY DEF OrderIsRead
  <2>2. PICK b \in Configs : order' = b.order
    BY DEF BooksReload
  <2>3. {a.order[i] : i \in 1 .. Len(a.order)} = {b.order[i] : i \in 1 .. Len(b.order)}
    BY DEF NoneDropped
  <2>4. QED BY <2>1, <2>2, <2>3, Zenon DEF Configured
<1>2. lost \subseteq Configured
  BY DEF BooksReload, RecordersConfigured, Books
<1>3. QED BY <1>1, <1>2 DEF BooksReload

\* With the same cameras in every configuration no step loses a recorder or makes
\* n_cams_recording differ from the number of recorders on record.
LEMMA ExactStep ==
  ASSUME NoneDropped, IInv, CountInv, BooksStep
  PROVE  CountInv'
<1>n. nRec \in Nat /\ worker \in [Cameras -> ProcessStates]
  BY DEF IInv, TypeOK
<1>c. nRec = Cardinality(Books)
  BY DEF CountInv, CountMatchesRecorders, Books
<1>k. RecordersConfigured' /\ OrderIsRead'
  BY ConfiguredStep DEF CountInv
<1> SUFFICES nRec' = Cardinality(Books')
  BY <1>k DEF CountInv, CountMatchesRecorders, Books
<1>1. CASE BooksKept
  BY <1>1, <1>c DEF BooksKept, Books
<1>2. ASSUME NEW c \in Cameras, BooksStart(c)
      PROVE  nRec' = Cardinality(Books')
  <2>1. Cardinality(Books') = Cardinality(Books) + 1
    BY <1>2, BooksCardinality
  <2>2. nRec' = nRec + 1
    BY <1>2 DEF BooksStart
  <2>3. QED BY <1>c, <2>1, <2>2
<1>3. ASSUME NEW c \in Cameras, BooksExit(c)
      PROVE  nRec' = Cardinality(Books')
  <2>1. Books' = Books /\ nRec' = nRec
    BY <1>3, BooksCardinality DEF BooksExit
  <2>2. QED BY <1>c, <2>1
<1>4. ASSUME NEW c \in Cameras, BooksRelease(c)
      PROVE  nRec' = Cardinality(Books')
  <2>1. Cardinality(Books') = Cardinality(Books) - 1
    BY <1>4, BooksCardinality
  <2>2. nRec > 0
    <3>1. Books # {}
      BY <1>4 DEF BooksRelease, Books
    <3>2. QED BY <1>n, <1>c, <3>1, BooksCardinality, FS_EmptySet
  <2>3. nRec' = nRec - 1
    BY <1>4, <2>2 DEF BooksRelease
  <2>4. QED BY <1>c, <2>1, <2>3
<1>5. ASSUME NEW stopped \in SUBSET Cameras, NEW lost \in SUBSET Cameras,
             BooksReload(stopped, lost)
      PROVE  nRec' = Cardinality(Books')
  <2>1. lost = {}
    BY <1>5, NothingLost DEF CountInv
  <2>2. /\ Cardinality(stopped) \in Nat
        /\ Cardinality(stopped) <= Cardinality(Books)
        /\ Cardinality(Books') = Cardinality(Books) - Cardinality(stopped)
    BY <1>5, <2>1, BooksCardinality
  <2>3. nRec' = RestoredCount(stopped)
    BY <1>5 DEF BooksReload
  <2>4. QED BY <1>n, <1>c, <2>2, <2>3 DEF RestoredCount
<1>6. QED BY <1>1, <1>2, <1>3, <1>4, <1>5 DEF BooksStep

\* At the start there are no recorders and the count is 0.
LEMMA InitCount == Init => CountInv
<1> SUFFICES ASSUME Init PROVE CountInv
  OBVIOUS
<1>1. {c \in Cameras : worker[c] # "none"} = {} /\ nRec = 0
  BY DEF Init
<1>2. CountMatchesRecorders
  BY <1>1, FS_EmptySet DEF CountMatchesRecorders
<1>3. QED BY <1>2, InitConfigured DEF CountInv

\* With the same cameras in every configuration the count is exact for ever.
LEMMA CountInvariance == ASSUME NoneDropped PROVE Spec => [](IInv /\ CountInv)
<1>1. IInv /\ CountInv /\ [Next]_vars => CountInv'
  BY StepOnBooks, ExactStep
<1>2. QED BY <1>1, InitCount, Invariance, PTL DEF Spec

\* When every configuration names the same cameras, n_cams_recording is exactly
\* the number of recorders on record in every reachable state.
THEOREM CountExact == ASSUME NoneDropped PROVE Spec => []CountMatchesRecorders
<1>1. IInv /\ CountInv => CountMatchesRecorders
  BY DEF CountInv
<1>2. QED BY <1>1, CountInvariance, PTL

-----------------------------------------------------------------------------
(* The supervisor implements the abstract pool.                            *)

\* With the same cameras in every configuration every step of the supervisor is a
\* step of RecorderPool or leaves it alone.
LEMMA PoolStep ==
  ASSUME NoneDropped, IInv, CountInv, BooksStep
  PROVE  [Pool!Next]_(Pool!poolVars)
<1>n. nRec \in Nat /\ worker \in [Cameras -> ProcessStates]
  BY DEF IInv, TypeOK
<1>c. nRec = Cardinality(Books)
  BY DEF CountInv, CountMatchesRecorders, Books
<1>1. CASE BooksKept
  BY <1>1 DEF BooksKept, Pool!poolVars
<1>2. ASSUME NEW c \in Cameras, BooksStart(c)
      PROVE  Pool!Next
  <2>1. Pool!Start(c)
    BY <1>2 DEF BooksStart, Pool!Start
  <2>2. QED BY <2>1 DEF Pool!Next
<1>3. ASSUME NEW c \in Cameras, BooksExit(c)
      PROVE  Pool!Next
  <2>1. Pool!Exit(c)
    BY <1>3 DEF BooksExit, Pool!Exit
  <2>2. QED BY <2>1 DEF Pool!Next
<1>4. ASSUME NEW c \in Cameras, BooksRelease(c)
      PROVE  Pool!Next
  <2>1. {c} \subseteq Pool!OnBooks
    BY <1>4 DEF BooksRelease, Pool!OnBooks
  <2>2. worker' = [d \in Cameras |-> IF d \in {c} THEN "none" ELSE worker[d]]
    BY <1>4, <1>n DEF BooksRelease
  <2>3. nRec > 0
    <3>1. Books # {}
      BY <1>4 DEF BooksRelease, Books
    <3>2. QED BY <1>n, <1>c, <3>1, BooksCardinality, FS_EmptySet
  <2>4. nRec' = nRec - Cardinality({c})
    BY <1>4, <2>3, FS_Singleton DEF BooksRelease
  <2>5. Pool!Release({c})
    BY <2>1, <2>2, <2>4 DEF Pool!Release, Pool!Cardinality, Cardinality
  <2>6. QED BY <2>5 DEF Pool!Next
<1>5. ASSUME NEW stopped \in SUBSET Cameras, NEW lost \in SUBSET Cameras,
             BooksReload(stopped, lost)
      PROVE  Pool!Next
  <2>1. lost = {}
    BY <1>5, NothingLost DEF CountInv
  <2>2. /\ Cardinality(stopped) \in Nat
        /\ Cardinality(stopped) <= Cardinality(Books)
    BY <1>5, BooksCardinality
  <2>3. nRec' = nRec - Cardinality(stopped)
    BY <1>5, <1>n, <1>c, <2>2 DEF BooksReload, RestoredCount
  <2>4. worker' = [c \in Cameras |-> IF c \in stopped THEN "none" ELSE worker[c]]
    BY <1>5, <2>1 DEF BooksReload
  <2>5. stopped \subseteq Pool!OnBooks
    BY <1>5 DEF BooksReload, Books, Pool!OnBooks
  <2>6. Pool!Release(stopped)
    BY <2>3, <2>4, <2>5 DEF Pool!Release, Pool!Cardinality, Cardinality
  <2>7. QED BY <2>6 DEF Pool!Next
<1>6. QED BY <1>1, <1>2, <1>3, <1>4, <1>5 DEF BooksStep

\* When every configuration names the same cameras, the supervisor implements
\* RecorderPool: one recorder per camera, started only where there is none,
\* and a count that follows every start and release.
THEOREM ImplementsPool == ASSUME NoneDropped PROVE Spec => PoolSpec
<1>1. Init => Pool!Init
  BY DEF Init, Pool!Init
<1>2. IInv /\ CountInv /\ [Next]_vars => [Pool!Next]_(Pool!poolVars)
  BY StepOnBooks, PoolStep
<1>3. QED BY <1>1, <1>2, CountInvariance, PTL DEF Spec, PoolSpec, Pool!Spec
=============================================================================
