------------------------- MODULE SpaceMonitorProofs -------------------------
(***************************************************************************)
(* The safety properties of SpaceMonitor, for any cameras, writers, limits *)
(* and chunk durations.                                                    *)
(***************************************************************************)
EXTENDS SpaceMonitor, FiniteSetTheorems, WellFoundedInduction, TLAPS

-----------------------------------------------------------------------------
(* Paths, and the least element of a set of chunks.                        *)

\* Hours and days are numbers, and no day is the staging directory.
LEMMA DayType ==
  ASSUME NEW t \in Nat
  PROVE  Hour(t) \in Nat /\ Day(t) \in Nat /\ Day(t) # Staging
<1>1. \A a \in Nat, b \in Nat \ {0} : a \div b \in Nat
  OBVIOUS
<1>2. Hour(t) \in Nat
  BY <1>1, SpaceAssumption DEF Hour
<1>3. Hour(t) \div HoursPerDay \in Nat
  BY <1>1, <1>2, SpaceAssumption
<1>4. QED
  BY <1>2, <1>3 DEF Day, Staging

\* Going up from an hour's directory leads to the day and then to the camera.
LEMMA PathShape ==
  ASSUME NEW c \in Cameras, NEW k \in Nat, NEW h \in Nat
  PROVE  /\ <<c, k, h>> \in Paths /\ <<c, k>> \in Paths /\ <<c>> \in Paths
         /\ Parent(<<c, k, h>>) = <<c, k>> /\ Parent(<<c, k>>) = <<c>>
         /\ Len(<<c, k, h>>) = 3 /\ Len(<<c, k>>) = 2 /\ Len(<<c>>) = 1
<1>1. <<c, k, h>> \in Paths /\ <<c, k>> \in Paths /\ <<c>> \in Paths
  BY DEF Paths
<1>2. Parent(<<c, k, h>>) = <<c, k>>
  BY DEF Parent
<1>3. Parent(<<c, k>>) = <<c>>
  BY DEF Parent
<1>4. QED
  BY <1>1, <1>2, <1>3

\* An hour directory is a path below its day's.
LEMMA HourDirShape ==
  ASSUME NEW c \in Cameras, NEW t \in Nat
  PROVE  /\ HourDir(c, t) \in Paths /\ Len(HourDir(c, t)) = 3
         /\ Parent(HourDir(c, t)) = <<c, Day(t)>> /\ <<c, Day(t)>> \in Paths
BY DayType, PathShape DEF HourDir

\* The parent of a path is a path.
LEMMA ParentOfPath ==
  ASSUME NEW p \in Paths
  PROVE  Len(p) \in 1 .. 3 /\ (Len(p) > 1 => Parent(p) \in Paths)
<1>1. ASSUME NEW c \in Cameras, p = <<c>> PROVE Len(p) \in 1 .. 3 /\ ~(Len(p) > 1)
  BY <1>1
<1>2. ASSUME NEW c \in Cameras, NEW k \in Nat, p = <<c, k>>
      PROVE  Len(p) \in 1 .. 3 /\ Parent(p) \in Paths
  BY <1>2 DEF Parent, Paths
<1>3. ASSUME NEW c \in Cameras, NEW k \in Nat, NEW h \in Nat, p = <<c, k, h>>
      PROVE  Len(p) \in 1 .. 3 /\ Parent(p) \in Paths
  BY <1>3 DEF Parent, Paths
<1>4. QED
  BY <1>1, <1>2, <1>3 DEF Paths

\* Below any chunk of a set there is one that find_oldest_file may choose.
LEMMA LeastChunk ==
  ASSUME NEW found \in SUBSET Chunks, NEW x \in found
  PROVE  \E f \in found : f.t <= x.t /\ \A g \in found : f.t <= g.t
<1> DEFINE T == {f.t : f \in found}
           R == OpToRel(<, Nat)
<1>1. T \subseteq Nat /\ T # {}
  BY DEF Chunks
<1>2. IsWellFoundedOn(R, Nat)
  BY NatLessThanWellFounded
<1>3. PICK m \in T : \A n \in T : ~(<<n, m>> \in R)
  <2> HIDE DEF R, T
  <2> QED
    BY <1>1, <1>2, WFMin
<1>4. \A n \in T : m <= n
  <2> SUFFICES ASSUME NEW n \in T PROVE m <= n
    OBVIOUS
  <2>1. <<n, m>> \in R <=> n < m
    BY <1>1 DEF OpToRel
  <2>2. ~(n < m) /\ n \in Nat /\ m \in Nat
    BY <1>1, <1>3, <2>1
  <2>3. QED
    BY <2>2
<1>5. QED
  BY <1>4

-----------------------------------------------------------------------------
(* Types, and the directories delete_oldest_file walks.                    *)

\* The loop over directories starts in an hour a chunk was deleted from and
\* goes up through its day to its camera; it never comes to a staging directory.
GroomedPath ==
  pc \in {"test", "rmdir"} =>
    \E c \in Cameras, t \in Nat :
      /\ <<drive, HourDir(c, t)>> \in groomed
      /\ dir \in {HourDir(c, t), <<c, Day(t)>>, <<c>>}

\* A recorder that is making directories has fixed the start of its chunk.
HourBegun == \A w \in Writers : rec[w] = "hour" => last[w] \in Nat

TInv == TypeOK /\ StagingIsSafe /\ GroomedPath /\ HourBegun

\* The initial states are well typed.
LEMMA InitTInv == Init => TInv
<1> SUFFICES ASSUME Init PROVE TInv
  OBVIOUS
<1>1. dirs \in [Drives -> SUBSET Paths]
  BY PathShape, 0 \in Nat DEF Init, Paths, Staging
<1>2. j \in 1 .. Len(TimeBased) + 1
  BY SpaceAssumption DEF Init
<1>3. TypeOK
  BY <1>1, <1>2 DEF Init, TypeOK, Drives
<1>4. QED
  BY <1>3 DEF Init, TInv, StagingIsSafe, GroomedPath, HourBegun

\* A search begins with nothing found.
LEMMA StartSearchTypes ==
  ASSUME TInv, NEW s \in SUBSET Cameras, StartSearch(s)
  PROVE  /\ scope' \subseteq Cameras /\ left' \subseteq Cameras /\ oldest' = {}
         /\ before' \subseteq Chunks /\ pc' = "scan"
BY DEF StartSearch, TInv, TypeOK

\* Reading a camera's tree keeps the types.
LEMMA ScanPreservesTypes ==
  ASSUME TInv, NEW c \in Cameras, ScanCamera(c)
  PROVE  TInv'
<1>1. /\ oldest' \subseteq oldest \cup Candidates(drive, c)
      /\ pc' = "scan" /\ left' \subseteq left
      /\ UNCHANGED <<diskVars, allowed, drive, j, scope, dir, before, history>>
  BY DEF ScanCamera, find_oldest_file
<1>2. Candidates(drive, c) \subseteq {f \in Chunks : f.at = "filed"}
  BY DEF Candidates, FiledBy, TInv, TypeOK
<1>3. QED
  BY <1>1, <1>2 DEF TInv, TypeOK, StagingIsSafe, GroomedPath, HourBegun, diskVars, history

\* Removing a chunk keeps the types.
LEMMA RemovePreservesTypes == TInv /\ Remove => TInv'
<1> SUFFICES ASSUME TInv, Remove PROVE TInv'
  OBVIOUS
<1>1. PICK f \in oldest :
        /\ disk' = [disk EXCEPT ![drive] = @ \ {f}]
        /\ dir' = DirOf(f)
        /\ groomed' = groomed \cup {<<drive, DirOf(f)>>}
  BY DEF Remove
<1>2. f \in Chunks /\ f.at = "filed"
  BY DEF TInv, TypeOK, StagingIsSafe
<1>3. f.cam \in Cameras /\ f.t \in Nat /\ DirOf(f) = HourDir(f.cam, f.t)
  BY <1>2 DEF Chunks, DirOf
<1>4. DirOf(f) \in Paths
  BY <1>3, HourDirShape
<1>5. disk' \in [Drives -> SUBSET Chunks]
  BY <1>1 DEF TInv, TypeOK
<1>6. groomed' \subseteq Drives \X Paths
  BY <1>1, <1>4 DEF TInv, TypeOK
<1>7. GroomedPath'
  <2>1. dir' = HourDir(f.cam, f.t) /\ <<drive, HourDir(f.cam, f.t)>> \in groomed' /\ drive' = drive
    BY <1>1, <1>3 DEF Remove
  <2>2. QED
    BY <1>3, <2>1 DEF GroomedPath
<1>8. /\ pc' = "test" /\ oldest' = {} /\ before' = {}
      /\ UNCHANGED <<dirs, last, rec, now, allowed, drive, j, scope, left, overtaken>>
  BY DEF Remove
<1>9. QED
  BY <1>1, <1>4, <1>5, <1>6, <1>7, <1>8 DEF TInv, TypeOK, StagingIsSafe, HourBegun

\* Testing and removing directories keep the types.
LEMMA WalkPreservesTypes == TInv /\ (TestDirectory \/ RemoveDirectory) => TInv'
<1> SUFFICES ASSUME TInv, TestDirectory \/ RemoveDirectory PROVE TInv'
  OBVIOUS
<1>1. CASE TestDirectory
  BY <1>1 DEF TestDirectory, DeleteReturns, TInv, TypeOK, StagingIsSafe, GroomedPath, HourBegun,
              diskVars, history
<1>2. CASE RemoveDirectory
  <2>1. PICK c \in Cameras, t \in Nat :
          /\ <<drive, HourDir(c, t)>> \in groomed
          /\ dir \in {HourDir(c, t), <<c, Day(t)>>, <<c>>}
    BY <1>2 DEF RemoveDirectory, TInv, GroomedPath
  <2>2. /\ HourDir(c, t) = <<c, Day(t), Hour(t)>> /\ Day(t) \in Nat /\ Hour(t) \in Nat
    BY DayType DEF HourDir
  <2>3. Len(dir) # 1 => Parent(dir) \in {<<c, Day(t)>>, <<c>>}
    BY <2>1, <2>2 DEF Parent
  <2>4. <<c, Day(t)>> \in Paths /\ <<c>> \in Paths
    BY <2>2 DEF Paths
  <2>5. /\ pc' \in {"test", "again", "groom"}
        /\ pc' = "test" => Len(dir) # 1 /\ dir' = Parent(dir)
        /\ scope' \in {scope, {}} /\ dir' \in {<<>>, <<c, Day(t)>>, <<c>>}
        /\ UNCHANGED <<disk, last, rec, now, allowed, drive, j, left, oldest, before, groomed>>
    BY <1>2, <2>3 DEF RemoveDirectory, DeleteReturns
  <2>6. dirs' \in [Drives -> SUBSET Paths]
    BY <1>2 DEF RemoveDirectory, Rmdir, TInv, TypeOK
  <2>7. overtaken' \subseteq Drives \X Paths
    <3>1. \A w \in Writers : rec[w] = "hour" => w[2] \in Cameras /\ HourDir(w[2], last[w]) \in Paths
      BY SpaceAssumption, HourDirShape DEF TInv, HourBegun
    <3>2. Waiting(drive, dir) \subseteq Paths
      BY <3>1 DEF Waiting
    <3>3. drive \in Drives /\ overtaken \subseteq Drives \X Paths
      BY DEF TInv, TypeOK
    <3>4. QED
      BY <1>2, <3>2, <3>3 DEF RemoveDirectory
  <2>8. TypeOK'
    BY <2>4, <2>5, <2>6, <2>7 DEF TInv, TypeOK
  <2>9. GroomedPath'
    BY <2>1, <2>3, <2>5 DEF GroomedPath
  <2>10. QED
    BY <2>5, <2>8, <2>9 DEF TInv, StagingIsSafe, HourBegun
<1>3. QED
  BY <1>1, <1>2

\* The entry groom_handler looks at names a camera and its limit.
LEMMA TimeBasedType ==
  ASSUME j \in 1 .. Len(TimeBased) + 1, j <= Len(TimeBased)
  PROVE  /\ j \in 1 .. Len(TimeBased)
         /\ TimeBased[j].cam \in Cameras /\ TimeBased[j].max \in Nat
<1> DEFINE E == [cam : Cameras, max : Nat \ {0}]
<1>1. TimeBased \in Seq(E) /\ Len(TimeBased) \in Nat
  BY SpaceAssumption
<1>2. j \in 1 .. Len(TimeBased)
  BY <1>1
<1>3. TimeBased[j] \in E
  <2> HIDE DEF E
  <2> QED
    BY <1>1, <1>2
<1>4. QED
  BY <1>2, <1>3

\* The loop over the drives keeps the types.
LEMMA LoopPreservesTypes ==
  TInv /\ (Visit \/ FirstMeasure \/ MeasureAgain \/ groom_handler \/ VisitDone \/ Sleep
           \/ RemoveFails) => TInv'
<1> SUFFICES ASSUME TInv, \/ Visit \/ FirstMeasure \/ MeasureAgain \/ groom_handler
                          \/ VisitDone \/ Sleep \/ RemoveFails
             PROVE  TInv'
  OBVIOUS
<1> USE DEF TInv, TypeOK, StagingIsSafe, GroomedPath, HourBegun, diskVars, history
<1>1. CASE Visit
  BY <1>1, SpaceAssumption DEF Visit
<1>2. CASE FirstMeasure \/ MeasureAgain
  <2>1. \/ StartSearch({})
        \/ pc' = "groom" /\ UNCHANGED <<scope, left, oldest, before>>
    BY <1>2 DEF FirstMeasure, MeasureAgain
  <2>2. UNCHANGED <<diskVars, allowed, drive, j, dir, history>>
    BY <1>2 DEF FirstMeasure, MeasureAgain
  <2>3. QED
    BY <2>1, <2>2, StartSearchTypes
<1>3. CASE groom_handler
  <2>1. CASE TooMuchFootage(drive, j)
    <3>1. {TimeBased[j].cam} \subseteq Cameras
      BY <1>3, TimeBasedType, Zenon DEF groom_handler
    <3>2. StartSearch({TimeBased[j].cam}) /\ j' = j
      BY <1>3, <2>1, Zenon DEF groom_handler
    <3>3. UNCHANGED <<diskVars, allowed, drive, dir, history>>
      BY <1>3 DEF groom_handler
    <3>4. QED
      BY <3>1, <3>2, <3>3, StartSearchTypes
  <2>2. CASE ~TooMuchFootage(drive, j)
    BY <1>3, <2>2, SpaceAssumption DEF groom_handler
  <2>3. QED
    BY <2>1, <2>2
<1>4. CASE VisitDone
  BY <1>4 DEF VisitDone
<1>5. CASE Sleep
  <2>1. NextDrive(drive) \in Drives
    BY DEF NextDrive, Drives
  <2>2. QED
    BY <1>5, <2>1 DEF Sleep
<1>6. CASE RemoveFails
  BY <1>6 DEF RemoveFails, DeleteFailed
<1>7. QED
  BY <1>1, <1>2, <1>3, <1>4, <1>5, <1>6

\* Opening a chunk keeps the types, and is the end of making directories.
LEMMA OpenTypes ==
  ASSUME TypeOK, NEW w \in Writers, NEW t \in Nat, Open(w[1], w[2], t)
  PROVE  /\ disk' \in [Drives -> SUBSET Chunks]
         /\ rec' \in [Writers -> {"ready", "hour", "record"}]
         /\ \A v \in Writers : rec'[v] = "hour" => v # w /\ rec[v] = "hour"
<1>1. w = <<w[1], w[2]>> /\ w[1] \in Drives /\ w[2] \in Cameras
  BY SpaceAssumption
<1>2. \A n \in Lengths : [cam |-> w[2], t |-> t, len |-> n, at |-> "open"] \in Chunks
  BY <1>1 DEF Chunks
<1>3. disk' \in [Drives -> SUBSET Chunks]
  BY <1>1, <1>2 DEF Open, TypeOK
<1>4. PICK r \in {"ready", "record"} : rec' = [rec EXCEPT ![w] = r]
  BY <1>1 DEF Open
<1>5. QED
  BY <1>3, <1>4 DEF TypeOK

\* mkdir makes paths only.
LEMMA MkdirTypes ==
  ASSUME dirs \in [Drives -> SUBSET Paths], NEW d \in Drives, NEW p \in Paths
  PROVE  /\ Mkdir(d, p) \in [Drives -> SUBSET Paths]
         /\ \A e \in Drives : dirs[e] \subseteq Mkdir(d, p)[e] /\ Mkdir(d, p)[e] \subseteq dirs[e] \cup {p}
BY DEF Mkdir

\* A recorder that begins a chunk keeps the types.
LEMMA NewTypes ==
  ASSUME TInv, NEW w \in Writers, NewChunk(w[1], w[2])
  PROVE  TInv'
<1>1. w = <<w[1], w[2]>> /\ w[1] \in Drives /\ w[2] \in Cameras
  BY SpaceAssumption
<1>2. TypeOK /\ now \in Nat /\ dirs \in [Drives -> SUBSET Paths]
      /\ last \in [Writers -> Nat \cup {-1}]
  BY DEF TInv, TypeOK
<1>3. <<w[2], Day(now)>> \in Paths
  BY <1>1, <1>2, DayType, PathShape
<1>4. last' = [last EXCEPT ![w] = now] /\ UNCHANGED <<now, allowed, monVars>>
  BY <1>1 DEF NewChunk
<1>5. last' \in [Writers -> Nat \cup {-1}] /\ last'[w] \in Nat
      /\ \A v \in Writers : v # w => last'[v] = last[v]
  BY <1>2, <1>4
<1>6. /\ disk' \in [Drives -> SUBSET Chunks] /\ dirs' \in [Drives -> SUBSET Paths]
      /\ rec' \in [Writers -> {"ready", "hour", "record"}]
      /\ \A v \in Writers : rec'[v] = "hour" => v = w \/ rec[v] = "hour"
  <2>1. CASE is_new_path_required(last[w], now)
    <3>1. /\ dirs' = Mkdir(w[1], <<w[2], Day(now)>>) /\ disk' = disk
          /\ rec' = [rec EXCEPT ![w] = "hour"]
      BY <1>1, <2>1 DEF NewChunk
    <3>2. dirs' \in [Drives -> SUBSET Paths]
      BY <1>1, <1>2, <1>3, <3>1 DEF Mkdir
    <3>3. QED
      BY <3>1, <3>2 DEF TInv, TypeOK
  <2>2. CASE ~is_new_path_required(last[w], now)
    <3>1. dirs' = dirs /\ Open(w[1], w[2], now)
      BY <1>1, <2>2 DEF NewChunk
    <3>2. QED
      BY <1>2, <3>1, OpenTypes
  <2>3. QED
    BY <2>1, <2>2
<1>7. HourBegun'
  BY <1>5, <1>6 DEF TInv, HourBegun
<1>8. QED
  BY <1>4, <1>5, <1>6, <1>7 DEF TInv, TypeOK, StagingIsSafe, GroomedPath, monVars, history

\* So does one that makes the directory of its hour.
LEMMA HourTypes ==
  ASSUME TInv, NEW w \in Writers, MakeHour(w[1], w[2])
  PROVE  TInv'
<1>1. w = <<w[1], w[2]>> /\ w[1] \in Drives /\ w[2] \in Cameras
  BY SpaceAssumption
<1>2. TypeOK /\ last[w] \in Nat /\ dirs \in [Drives -> SUBSET Paths]
  BY <1>1 DEF MakeHour, TInv, TypeOK, HourBegun
<1>3. HourDir(w[2], last[w]) \in Paths
  BY <1>1, <1>2, HourDirShape
<1>4. /\ dirs' = Mkdir(w[1], HourDir(w[2], last[w])) /\ Open(w[1], w[2], last[w])
      /\ UNCHANGED <<last, now, allowed, monVars>>
  BY <1>1 DEF MakeHour
<1>5. dirs' \in [Drives -> SUBSET Paths]
  BY <1>1, <1>2, <1>3, <1>4, MkdirTypes
<1>6. /\ disk' \in [Drives -> SUBSET Chunks]
      /\ rec' \in [Writers -> {"ready", "hour", "record"}]
      /\ \A v \in Writers : rec'[v] = "hour" => v # w /\ rec[v] = "hour"
  BY <1>2, <1>4, OpenTypes
<1>7. HourBegun'
  BY <1>4, <1>6 DEF TInv, HourBegun
<1>8. QED
  BY <1>4, <1>5, <1>6, <1>7 DEF TInv, TypeOK, StagingIsSafe, GroomedPath, monVars, history

\* So does one that files a chunk.
LEMMA CloseTypes ==
  ASSUME TInv, NEW w \in Writers, CloseChunk(w[1], w[2])
  PROVE  TInv'
<1>1. w = <<w[1], w[2]>> /\ w[1] \in Drives /\ w[2] \in Cameras
  BY SpaceAssumption
<1>2. PICK f \in disk[w[1]], a \in {"filed", "left"} :
        disk' = [disk EXCEPT ![w[1]] = (@ \ {f}) \cup {[f EXCEPT !.at = a]}]
  BY DEF CloseChunk
<1>3. f \in Chunks
  BY <1>1 DEF TInv, TypeOK
<1>4. [f EXCEPT !.at = a] \in Chunks
  BY <1>3 DEF Chunks
<1>5. disk' \in [Drives -> SUBSET Chunks]
  BY <1>1, <1>2, <1>4 DEF TInv, TypeOK
<1>6. rec' = [rec EXCEPT ![w] = "ready"] /\ UNCHANGED <<dirs, last, now, allowed, monVars>>
  BY <1>1 DEF CloseChunk
<1>7. rec' \in [Writers -> {"ready", "hour", "record"}] /\ HourBegun'
  BY <1>6 DEF TInv, TypeOK, HourBegun
<1>8. QED
  BY <1>5, <1>6, <1>7 DEF TInv, TypeOK, StagingIsSafe, GroomedPath, monVars, history

\* Every step keeps the types.
LEMMA TStep == TInv /\ [Next]_vars => TInv'
<1> SUFFICES ASSUME TInv, [Next]_vars PROVE TInv'
  OBVIOUS
<1>1. CASE Monitor
  BY <1>1, LoopPreservesTypes, ScanPreservesTypes, RemovePreservesTypes, WalkPreservesTypes
     DEF Monitor, Search
<1>2. CASE Recorders
  BY <1>2, NewTypes, HourTypes, CloseTypes DEF Recorders
<1>3. CASE ClockTicks
  BY <1>3 DEF ClockTicks, TInv, TypeOK, StagingIsSafe, GroomedPath, HourBegun, monVars, history
<1>4. CASE ControlFile
  <2>1. allowed' \in BOOLEAN
    BY <1>4, Zenon DEF ControlFile
  <2>2. QED
    BY <1>4, <2>1 DEF ControlFile, TInv, TypeOK, StagingIsSafe, GroomedPath, HourBegun,
                      diskVars, monVars, history
<1>5. CASE UNCHANGED vars
  BY <1>5 DEF vars, TInv, TypeOK, StagingIsSafe, GroomedPath, HourBegun
<1>6. QED
  BY <1>1, <1>2, <1>3, <1>4, <1>5 DEF Next

\* The types hold throughout.
LEMMA TInvAlways == Spec => []TInv
BY InitTInv, TStep, PTL DEF Spec

\* Every variable of the space monitor keeps its type: the index of the
\* time-based cameras stays in its array, paths stay paths.
THEOREM SpaceTypeCorrect == Spec => []TypeOK
<1>1. TInv => TypeOK
  BY DEF TInv
<1>2. QED
  BY <1>1, TInvAlways, PTL

\* Whatever the recorders write meanwhile, find_oldest_file never offers a file
\* of a staging directory for deletion.
THEOREM StagingIsSafeAlways == Spec => []StagingIsSafe
<1>1. TInv => StagingIsSafe
  BY DEF TInv
<1>2. QED
  BY <1>1, TInvAlways, PTL

-----------------------------------------------------------------------------
(* The oldest chunk.                                                       *)

\* During a search the chunks filed before it are still there, and the best one
\* so far is no younger than any of them in a directory already read.
SearchInv ==
  pc = "scan" =>
    /\ before \subseteq {f \in disk[drive] : f.at = "filed"}
    /\ \A f \in before :
         f.t < MaxTimeT /\ (scope = {} \/ f.cam \in scope) /\ f.cam \notin left =>
           \E g \in oldest : g.t <= f.t

\* Reading a camera's tree leaves nothing older unremembered.
LEMMA ScanKeepsSearch ==
  ASSUME TInv, SearchInv, NEW c \in Cameras, ScanCamera(c)
  PROVE  SearchInv'
<1> DEFINE found == oldest \cup Candidates(drive, c)
<1>1. found \subseteq Chunks
  BY DEF Candidates, FiledBy, TInv, TypeOK
<1>2. \A x \in found : \E g \in oldest' : g.t <= x.t
  <2> SUFFICES ASSUME NEW x \in found PROVE \E g \in oldest' : g.t <= x.t
    OBVIOUS
  <2> DEFINE first == {f \in found : \A g \in found : f.t <= g.t}
  <2>1. PICK m \in found : m.t <= x.t /\ \A g \in found : m.t <= g.t
    <3> HIDE DEF found
    <3> QED
      BY <1>1, LeastChunk
  <2>2. oldest' = IF oldest # {} /\ oldest \subseteq first THEN oldest ELSE first
    BY DEF ScanCamera, find_oldest_file
  <2>3. CASE oldest # {} /\ oldest \subseteq first
    <3>1. PICK g \in oldest : g \in first
      BY <2>3
    <3>2. QED
      BY <2>2, <2>3, <3>1
  <2>4. CASE ~(oldest # {} /\ oldest \subseteq first)
    BY <2>1, <2>2, <2>4
  <2>5. QED
    BY <2>3, <2>4
<1>3. /\ pc = "scan" /\ left' = left \ {c}
      /\ UNCHANGED <<disk, drive, scope, before>>
  BY DEF ScanCamera, diskVars
<1>4. ASSUME NEW f \in before, f.t < MaxTimeT, scope = {} \/ f.cam \in scope, f.cam \notin left'
      PROVE  \E g \in oldest' : g.t <= f.t
  <2>1. f \in disk[drive] /\ f.at = "filed" /\ f \in Chunks
    BY <1>3 DEF SearchInv, TInv, TypeOK
  <2>2. CASE f.cam = c
    <3>1. f \in found
      BY <1>4, <2>1, <2>2 DEF Candidates, FiledBy
    <3>2. QED
      BY <1>2, <3>1
  <2>3. CASE f.cam # c
    <3>1. PICK x \in oldest : x.t <= f.t
      BY <1>3, <1>4, <2>3 DEF SearchInv
    <3>2. PICK g \in oldest' : g.t <= x.t
      BY <1>2
    <3>3. x \in Chunks /\ g \in Chunks
      BY ScanPreservesTypes DEF TInv, TypeOK
    <3>4. QED
      BY <2>1, <3>1, <3>2, <3>3 DEF Chunks
  <2>4. QED
    BY <2>2, <2>3
<1>5. QED
  BY <1>3, <1>4 DEF SearchInv

\* A recorder's step leaves the monitor and every filed chunk alone.
LEMMA RecordersKeepFiled ==
  ASSUME TInv, Recorders
  PROVE  /\ UNCHANGED monVars
         /\ \A d \in Drives : \A f \in disk[d] : f.at = "filed" => f \in disk'[d]
<1>1. PICK w \in Writers : NewChunk(w[1], w[2]) \/ MakeHour(w[1], w[2]) \/ CloseChunk(w[1], w[2])
  BY DEF Recorders
<1>2. w[1] \in Drives /\ disk \in [Drives -> SUBSET Chunks]
  BY SpaceAssumption DEF TInv, TypeOK
<1>3. UNCHANGED monVars
  BY <1>1 DEF NewChunk, MakeHour, CloseChunk
<1>4. \/ disk' = disk
      \/ \E x : disk' = [disk EXCEPT ![w[1]] = @ \cup {x}]
      \/ \E f, x : f.at = "open" /\ disk' = [disk EXCEPT ![w[1]] = (@ \ {f}) \cup {x}]
  <2>1. CASE NewChunk(w[1], w[2])
    BY <2>1 DEF NewChunk, Open
  <2>2. CASE MakeHour(w[1], w[2])
    BY <2>2 DEF MakeHour, Open
  <2>3. CASE CloseChunk(w[1], w[2])
    <3>1. PICK f \in disk[w[1]] :
            /\ f.at = "open"
            /\ disk' = [disk EXCEPT ![w[1]] = (@ \ {f}) \cup
                 {[f EXCEPT !.at = IF HourDir(w[2], f.t) \in dirs[w[1]] THEN "filed" ELSE "left"]}]
      BY <2>3 DEF CloseChunk
    <3>2. QED
      BY <3>1, Zenon
  <2>4. QED
    BY <1>1, <2>1, <2>2, <2>3
<1>5. ASSUME NEW d \in Drives, NEW g \in disk[d], g.at = "filed" PROVE g \in disk'[d]
  <2>1. CASE disk' = disk
    BY <2>1
  <2>2. CASE \E x : disk' = [disk EXCEPT ![w[1]] = @ \cup {x}]
    BY <2>2, <1>2
  <2>3. CASE \E f, x : f.at = "open" /\ disk' = [disk EXCEPT ![w[1]] = (@ \ {f}) \cup {x}]
    <3>1. PICK f, x : f.at = "open" /\ disk' = [disk EXCEPT ![w[1]] = (@ \ {f}) \cup {x}]
      BY <2>3
    <3>2. g # f
      BY <1>5, <3>1
    <3>3. QED
      BY <3>1, <3>2, <1>2
  <2>4. QED
    BY <1>4, <2>1, <2>2, <2>3
<1>6. QED
  BY <1>3, <1>5

\* Nothing the recorders do disturbs a search.
LEMMA SearchStep == TInv /\ SearchInv /\ [Next]_vars => SearchInv'
<1> SUFFICES ASSUME TInv, SearchInv, [Next]_vars PROVE SearchInv'
  OBVIOUS
<1>1. ASSUME NEW c \in Cameras, ScanCamera(c) PROVE SearchInv'
  BY <1>1, ScanKeepsSearch
<1>2. ASSUME NEW s, StartSearch(s), UNCHANGED <<disk, drive>> PROVE SearchInv'
  <2>1. \A f \in disk[drive] : f.cam \in Cameras
    BY DEF TInv, TypeOK, Chunks
  <2>2. QED
    BY <1>2, <2>1 DEF StartSearch, SearchInv
<1>3. CASE FirstMeasure \/ MeasureAgain \/ groom_handler
  <2>1. UNCHANGED <<disk, drive>> /\ (pc' # "scan" \/ \E s : StartSearch(s))
    BY <1>3 DEF FirstMeasure, MeasureAgain, groom_handler, diskVars
  <2>2. QED
    BY <2>1, <1>2 DEF SearchInv
<1>4. CASE Visit \/ VisitDone \/ Sleep \/ Remove \/ RemoveFails \/ TestDirectory \/ RemoveDirectory
  <2>1. pc' # "scan"
    BY <1>4 DEF Visit, VisitDone, Sleep, Remove, RemoveFails, DeleteFailed, TestDirectory,
                RemoveDirectory, DeleteReturns
  <2>2. QED
    BY <2>1 DEF SearchInv
<1>5. CASE Recorders
  <2>1. UNCHANGED monVars /\ \A d \in Drives : \A f \in disk[d] : f.at = "filed" => f \in disk'[d]
    BY <1>5, RecordersKeepFiled
  <2>2. QED
    BY <2>1 DEF SearchInv, monVars, TInv, TypeOK
<1>6. CASE ClockTicks \/ ControlFile \/ UNCHANGED vars
  <2>1. UNCHANGED <<disk, pc, drive, scope, left, oldest, before>>
    BY <1>6 DEF ClockTicks, ControlFile, vars, monVars, diskVars
  <2>2. QED
    BY <2>1 DEF SearchInv
<1>7. QED
  BY <1>1, <1>3, <1>4, <1>5, <1>6 DEF Next, Monitor, Search

\* find_oldest_file gives the oldest chunk: none that was filed before the search
\* and is still on the drive is older, for every number of cameras and chunks.
THEOREM OldestIsChosenAlways == Spec => []OldestIsChosen
<1>1. Init => SearchInv
  BY DEF Init, SearchInv
<1>2. SearchInv => OldestIsChosen
  BY DEF SearchInv, OldestIsChosen
<1>3. QED
  BY <1>1, <1>2, SearchStep, TInvAlways, PTL DEF Spec

-----------------------------------------------------------------------------
(* Directories.                                                            *)

\* The staging directories stay, and with them their cameras' directories.
StagingStays ==
  \A d \in Drives, c \in Cameras : <<c>> \in dirs[d] /\ <<c, Staging>> \in dirs[d]

\* The directory of an hour is there, or one of the two exceptions was met.
Housed(d, c, t) ==
  HourDir(c, t) \in dirs[d] \/ <<d, HourDir(c, t)>> \in groomed \cup overtaken

\* Between the two mkdirs the day's directory is there, or it was removed there and then.
DayMade ==
  \A w \in Writers : rec[w] = "hour" =>
    \/ <<w[2], Day(last[w])>> \in dirs[w[1]]
    \/ <<w[1], HourDir(w[2], last[w])>> \in overtaken

\* What a recorder relies on when it does not create a directory.
LatestHoused ==
  \A w \in Writers : last[w] >= 0 /\ rec[w] # "hour" => Housed(w[1], w[2], last[w])

DirInv == StagingStays /\ DayMade /\ LatestHoused /\ WritersKeepDirectory

\* The initial directories.
LEMMA InitDirInv == Init => DirInv
BY DEF Init, DirInv, StagingStays, DayMade, LatestHoused, WritersKeepDirectory

\* rmdir takes an empty directory on the walk: neither a camera's nor staging, of
\* the hours only the one that was groomed, and a day's on record as overtaken.
LEMMA RmdirKeeps ==
  ASSUME TInv, DirInv, RemoveDirectory
  PROVE  DirInv'
<1>1. PICK k \in Cameras, t \in Nat :
        /\ <<drive, HourDir(k, t)>> \in groomed
        /\ dir \in {HourDir(k, t), <<k, Day(t)>>, <<k>>}
  BY DEF RemoveDirectory, TInv, GroomedPath
<1>2. HourDir(k, t) = <<k, Day(t), Hour(t)>> /\ Day(t) # Staging
  BY DayType DEF HourDir
<1>3. /\ dirs' = [dirs EXCEPT ![drive] = IF IsEmpty(drive, dir) THEN @ \ {dir} ELSE @]
      /\ overtaken' = overtaken \cup
           (IF IsEmpty(drive, dir) THEN {drive} \X Waiting(drive, dir) ELSE {})
      /\ UNCHANGED <<disk, last, rec, drive, groomed>>
  BY DEF RemoveDirectory, Rmdir
<1>4. drive \in Drives /\ dirs \in [Drives -> SUBSET Paths] /\ disk \in [Drives -> SUBSET Chunks]
  BY DEF TInv, TypeOK
<1>5. \A d \in Drives : \A p \in dirs[d] :
        p \notin dirs'[d] => d = drive /\ p = dir /\ IsEmpty(drive, dir)
  BY <1>3, <1>4
<1>6. overtaken \subseteq overtaken'
  BY <1>3
<1>7. \A c \in Cameras : <<c, Staging>> # dir
  BY <1>1, <1>2
<1>8. \A c \in Cameras : IsEmpty(drive, dir) => <<c>> # dir
  <2> SUFFICES ASSUME NEW c \in Cameras, <<c>> = dir PROVE ~IsEmpty(drive, dir)
    OBVIOUS
  <2>1. <<c, Staging>> \in dirs[drive]
    BY <1>4 DEF DirInv, StagingStays
  <2>2. Len(<<c, Staging>>) > 1 /\ Parent(<<c, Staging>>) = <<c>>
    BY DEF Parent
  <2>3. QED
    BY <2>1, <2>2 DEF IsEmpty
<1>9. StagingStays'
  BY <1>5, <1>7, <1>8 DEF DirInv, StagingStays
<1>10. DayMade'
  <2> SUFFICES ASSUME NEW w \in Writers, rec[w] = "hour"
               PROVE  \/ <<w[2], Day(last[w])>> \in dirs'[w[1]]
                      \/ <<w[1], HourDir(w[2], last[w])>> \in overtaken'
    BY <1>3 DEF DayMade
  <2>1. w[1] \in Drives /\ w[2] \in Cameras /\ last[w] \in Nat
    BY SpaceAssumption DEF TInv, HourBegun
  <2>2. Parent(HourDir(w[2], last[w])) = <<w[2], Day(last[w])>>
    BY <2>1, HourDirShape
  <2>3. ASSUME <<w[2], Day(last[w])>> \in dirs[w[1]], <<w[2], Day(last[w])>> \notin dirs'[w[1]]
        PROVE  <<w[1], HourDir(w[2], last[w])>> \in overtaken'
    <3>1. w[1] = drive /\ <<w[2], Day(last[w])>> = dir /\ IsEmpty(drive, dir)
      BY <1>5, <2>1, <2>3
    <3>2. HourDir(w[2], last[w]) \in Waiting(drive, dir)
      BY <2>2, <3>1 DEF Waiting
    <3>3. QED
      BY <1>3, <3>1, <3>2
  <2>4. QED
    BY <1>6, <2>3 DEF DirInv, DayMade
<1>11. ASSUME NEW d \in Drives, NEW c \in Cameras, NEW u \in Nat, Housed(d, c, u)
       PROVE  Housed(d, c, u)'
  <2>1. HourDir(c, u) = dir => dir = HourDir(k, t)
    <3>1. HourDir(c, u) = <<c, Day(u), Hour(u)>>
      BY DEF HourDir
    <3>2. QED
      BY <1>1, <1>2, <3>1
  <2>2. Housed(d, c, u)' = (HourDir(c, u) \in dirs'[d] \/ <<d, HourDir(c, u)>> \in groomed' \cup overtaken')
    BY DEF Housed
  <2>3. QED
    BY <1>1, <1>3, <1>5, <1>6, <1>11, <2>1, <2>2 DEF Housed
<1>12. WritersKeepDirectory'
  <2>1. \A d \in Drives : \A f \in disk[d] : f.cam \in Cameras /\ f.t \in Nat
    BY <1>4 DEF Chunks
  <2>2. QED
    BY <1>3, <1>11, <2>1 DEF DirInv, WritersKeepDirectory, Housed
<1>13. LatestHoused'
  <2>1. \A w \in Writers : w[1] \in Drives /\ w[2] \in Cameras /\ (last[w] >= 0 => last[w] \in Nat)
    BY SpaceAssumption DEF TInv, TypeOK
  <2>2. QED
    BY <1>3, <1>11, <2>1 DEF DirInv, LatestHoused
<1>14. QED
  BY <1>9, <1>10, <1>12, <1>13 DEF DirInv

\* Opening a chunk of an hour whose directory is in order.
LEMMA OpenKeepsDirectories ==
  ASSUME TInv, DirInv, NEW w \in Writers, NEW t \in Nat, Open(w[1], w[2], t),
         \A d \in Drives : dirs[d] \subseteq dirs'[d], UNCHANGED <<groomed, overtaken>>,
         HourDir(w[2], t) \in dirs'[w[1]] \/ <<w[1], HourDir(w[2], t)>> \in groomed \cup overtaken
  PROVE  WritersKeepDirectory'
<1>1. w[1] \in Drives /\ disk \in [Drives -> SUBSET Chunks]
  BY SpaceAssumption DEF TInv, TypeOK
<1>2. \A d \in Drives : \A f \in disk'[d] : f \in disk[d] \/ (d = w[1] /\ f.cam = w[2] /\ f.t = t)
  BY <1>1 DEF Open
<1>3. QED
  BY <1>2 DEF DirInv, WritersKeepDirectory

\* The recorders that do nothing keep what they rely on while directories are made.
LEMMA OthersKeepDirectories ==
  ASSUME TInv, DirInv, NEW w \in Writers, \A d \in Drives : dirs[d] \subseteq dirs'[d],
         UNCHANGED <<groomed, overtaken>>,
         \A v \in Writers : v # w => last'[v] = last[v] /\ rec'[v] = rec[v]
  PROVE  /\ StagingStays'
         /\ \A v \in Writers : v # w =>
              /\ rec'[v] = "hour" =>
                   \/ <<v[2], Day(last'[v])>> \in dirs'[v[1]]
                   \/ <<v[1], HourDir(v[2], last'[v])>> \in overtaken'
              /\ last'[v] >= 0 /\ rec'[v] # "hour" =>
                   \/ HourDir(v[2], last'[v]) \in dirs'[v[1]]
                   \/ <<v[1], HourDir(v[2], last'[v])>> \in groomed' \cup overtaken'
<1>1. \A v \in Writers : v[1] \in Drives
  BY SpaceAssumption
<1>2. QED
  BY <1>1 DEF DirInv, StagingStays, DayMade, LatestHoused, Housed

\* A recorder that begins a chunk makes the day's directory in a new hour, and
\* relies on the hour's in the same.
LEMMA NewKeepsDirectories ==
  ASSUME TInv, DirInv, NEW w \in Writers, NewChunk(w[1], w[2])
  PROVE  DirInv'
<1>1. w = <<w[1], w[2]>> /\ w[1] \in Drives /\ w[2] \in Cameras
  BY SpaceAssumption
<1>2. /\ now \in Nat /\ last[w] \in Nat \cup {-1} /\ last \in [Writers -> Nat \cup {-1}]
      /\ dirs \in [Drives -> SUBSET Paths] /\ rec \in [Writers -> {"ready", "hour", "record"}]
  BY DEF TInv, TypeOK
<1>3. /\ rec[w] = "ready" /\ last' = [last EXCEPT ![w] = now] /\ UNCHANGED <<groomed, overtaken>>
  BY <1>1 DEF NewChunk, monVars, history
<1>4. last'[w] = now /\ \A v \in Writers : v # w => last'[v] = last[v]
  BY <1>2, <1>3
<1>5. CASE is_new_path_required(last[w], now)
  <2>1. /\ dirs' = Mkdir(w[1], <<w[2], Day(now)>>) /\ disk' = disk
        /\ rec' = [rec EXCEPT ![w] = "hour"]
    BY <1>1, <1>5 DEF NewChunk
  <2>2. <<w[2], Day(now)>> \in Paths /\ Parent(<<w[2], Day(now)>>) = <<w[2]>>
    BY <1>1, <1>2, DayType, PathShape
  <2>3. <<w[2]>> \in dirs[w[1]]
    BY <1>1 DEF DirInv, StagingStays
  <2>4. <<w[2], Day(now)>> \in dirs'[w[1]] /\ \A d \in Drives : dirs[d] \subseteq dirs'[d]
    BY <1>1, <1>2, <2>1, <2>2, <2>3 DEF Mkdir
  <2>5. rec'[w] = "hour" /\ \A v \in Writers : v # w => rec'[v] = rec[v]
    BY <1>2, <2>1
  <2>6. StagingStays' /\ DayMade' /\ LatestHoused'
    BY <1>3, <1>4, <2>4, <2>5, OthersKeepDirectories DEF DayMade, LatestHoused, Housed
  <2>7. WritersKeepDirectory'
    BY <1>3, <2>1, <2>4 DEF DirInv, WritersKeepDirectory
  <2>8. QED
    BY <2>6, <2>7 DEF DirInv
<1>6. CASE ~is_new_path_required(last[w], now)
  <2>1. dirs' = dirs /\ Open(w[1], w[2], now)
    BY <1>1, <1>6 DEF NewChunk
  <2>2. last[w] >= 0 /\ Hour(last[w]) = Hour(now)
    BY <1>2, <1>6 DEF is_new_path_required
  <2>3. HourDir(w[2], last[w]) = HourDir(w[2], now)
    BY <2>2 DEF HourDir, Day
  <2>4. HourDir(w[2], now) \in dirs'[w[1]] \/ <<w[1], HourDir(w[2], now)>> \in groomed \cup overtaken
    BY <1>3, <2>1, <2>2, <2>3 DEF DirInv, LatestHoused, Housed
  <2>5. WritersKeepDirectory'
    BY <1>2, <1>3, <2>1, <2>4, OpenKeepsDirectories
  <2>6. rec'[w] # "hour" /\ \A v \in Writers : v # w => rec'[v] = rec[v]
    BY <1>1, <1>2, <2>1 DEF Open
  <2>7. StagingStays' /\ DayMade' /\ LatestHoused'
    BY <1>3, <1>4, <2>1, <2>4, <2>6, OthersKeepDirectories DEF DayMade, LatestHoused, Housed
  <2>8. QED
    BY <2>5, <2>7 DEF DirInv
<1>7. QED
  BY <1>5, <1>6

\* The directory of the hour is made unless the day's was removed meanwhile.
LEMMA HourKeepsDirectories ==
  ASSUME TInv, DirInv, NEW w \in Writers, MakeHour(w[1], w[2])
  PROVE  DirInv'
<1>1. w = <<w[1], w[2]>> /\ w[1] \in Drives /\ w[2] \in Cameras
  BY SpaceAssumption
<1>2. /\ rec[w] = "hour" /\ UNCHANGED <<last, groomed, overtaken>>
      /\ dirs' = Mkdir(w[1], HourDir(w[2], last[w])) /\ Open(w[1], w[2], last[w])
  BY <1>1 DEF MakeHour, monVars, history
<1>3. last[w] \in Nat /\ dirs \in [Drives -> SUBSET Paths]
      /\ rec \in [Writers -> {"ready", "hour", "record"}]
  BY <1>2 DEF TInv, TypeOK, HourBegun
<1>4. /\ HourDir(w[2], last[w]) \in Paths
      /\ Parent(HourDir(w[2], last[w])) = <<w[2], Day(last[w])>>
  BY <1>1, <1>3, HourDirShape
<1>5. \A d \in Drives : dirs[d] \subseteq dirs'[d]
  BY <1>1, <1>2, <1>3, <1>4, MkdirTypes
<1>6. \/ HourDir(w[2], last[w]) \in dirs'[w[1]]
      \/ <<w[1], HourDir(w[2], last[w])>> \in groomed \cup overtaken
  <2>1. CASE <<w[2], Day(last[w])>> \in dirs[w[1]]
    BY <1>1, <1>2, <1>3, <1>4, <2>1 DEF Mkdir
  <2>2. CASE <<w[1], HourDir(w[2], last[w])>> \in overtaken
    BY <2>2
  <2>3. QED
    BY <1>2, <2>1, <2>2 DEF DirInv, DayMade
<1>7. WritersKeepDirectory'
  BY <1>2, <1>3, <1>5, <1>6, OpenKeepsDirectories
<1>8. rec'[w] # "hour" /\ \A v \in Writers : v # w => rec'[v] = rec[v]
  BY <1>1, <1>2, <1>3 DEF Open
<1>9. StagingStays' /\ DayMade' /\ LatestHoused'
  BY <1>2, <1>5, <1>6, <1>8, OthersKeepDirectories DEF DayMade, LatestHoused, Housed
<1>10. QED
  BY <1>7, <1>9 DEF DirInv

\* Every step keeps the directories of the recorders, but for the two cases.
LEMMA DirStep == TInv /\ DirInv /\ [Next]_vars => DirInv'
<1> SUFFICES ASSUME TInv, DirInv, [Next]_vars PROVE DirInv'
  OBVIOUS
<1>1. CASE RemoveDirectory
  BY <1>1, RmdirKeeps
<1>2. ASSUME NEW w \in Writers, NewChunk(w[1], w[2]) \/ MakeHour(w[1], w[2]) PROVE DirInv'
  BY <1>2, NewKeepsDirectories, HourKeepsDirectories
<1>3. ASSUME UNCHANGED <<dirs, last, overtaken>>, groomed \subseteq groomed',
             \A w \in Writers : rec'[w] = rec[w] \/ (rec[w] = "record" /\ rec'[w] = "ready"),
             \A d \in Drives : \A f \in disk'[d] : f.at = "open" => f \in disk[d]
      PROVE  DirInv'
  BY <1>3 DEF DirInv, StagingStays, DayMade, WritersKeepDirectory, LatestHoused, Housed
<1>4. ASSUME NEW w \in Writers, CloseChunk(w[1], w[2]) PROVE DirInv'
  <2>1. PICK f \in disk[w[1]], a \in {"filed", "left"} :
          disk' = [disk EXCEPT ![w[1]] = (@ \ {f}) \cup {[f EXCEPT !.at = a]}]
    BY <1>4 DEF CloseChunk
  <2>2. f \in Chunks /\ w[1] \in Drives /\ w = <<w[1], w[2]>>
    BY SpaceAssumption DEF TInv, TypeOK
  <2>3. [f EXCEPT !.at = a].at = a
    BY <2>2 DEF Chunks
  <2>4. \A d \in Drives : \A g \in disk'[d] : g.at = "open" => g \in disk[d]
    BY <2>1, <2>2, <2>3 DEF TInv, TypeOK
  <2>5. \A v \in Writers : rec'[v] = rec[v] \/ (rec[v] = "record" /\ rec'[v] = "ready")
    BY <1>4, <2>2 DEF CloseChunk, TInv, TypeOK
  <2>6. QED
    BY <1>3, <1>4, <2>4, <2>5 DEF CloseChunk, monVars, history
<1>5. CASE Remove
  <2>1. UNCHANGED <<dirs, last, rec, overtaken>> /\ groomed \subseteq groomed'
    BY <1>5 DEF Remove
  <2>2. \A d \in Drives : disk'[d] \subseteq disk[d]
    BY <1>5 DEF Remove, TInv, TypeOK
  <2>3. QED
    BY <1>3, <2>1, <2>2
<1>6. CASE \/ Visit \/ FirstMeasure \/ MeasureAgain \/ groom_handler \/ VisitDone \/ Sleep
           \/ RemoveFails \/ TestDirectory \/ (\E c \in Cameras : ScanCamera(c))
  <2>1. UNCHANGED <<disk, dirs, last, rec, groomed, overtaken>>
    BY <1>6 DEF Visit, FirstMeasure, MeasureAgain, groom_handler, VisitDone, Sleep,
                RemoveFails, TestDirectory, ScanCamera, diskVars, history
  <2>2. QED
    BY <1>3, <2>1
<1>7. CASE ClockTicks \/ ControlFile \/ UNCHANGED vars
  <2>1. UNCHANGED <<disk, dirs, last, rec, groomed, overtaken>>
    BY <1>7 DEF ClockTicks, ControlFile, diskVars, monVars, history, vars
  <2>2. QED
    BY <1>3, <2>1
<1>8. QED
  BY <1>1, <1>2, <1>4, <1>5, <1>6, <1>7 DEF Next, Monitor, Search, Recorders

\* The directory of the hour a recorder is in is missing in two cases only: a
\* chunk of that camera and hour was deleted, or the day's directory was removed
\* between the two mkdirs of the recorder.
THEOREM WritersKeepDirectoryAlways == Spec => []WritersKeepDirectory
<1>1. DirInv => WritersKeepDirectory
  BY DEF DirInv
<1>2. QED
  BY <1>1, InitDirInv, DirStep, TInvAlways, PTL DEF Spec

-----------------------------------------------------------------------------
(* Why a chunk is removed.                                                 *)

\* A recorder has one chunk per start time, and the latest is its last.
OneChunkPerStart ==
  \A d \in Drives : \A f \in disk[d] :
    /\ <<d, f.cam>> \in Writers
    /\ f.t <= last[<<d, f.cam>>]
    /\ rec[<<d, f.cam>>] = "hour" => f.t < last[<<d, f.cam>>]
    /\ \A g \in disk[d] : f.cam = g.cam /\ f.t = g.t => f = g

FiniteFootage == \A d \in Drives : IsFiniteSet(Units(disk[d]))

CountInv == OneChunkPerStart /\ FiniteFootage

\* What groom_handler and space_handler saw when they began the search still
\* holds: meanwhile recorders only use up space and only file chunks.
FootageReason ==
  pc = "scan" /\ scope # {} =>
    /\ j <= Len(TimeBased)
    /\ scope = {TimeBased[j].cam}
    /\ TooMuchFootage(drive, j)
SpaceReason ==
  pc = "scan" /\ scope = {} /\ "statvfs" \notin Faults => Free(drive) < space_threshold

\* The units of a single chunk.
UnitsOf(f) == {<<f.cam, f.t>>} \X (1 .. f.len)

\* A chunk has as many units as its duration says.
LEMMA ChunkUnits ==
  ASSUME NEW f, f.len \in Nat
  PROVE  IsFiniteSet(UnitsOf(f)) /\ Cardinality(UnitsOf(f)) = f.len
<1> DEFINE p == <<f.cam, f.t>>
<1>1. IsFiniteSet({p}) /\ Cardinality({p}) = 1
  BY FS_Singleton
<1>2. IsFiniteSet(1 .. f.len) /\ Cardinality(1 .. f.len) = f.len
  BY FS_Interval
<1> HIDE DEF p
<1>3. /\ IsFiniteSet({p} \X (1 .. f.len))
      /\ Cardinality({p} \X (1 .. f.len)) = Cardinality({p}) * Cardinality(1 .. f.len)
  BY <1>1, <1>2, FS_Product
<1>4. QED
  BY <1>1, <1>2, <1>3 DEF UnitsOf, p

\* More chunks hold more footage, and a set of chunks that of its members.
LEMMA UnitsOfSets ==
  ASSUME NEW F, NEW G
  PROVE  /\ F \subseteq G => Units(F) \subseteq Units(G)
         /\ \A f : Units(F \cup {f}) = Units(F) \cup UnitsOf(f)
         /\ \A f \in F : UnitsOf(f) \subseteq Units(F)
<1>1. \A S, u : u \in Units(S) <=> \E f \in S : u \in UnitsOf(f)
  BY DEF Units, UnitsOf
<1>2. QED
  BY <1>1

\* A chunk that is renamed holds the footage it held before.
LEMMA UnitsRenamed ==
  ASSUME NEW F, NEW f \in F, NEW g, UnitsOf(f) = UnitsOf(g)
  PROVE  Units((F \ {f}) \cup {g}) = Units(F)
<1>1. \A S, u : u \in Units(S) <=> \E x \in S : u \in UnitsOf(x)
  BY DEF Units, UnitsOf
<1>2. QED
  BY <1>1

\* Opening a chunk later than the recorder's others.
LEMMA OpenCounts ==
  ASSUME TInv, CountInv, NEW w \in Writers, NEW t \in Nat, Open(w[1], w[2], t),
         last' \in [Writers -> Nat \cup {-1}], last'[w] = t,
         \A v \in Writers : v # w => last'[v] = last[v],
         \A f \in disk[w[1]] : f.cam = w[2] => f.t < t
  PROVE  CountInv' /\ \A d \in Drives : Units(disk[d]) \subseteq Units(disk'[d])
<1>1. w = <<w[1], w[2]>> /\ w[1] \in Drives /\ w[2] \in Cameras
  BY SpaceAssumption
<1>2. /\ disk \in [Drives -> SUBSET Chunks] /\ last \in [Writers -> Nat \cup {-1}]
      /\ rec \in [Writers -> {"ready", "hour", "record"}]
  BY DEF TInv, TypeOK
<1>3. rec'[w] # "hour" /\ \A v \in Writers : v # w => rec'[v] = rec[v]
  BY <1>1, <1>2 DEF Open
<1>4. ASSUME NEW d \in Drives, NEW f \in disk[d]
      PROVE  /\ f.t \in Nat /\ <<d, f.cam>> \in Writers /\ f.t <= last'[<<d, f.cam>>]
             /\ rec'[<<d, f.cam>>] = "hour" => f.t < last'[<<d, f.cam>>]
  <2>1. /\ f.t \in Nat /\ <<d, f.cam>> \in Writers /\ f.t <= last[<<d, f.cam>>]
        /\ rec[<<d, f.cam>>] = "hour" => f.t < last[<<d, f.cam>>]
    BY <1>2 DEF CountInv, OneChunkPerStart, Chunks
  <2>2. CASE <<d, f.cam>> = w
    <3>1. d = w[1] /\ f.cam = w[2]
      BY <2>2
    <3>2. f.t < t
      BY <3>1
    <3>3. QED
      BY <1>3, <2>1, <2>2, <3>2
  <2>3. CASE <<d, f.cam>> # w
    BY <1>3, <2>1, <2>3
  <2>4. QED
    BY <2>2, <2>3
<1>5. CASE disk' = disk
  <2>1. OneChunkPerStart'
    BY <1>4, <1>5 DEF CountInv, OneChunkPerStart
  <2>2. QED
    BY <1>5, <2>1 DEF CountInv, FiniteFootage
<1>6. ASSUME NEW n \in Lengths,
             disk' = [disk EXCEPT ![w[1]] = @ \cup {[cam |-> w[2], t |-> t, len |-> n, at |-> "open"]}]
      PROVE  CountInv' /\ \A d \in Drives : Units(disk[d]) \subseteq Units(disk'[d])
  <2> DEFINE new == [cam |-> w[2], t |-> t, len |-> n, at |-> "open"]
  <2>1. new.cam = w[2] /\ new.t = t /\ new.len = n /\ n \in Nat
    BY SpaceAssumption
  <2>2. \A d \in Drives : disk'[d] = IF d = w[1] THEN disk[d] \cup {new} ELSE disk[d]
    BY <1>1, <1>2, <1>6
  <2> HIDE DEF new
  <2>3. \A d \in Drives : \A x \in disk'[d] : x \in disk[d] \/ (d = w[1] /\ x = new)
    BY <2>2
  <2>4. ASSUME NEW d \in Drives
        PROVE  IsFiniteSet(Units(disk'[d])) /\ Units(disk[d]) \subseteq Units(disk'[d])
    <3>1. IsFiniteSet(Units(disk[d]))
      BY DEF CountInv, FiniteFootage
    <3>2. IsFiniteSet(UnitsOf(new))
      BY <2>1, ChunkUnits
    <3>3. /\ Units(disk[d] \cup {new}) = Units(disk[d]) \cup UnitsOf(new)
          /\ IsFiniteSet(Units(disk[d]) \cup UnitsOf(new))
      BY <3>1, <3>2, UnitsOfSets, FS_Union
    <3>4. disk'[d] = disk[d] \cup {new} \/ disk'[d] = disk[d]
      BY <2>2, Zenon
    <3>5. QED
      BY <3>1, <3>3, <3>4, Zenon
  <2>5. ASSUME NEW d \in Drives, NEW f \in disk'[d]
        PROVE  /\ <<d, f.cam>> \in Writers /\ f.t <= last'[<<d, f.cam>>]
               /\ rec'[<<d, f.cam>>] = "hour" => f.t < last'[<<d, f.cam>>]
    <3>1. CASE f \in disk[d]
      BY <1>4, <3>1
    <3>2. CASE f \notin disk[d]
      <4>1. d = w[1] /\ f.cam = w[2] /\ f.t = t
        BY <2>1, <2>3, <3>2
      <4>2. <<d, f.cam>> = w
        BY <1>1, <4>1
      <4>3. QED
        BY <1>3, <4>1, <4>2
    <3>3. QED
      BY <3>1, <3>2
  <2>6. ASSUME NEW d \in Drives, NEW f \in disk'[d], NEW g \in disk'[d], f.cam = g.cam, f.t = g.t
        PROVE  f = g
    <3>1. CASE f \in disk[d] /\ g \in disk[d]
      BY <2>6, <3>1 DEF CountInv, OneChunkPerStart
    <3>2. ASSUME NEW x \in disk[d], d = w[1], x.cam = new.cam, x.t = new.t PROVE FALSE
      <4>1. x.t < t /\ x.t \in Nat
        BY <1>4, <2>1, <3>2
      <4>2. QED
        BY <2>1, <3>2, <4>1
    <3>3. QED
      BY <2>3, <2>6, <3>1, <3>2
  <2>7. QED
    BY <2>4, <2>5, <2>6 DEF CountInv, OneChunkPerStart, FiniteFootage
<1>7. QED
  BY <1>5, <1>6 DEF Open

\* A new chunk begins after the recorder's others.
LEMMA NewCounts ==
  ASSUME TInv, CountInv, NEW w \in Writers, NewChunk(w[1], w[2])
  PROVE  CountInv' /\ \A d \in Drives : Units(disk[d]) \subseteq Units(disk'[d])
<1>1. w = <<w[1], w[2]>> /\ w[1] \in Drives /\ w[2] \in Cameras
  BY SpaceAssumption
<1>2. /\ disk \in [Drives -> SUBSET Chunks] /\ last \in [Writers -> Nat \cup {-1}] /\ now \in Nat
      /\ rec \in [Writers -> {"ready", "hour", "record"}]
  BY DEF TInv, TypeOK
<1>3. last' = [last EXCEPT ![w] = now] /\ last[w] < now
  BY <1>1 DEF NewChunk
<1>4. /\ last' \in [Writers -> Nat \cup {-1}] /\ last'[w] = now
      /\ \A v \in Writers : v # w => last'[v] = last[v]
  BY <1>2, <1>3
<1>5. \A f \in disk[w[1]] : f.cam = w[2] => f.t < now
  <2> SUFFICES ASSUME NEW f \in disk[w[1]], f.cam = w[2] PROVE f.t < now
    OBVIOUS
  <2>1. f.t \in Nat /\ f.t <= last[w] /\ last[w] \in Nat \cup {-1}
    BY <1>1, <1>2 DEF CountInv, OneChunkPerStart, Chunks
  <2>2. QED
    BY <1>2, <1>3, <2>1
<1>6. CASE is_new_path_required(last[w], now)
  <2>1. disk' = disk /\ rec' = [rec EXCEPT ![w] = "hour"]
    BY <1>1, <1>6 DEF NewChunk
  <2>2. ASSUME NEW d \in Drives, NEW f \in disk[d]
        PROVE  /\ <<d, f.cam>> \in Writers /\ f.t <= last'[<<d, f.cam>>]
               /\ rec'[<<d, f.cam>>] = "hour" => f.t < last'[<<d, f.cam>>]
    <3>1. /\ f.t \in Nat /\ <<d, f.cam>> \in Writers /\ f.t <= last[<<d, f.cam>>]
          /\ rec[<<d, f.cam>>] = "hour" => f.t < last[<<d, f.cam>>]
      BY <1>2 DEF CountInv, OneChunkPerStart, Chunks
    <3>2. CASE <<d, f.cam>> = w
      <4>1. d = w[1] /\ f.cam = w[2]
        BY <3>2
      <4>2. f.t < now
        BY <1>5, <4>1
      <4>3. QED
        BY <1>2, <1>4, <3>1, <3>2, <4>2
    <3>3. CASE <<d, f.cam>> # w
      BY <1>2, <1>4, <2>1, <3>1, <3>3
    <3>4. QED
      BY <3>2, <3>3
  <2>3. OneChunkPerStart'
    BY <2>1, <2>2 DEF CountInv, OneChunkPerStart
  <2>4. QED
    BY <2>1, <2>3 DEF CountInv, FiniteFootage
<1>7. CASE ~is_new_path_required(last[w], now)
  <2>1. Open(w[1], w[2], now)
    BY <1>1, <1>7 DEF NewChunk
  <2>2. QED
    BY <1>2, <1>4, <1>5, <2>1, OpenCounts
<1>8. QED
  BY <1>6, <1>7

\* So does the one whose directories had to be made.
LEMMA HourCounts ==
  ASSUME TInv, CountInv, NEW w \in Writers, MakeHour(w[1], w[2])
  PROVE  CountInv' /\ \A d \in Drives : Units(disk[d]) \subseteq Units(disk'[d])
<1>1. w = <<w[1], w[2]>>
  BY SpaceAssumption
<1>2. rec[w] = "hour" /\ last' = last /\ Open(w[1], w[2], last[w])
  BY <1>1 DEF MakeHour
<1>3. last[w] \in Nat /\ last \in [Writers -> Nat \cup {-1}]
  BY <1>2 DEF TInv, TypeOK, HourBegun
<1>4. \A f \in disk[w[1]] : f.cam = w[2] => f.t < last[w]
  BY <1>1, <1>2, SpaceAssumption DEF CountInv, OneChunkPerStart
<1>5. QED
  BY <1>2, <1>3, <1>4, OpenCounts

\* Filing a chunk does not free space.
LEMMA CloseCounts ==
  ASSUME TInv, CountInv, NEW w \in Writers, CloseChunk(w[1], w[2])
  PROVE  CountInv' /\ \A d \in Drives : Units(disk[d]) \subseteq Units(disk'[d])
<1>1. w[1] \in Drives /\ last' = last /\ w = <<w[1], w[2]>>
  BY SpaceAssumption DEF CloseChunk
<1>2. PICK f \in disk[w[1]], a \in {"filed", "left"} :
        /\ f.at = "open"
        /\ disk' = [disk EXCEPT ![w[1]] = (@ \ {f}) \cup {[f EXCEPT !.at = a]}]
  BY DEF CloseChunk
<1> DEFINE g == [f EXCEPT !.at = a]
<1>3. g.cam = f.cam /\ g.t = f.t /\ g.len = f.len
  BY <1>1, <1>2 DEF TInv, TypeOK, Chunks
<1>4. \A d \in Drives : disk'[d] = IF d = w[1] THEN (disk[d] \ {f}) \cup {g} ELSE disk[d]
  BY <1>1, <1>2 DEF TInv, TypeOK
<1> HIDE DEF g
<1>5. \A v \in Writers : rec'[v] = "hour" => rec[v] = "hour"
  BY <1>1 DEF CloseChunk, TInv, TypeOK
<1>6. ASSUME NEW d \in Drives PROVE Units(disk'[d]) = Units(disk[d])
  <2>1. CASE d = w[1]
    <3>1. UnitsOf(f) = UnitsOf(g)
      BY <1>3 DEF UnitsOf
    <3>2. f \in disk[d] /\ disk'[d] = (disk[d] \ {f}) \cup {g}
      BY <1>4, <2>1
    <3>3. QED
      BY <3>1, <3>2, UnitsRenamed
  <2>2. CASE d # w[1]
    BY <1>4, <2>2, Zenon
  <2>3. QED
    BY <2>1, <2>2
<1>7. OneChunkPerStart'
  <2>1. ASSUME NEW d \in Drives, NEW x \in disk'[d]
        PROVE  \E y \in disk[d] : y.cam = x.cam /\ y.t = x.t
                 /\ (x = g /\ d = w[1] => y = f) /\ (~(x = g /\ d = w[1]) => y = x)
                 /\ (x # g => ~(d = w[1] /\ x = f))
    <3>1. CASE x = g /\ d = w[1]
      BY <1>2, <1>3, <3>1
    <3>2. CASE ~(x = g /\ d = w[1])
      <4>1. x \in disk[d] /\ (x # g => ~(d = w[1] /\ x = f))
        BY <1>4, <2>1, <3>2
      <4>2. QED
        BY <3>2, <4>1
    <3>3. QED
      BY <3>1, <3>2
  <2>2. ASSUME NEW d \in Drives, NEW x \in disk'[d]
        PROVE  /\ <<d, x.cam>> \in Writers /\ x.t <= last'[<<d, x.cam>>]
               /\ rec'[<<d, x.cam>>] = "hour" => x.t < last'[<<d, x.cam>>]
    BY <1>1, <1>5, <2>1 DEF CountInv, OneChunkPerStart
  <2>3. ASSUME NEW d \in Drives, NEW x \in disk'[d], NEW y \in disk'[d], x.cam = y.cam, x.t = y.t
        PROVE  x = y
    <3>1. PICK x1 \in disk[d] : x1.cam = x.cam /\ x1.t = x.t
            /\ (x = g /\ d = w[1] => x1 = f) /\ (~(x = g /\ d = w[1]) => x1 = x)
            /\ (x # g => ~(d = w[1] /\ x = f))
      BY <2>1
    <3>2. PICK y1 \in disk[d] : y1.cam = y.cam /\ y1.t = y.t
            /\ (y = g /\ d = w[1] => y1 = f) /\ (~(y = g /\ d = w[1]) => y1 = y)
            /\ (y # g => ~(d = w[1] /\ y = f))
      BY <2>1
    <3>3. x1 = y1
      BY <2>3, <3>1, <3>2 DEF CountInv, OneChunkPerStart
    <3>4. QED
      BY <3>1, <3>2, <3>3
  <2>4. QED
    BY <2>2, <2>3 DEF OneChunkPerStart
<1>8. FiniteFootage'
  BY <1>6 DEF CountInv, FiniteFootage
<1>9. QED
  BY <1>6, <1>7, <1>8 DEF CountInv

\* Every step keeps the footage finite, with one chunk for each start.
LEMMA CountStep == TInv /\ CountInv /\ [Next]_vars => CountInv'
<1> SUFFICES ASSUME TInv, CountInv, [Next]_vars PROVE CountInv'
  OBVIOUS
<1>1. CASE Recorders
  BY <1>1, NewCounts, HourCounts, CloseCounts DEF Recorders
<1>2. ASSUME UNCHANGED <<last, rec>>, \A d \in Drives : disk'[d] \subseteq disk[d] PROVE CountInv'
  <2>1. OneChunkPerStart'
    BY <1>2 DEF CountInv, OneChunkPerStart
  <2>2. FiniteFootage'
    <3> SUFFICES ASSUME NEW d \in Drives PROVE IsFiniteSet(Units(disk'[d]))
      BY DEF FiniteFootage
    <3>1. IsFiniteSet(Units(disk[d])) /\ Units(disk'[d]) \in SUBSET Units(disk[d])
      BY <1>2, UnitsOfSets DEF CountInv, FiniteFootage
    <3>2. QED
      BY <3>1, FS_Subset
  <2>3. QED
    BY <2>1, <2>2 DEF CountInv
<1>3. CASE Remove
  <2>1. UNCHANGED <<last, rec>> /\ \A d \in Drives : disk'[d] \subseteq disk[d]
    BY <1>3 DEF Remove, TInv, TypeOK
  <2>2. QED
    BY <1>2, <2>1
<1>4. CASE Monitor /\ ~Remove
  <2>1. UNCHANGED <<disk, last, rec>>
    BY <1>4 DEF Monitor, Search, Visit, FirstMeasure, MeasureAgain, groom_handler, VisitDone,
                Sleep, RemoveFails, TestDirectory, RemoveDirectory, ScanCamera, diskVars
  <2>2. QED
    BY <1>2, <2>1
<1>5. CASE ClockTicks \/ ControlFile \/ UNCHANGED vars
  <2>1. UNCHANGED <<disk, last, rec>>
    BY <1>5 DEF ClockTicks, ControlFile, diskVars, vars
  <2>2. QED
    BY <1>2, <2>1
<1>6. QED
  BY <1>1, <1>3, <1>4, <1>5 DEF Next, Monitor, Search

\* This holds throughout.
LEMMA CountInvAlways == Spec => []CountInv
<1>1. Init => CountInv
  <2> SUFFICES ASSUME Init PROVE CountInv
    OBVIOUS
  <2>1. \A d \in Drives : disk[d] = {} /\ Units(disk[d]) = {}
    BY DEF Init, Units
  <2>2. QED
    BY <2>1, FS_EmptySet DEF CountInv, OneChunkPerStart, FiniteFootage
<1>2. QED
  BY <1>1, CountStep, TInvAlways, PTL DEF Spec

\* The footage of a camera can be counted.
LEMMA FootageCounts ==
  ASSUME CountInv, NEW d \in Drives, NEW c
  PROVE  IsFiniteSet(Units(FiledBy(d, c))) /\ Cardinality(Units(FiledBy(d, c))) \in Nat
<1>1. IsFiniteSet(Units(disk[d])) /\ Units(FiledBy(d, c)) \in SUBSET Units(disk[d])
  BY UnitsOfSets DEF CountInv, FiniteFootage, FiledBy
<1>2. IsFiniteSet(Units(FiledBy(d, c)))
  BY <1>1, FS_Subset
<1>3. QED
  BY <1>2, FS_CardinalityType

\* A recorder's step leaves the reasons for a search in place.
LEMMA RecordersKeepReasons ==
  ASSUME TInv, CountInv, FootageReason, SpaceReason, Recorders
  PROVE  FootageReason' /\ SpaceReason'
<1>1. UNCHANGED monVars /\ drive \in Drives
  BY RecordersKeepFiled DEF TInv, TypeOK
<1>2. CountInv' /\ \A d \in Drives : Units(disk[d]) \subseteq Units(disk'[d])
  BY NewCounts, HourCounts, CloseCounts DEF Recorders
<1>3. \A d \in Drives : \A f \in disk[d] : f.at = "filed" => f \in disk'[d]
  BY RecordersKeepFiled
<1>4. FootageReason'
  <2> SUFFICES ASSUME pc' = "scan", scope' # {}
               PROVE  (j <= Len(TimeBased) /\ scope = {TimeBased[j].cam} /\ TooMuchFootage(drive, j))'
    BY DEF FootageReason
  <2>1. /\ j' = j /\ scope' = scope /\ drive' = drive
        /\ j <= Len(TimeBased) /\ scope = {TimeBased[j].cam} /\ TooMuchFootage(drive, j)
    BY <1>1 DEF FootageReason, monVars
  <2> DEFINE c == TimeBased[j].cam
             now2 == {f \in disk'[drive] : f.cam = c /\ f.at = "filed"}
             old == Units(FiledBy(drive, c))
             new == Units(now2)
  <2>2. old \in SUBSET new
    <3>1. FiledBy(drive, c) \subseteq now2
      BY <1>1, <1>3 DEF FiledBy
    <3>2. QED
      BY <3>1, UnitsOfSets
  <2>3. Cardinality(old) \in Nat
    BY <1>1, FootageCounts
  <2>4. IsFiniteSet(new)
    <3>1. IsFiniteSet(Units(disk'[drive]))
      BY <1>1, <1>2 DEF CountInv, FiniteFootage
    <3>2. new \in SUBSET Units(disk'[drive])
      BY UnitsOfSets
    <3> HIDE DEF new
    <3>3. QED
      BY <3>1, <3>2, FS_Subset
  <2>5. Cardinality(old) <= Cardinality(new) /\ Cardinality(new) \in Nat
    <3> HIDE DEF old, new
    <3> QED
      BY <2>2, <2>4, FS_Subset, FS_CardinalityType
  <2>6. Cardinality(old) > TimeBased[j].max /\ TimeBased[j].max \in Nat
    BY <2>1, TimeBasedType DEF TooMuchFootage, process_duration, TInv, TypeOK
  <2>7. Cardinality(new) > TimeBased[j].max
    <3> HIDE DEF old, new
    <3> QED
      BY <2>3, <2>5, <2>6
  <2>8. QED
    BY <2>1, <2>7 DEF TooMuchFootage, process_duration, FiledBy
<1>5. SpaceReason'
  <2> DEFINE m == Cardinality(Units(disk[drive]))
             n == Cardinality(Units(disk'[drive]))
  <2>1. m \in Nat /\ n \in Nat /\ m <= n
    <3>1. IsFiniteSet(Units(disk[drive])) /\ IsFiniteSet(Units(disk'[drive]))
      BY <1>1, <1>2 DEF CountInv, FiniteFootage
    <3>2. Units(disk[drive]) \in SUBSET Units(disk'[drive])
      BY <1>1, <1>2
    <3>3. QED
      BY <3>1, <3>2, FS_Subset, FS_CardinalityType
  <2>2. UnitPercent * m <= UnitPercent * n
    <3> HIDE DEF m, n
    <3>1. UnitPercent \in Nat
      BY SpaceAssumption
    <3>2. QED
      BY <2>1, <3>1
  <2>3. space_threshold \in Nat
    BY SpaceAssumption DEF space_threshold, LimitArgument
  <2>4. ASSUME Free(drive) < space_threshold PROVE 100 - UnitPercent * n < space_threshold
    <3>1. 100 - UnitPercent * m < space_threshold
      BY <2>4 DEF Free
    <3> HIDE DEF m, n
    <3>2. UnitPercent * m \in Int /\ UnitPercent * n \in Int
      BY <2>1, SpaceAssumption
    <3>3. QED
      BY <2>2, <2>3, <3>1, <3>2
  <2>5. QED
    BY <1>1, <2>4 DEF SpaceReason, Free, monVars, space_threshold, LimitArgument
<1>6. QED
  BY <1>4, <1>5

\* The reason for a search outlives it.
LEMMA ReasonStep ==
  TInv /\ CountInv /\ FootageReason /\ SpaceReason /\ [Next]_vars => FootageReason' /\ SpaceReason'
<1> SUFFICES ASSUME TInv, CountInv, FootageReason, SpaceReason, [Next]_vars
             PROVE  FootageReason' /\ SpaceReason'
  OBVIOUS
<1>1. CASE Recorders
  BY <1>1, RecordersKeepReasons
<1>2. ASSUME pc' # "scan" PROVE FootageReason' /\ SpaceReason'
  BY <1>2 DEF FootageReason, SpaceReason
<1>3. ASSUME UNCHANGED <<disk, pc, drive, j, scope>> PROVE FootageReason' /\ SpaceReason'
  BY <1>3 DEF FootageReason, SpaceReason, TooMuchFootage, process_duration, FiledBy, Free,
              space_threshold, LimitArgument
<1>4. CASE FirstMeasure \/ MeasureAgain
  <2>1. UNCHANGED <<disk, drive, j>>
    BY <1>4 DEF FirstMeasure, MeasureAgain, diskVars
  <2>2. PICK a \in process_available_space(drive) :
          pc' = "groom" \/ (a < space_threshold /\ StartSearch({}))
    BY <1>4 DEF FirstMeasure, MeasureAgain
  <2>3. CASE pc' = "groom"
    BY <1>2, <2>3
  <2>4. CASE a < space_threshold /\ StartSearch({})
    <3>1. "statvfs" \notin Faults => a = Free(drive)
      BY DEF process_available_space
    <3>2. Free(drive)' = Free(drive) /\ scope' = {}
      BY <2>1, <2>4 DEF Free, StartSearch
    <3>3. QED
      BY <2>4, <3>1, <3>2 DEF FootageReason, SpaceReason, space_threshold, LimitArgument
  <2>5. QED
    BY <2>2, <2>3, <2>4
<1>5. CASE groom_handler
  <2>1. CASE TooMuchFootage(drive, j)
    <3>1. /\ pc' = "scan" /\ scope' = {TimeBased[j].cam} /\ j <= Len(TimeBased)
          /\ UNCHANGED <<disk, drive, j>>
      BY <1>5, <2>1 DEF groom_handler, StartSearch, diskVars
    <3>2. TooMuchFootage(drive, j)'
      BY <2>1, <3>1 DEF TooMuchFootage, process_duration, FiledBy
    <3>3. QED
      BY <3>1, <3>2 DEF FootageReason, SpaceReason
  <2>2. CASE ~TooMuchFootage(drive, j)
    BY <1>2, <1>5, <2>2 DEF groom_handler
  <2>3. QED
    BY <2>1, <2>2
<1>6. CASE \E c \in Cameras : ScanCamera(c)
  <2>1. UNCHANGED <<disk, pc, drive, j, scope>>
    BY <1>6 DEF ScanCamera, diskVars
  <2>2. QED
    BY <1>3, <2>1
<1>7. CASE Visit \/ VisitDone \/ Sleep \/ Remove \/ RemoveFails \/ TestDirectory \/ RemoveDirectory
  <2>1. pc' # "scan"
    BY <1>7 DEF Visit, VisitDone, Sleep, Remove, RemoveFails, DeleteFailed, TestDirectory,
                RemoveDirectory, DeleteReturns
  <2>2. QED
    BY <1>2, <2>1
<1>8. CASE ClockTicks \/ ControlFile \/ UNCHANGED vars
  <2>1. UNCHANGED <<disk, pc, drive, j, scope>>
    BY <1>8 DEF ClockTicks, ControlFile, diskVars, monVars, vars
  <2>2. QED
    BY <1>3, <2>1
<1>9. QED
  BY <1>1, <1>4, <1>5, <1>6, <1>7, <1>8 DEF Next, Monitor, Search

\* This holds throughout.
LEMMA ReasonsAlways == Spec => [](FootageReason /\ SpaceReason)
<1>1. Init => FootageReason /\ SpaceReason
  BY DEF Init, FootageReason, SpaceReason
<1>2. QED
  BY <1>1, ReasonStep, TInvAlways, CountInvAlways, PTL DEF Spec

\* groom_handler deletes a chunk only while the camera holds more than its maximum,
\* for every list of maxima, chunks of any durations and however many are filed
\* during a search: the camera is left with its maximum but for less than one chunk.
THEOREM FootageIsKeptAlways == Spec => FootageIsKept
<1> DEFINE Kept == \A f \in disk[drive] \ disk'[drive] : Remove /\ scope # {} =>
       process_duration(drive, TimeBased[j].cam)' + f.len > TimeBased[j].max
<1>1. TInv /\ CountInv /\ CountInv' /\ FootageReason /\ [Next]_vars => [Kept]_vars
  <2> SUFFICES ASSUME TInv, CountInv, CountInv', FootageReason, Remove, scope # {},
                      NEW f \in disk[drive], f \notin disk'[drive]
               PROVE  process_duration(drive, TimeBased[j].cam)' + f.len > TimeBased[j].max
    OBVIOUS
  <2> DEFINE c == TimeBased[j].cam
             old == Units(FiledBy(drive, c))
             rest == {g \in disk'[drive] : g.cam = c /\ g.at = "filed"}
             new == Units(rest)
  <2>1. PICK g \in oldest : disk' = [disk EXCEPT ![drive] = @ \ {g}]
    BY DEF Remove
  <2>2. drive \in Drives /\ disk \in [Drives -> SUBSET Chunks] /\ UNCHANGED <<drive, j>>
    BY DEF Remove, TInv, TypeOK
  <2>3. disk'[drive] = disk[drive] \ {f} /\ f.len \in Nat
    <3>1. f \in Chunks
      BY <2>2
    <3>2. disk'[drive] = disk[drive] \ {g}
      BY <2>1, <2>2
    <3>3. f.len \in Lengths
      BY <3>1 DEF Chunks
    <3>4. QED
      BY <3>2, <3>3, SpaceAssumption
  <2>4. old \in SUBSET (new \cup UnitsOf(f))
    <3>1. FiledBy(drive, c) \subseteq rest \cup {f}
      BY <2>3 DEF FiledBy
    <3> HIDE DEF rest
    <3>2. Units(FiledBy(drive, c)) \subseteq Units(rest \cup {f})
      BY <3>1, UnitsOfSets
    <3>3. Units(rest \cup {f}) = Units(rest) \cup UnitsOf(f)
      BY UnitsOfSets
    <3>4. QED
      BY <3>2, <3>3
  <2>5. j <= Len(TimeBased) /\ Cardinality(old) > TimeBased[j].max
    BY DEF FootageReason, TooMuchFootage, process_duration, Remove
  <2>6. TimeBased[j].max \in Nat
    BY <2>5, TimeBasedType DEF TInv, TypeOK
  <2>7. IsFiniteSet(old) /\ Cardinality(old) \in Nat
    BY <2>2, FootageCounts
  <2>8. IsFiniteSet(new)
    <3>1. IsFiniteSet(Units(disk'[drive]))
      BY <2>2 DEF CountInv, FiniteFootage
    <3>2. new \in SUBSET Units(disk'[drive])
      BY UnitsOfSets
    <3> HIDE DEF new
    <3>3. QED
      BY <3>1, <3>2, FS_Subset
  <2>9. IsFiniteSet(UnitsOf(f)) /\ Cardinality(UnitsOf(f)) = f.len
    BY <2>3, ChunkUnits
  <2>10. Cardinality(new) + f.len > TimeBased[j].max
    <3> HIDE DEF old, new
    <3>1. /\ IsFiniteSet(new \cup UnitsOf(f)) /\ Cardinality(new) \in Nat
          /\ Cardinality(new \cup UnitsOf(f))
               = Cardinality(new) + Cardinality(UnitsOf(f)) - Cardinality(new \cap UnitsOf(f))
      BY <2>8, <2>9, FS_Union, FS_CardinalityType
    <3>2. Cardinality(new \cap UnitsOf(f)) \in Nat
      BY <2>8, FS_Intersection, FS_CardinalityType
    <3>3. Cardinality(old) <= Cardinality(new \cup UnitsOf(f))
      BY <2>4, <3>1, FS_Subset
    <3>4. QED
      BY <2>3, <2>5, <2>6, <2>7, <2>9, <3>1, <3>2, <3>3
  <2>11. process_duration(drive, TimeBased[j].cam)' = Cardinality(new)
    BY <2>2 DEF process_duration, FiledBy
  <2>12. QED
    BY <2>10, <2>11
<1>2. QED
  BY <1>1, TInvAlways, CountInvAlways, ReasonsAlways, PTL DEF Spec, FootageIsKept

\* With the default limit and working statvfs, space_handler removes a chunk only
\* while less than 20 percent are free.
THEOREM RemovedForAReasonAlways ==
  ASSUME space_threshold = 20, "statvfs" \notin Faults
  PROVE  Spec => RemovedForAReason
<1> DEFINE Reason == \A f \in disk[drive] \ disk'[drive] :
       Remove /\ scope = {} => Free(drive) < 20 \/ Hour(now) - Hour(f.t) > MediaMaxAge
<1>1. SpaceReason /\ [Next]_vars => [Reason]_vars
  BY DEF SpaceReason, Remove
<1>2. QED
  BY <1>1, ReasonsAlways, PTL DEF Spec, RemovedForAReason

-----------------------------------------------------------------------------
(* What a removal achieves.                                                *)

\* Nothing takes the chosen chunk away: it is filed, and recorders rename only
\* open chunks.
LEMMA ChosenStep == TInv /\ ChosenIsThere /\ [Next]_vars => ChosenIsThere'
<1> SUFFICES ASSUME TInv, ChosenIsThere, [Next]_vars PROVE ChosenIsThere'
  OBVIOUS
<1>1. ASSUME NEW c \in Cameras, ScanCamera(c) PROVE ChosenIsThere'
  <2>1. oldest' \subseteq oldest \cup Candidates(drive, c)
    BY <1>1 DEF ScanCamera, find_oldest_file
  <2>2. pc = "scan" /\ UNCHANGED <<disk, drive>> /\ Candidates(drive, c) \subseteq disk[drive]
    BY <1>1 DEF ScanCamera, diskVars, Candidates, FiledBy
  <2>3. QED
    BY <2>1, <2>2 DEF ChosenIsThere
<1>2. CASE FirstMeasure \/ MeasureAgain \/ groom_handler
  <2>1. pc' # "scan" \/ oldest' = {}
    BY <1>2 DEF FirstMeasure, MeasureAgain, groom_handler, StartSearch
  <2>2. QED
    BY <2>1 DEF ChosenIsThere
<1>3. CASE Visit \/ VisitDone \/ Sleep \/ Remove \/ RemoveFails \/ TestDirectory \/ RemoveDirectory
  <2>1. pc' # "scan"
    BY <1>3 DEF Visit, VisitDone, Sleep, Remove, RemoveFails, DeleteFailed, TestDirectory,
                RemoveDirectory, DeleteReturns
  <2>2. QED
    BY <2>1 DEF ChosenIsThere
<1>4. CASE Recorders
  <2>1. UNCHANGED monVars /\ \A d \in Drives : \A f \in disk[d] : f.at = "filed" => f \in disk'[d]
    BY <1>4, RecordersKeepFiled
  <2>2. \A f \in oldest : f.at = "filed"
    BY DEF TInv, StagingIsSafe
  <2>3. QED
    BY <2>1, <2>2 DEF ChosenIsThere, monVars, TInv, TypeOK
<1>5. CASE ClockTicks \/ ControlFile \/ UNCHANGED vars
  <2>1. UNCHANGED <<disk, pc, drive, oldest>>
    BY <1>5 DEF ClockTicks, ControlFile, vars, monVars, diskVars
  <2>2. QED
    BY <2>1 DEF ChosenIsThere
<1>6. QED
  BY <1>1, <1>2, <1>3, <1>4, <1>5 DEF Next, Monitor, Search

\* Though the recorders go on renaming files while the cameras' trees are read, the
\* chunk find_oldest_file has settled on is there when remove() is called.
THEOREM ChosenIsThereAlways == Spec => []ChosenIsThere
<1>1. Init => ChosenIsThere
  BY DEF Init, ChosenIsThere
<1>2. QED
  BY <1>1, ChosenStep, TInvAlways, PTL DEF Spec

\* A deletion frees space: no other chunk shares the footage of the one removed.
RemovalFreesSpace == [][Remove => Free(drive)' > Free(drive)]_vars

\* Each time delete_oldest_file answers EXIT_SUCCESS there is more free space, by
\* the size of the chunk: the loop of space_handler gets nearer to its limit.
THEOREM RemovalFreesSpaceAlways == Spec => RemovalFreesSpace
<1>1. ASSUME TInv, CountInv, CountInv', Remove
      PROVE  Free(drive)' > Free(drive)
  <2>1. PICK f \in oldest \cap disk[drive] : disk' = [disk EXCEPT ![drive] = @ \ {f}]
    BY <1>1 DEF Remove
  <2>2. drive \in Drives /\ disk \in [Drives -> SUBSET Chunks] /\ drive' = drive
    BY <1>1 DEF Remove, TInv, TypeOK
  <2>3. disk'[drive] = disk[drive] \ {f} /\ f.len \in Nat \ {0}
    <3>1. f \in Chunks
      BY <2>1, <2>2
    <3>2. f.len \in Lengths
      BY <3>1 DEF Chunks
    <3>3. QED
      BY <2>1, <2>2, <3>2, SpaceAssumption
  <2> DEFINE old == Units(disk[drive])
             new == Units(disk'[drive])
             u == <<<<f.cam, f.t>>, 1>>
  <2>4. new \in SUBSET old
    BY <2>3, UnitsOfSets
  <2>5. u \in old
    BY <2>3 DEF Units
  <2>6. u \notin new
    <3> SUFFICES ASSUME NEW g \in disk'[drive], u \in {<<g.cam, g.t>>} \X (1 .. g.len) PROVE FALSE
      BY DEF Units
    <3>1. <<g.cam, g.t>> = <<f.cam, f.t>>
      OBVIOUS
    <3>2. g.cam = f.cam /\ g.t = f.t
      BY <3>1
    <3>3. g \in disk[drive] /\ g # f
      BY <2>3
    <3>4. QED
      BY <1>1, <2>1, <2>2, <3>2, <3>3 DEF CountInv, OneChunkPerStart
  <2>7. IsFiniteSet(old) /\ IsFiniteSet(new)
    BY <1>1, <2>2 DEF CountInv, FiniteFootage
  <2>8. Free(drive) = 100 - UnitPercent * Cardinality(old) /\ Free(drive)' = 100 - UnitPercent * Cardinality(new)
    BY <2>2 DEF Free
  <2> HIDE DEF old, new, u
  <2>9. Cardinality(old) \in Nat /\ Cardinality(new) \in Nat /\ Cardinality(new) < Cardinality(old)
    BY <2>4, <2>5, <2>6, <2>7, FS_Subset, FS_CardinalityType
  <2>10. \A m \in Nat, n \in Nat : m < n => 100 - UnitPercent * m > 100 - UnitPercent * n
    <3>1. UnitPercent \in Nat \ {0}
      BY SpaceAssumption
    <3>2. QED
      BY <3>1
  <2>11. QED
    BY <2>8, <2>9, <2>10
<1>2. TInv /\ CountInv /\ CountInv' /\ [Next]_vars => [Remove => Free(drive)' > Free(drive)]_vars
  BY <1>1
<1>3. QED
  BY <1>2, TInvAlways, CountInvAlways, PTL DEF Spec, RemovalFreesSpace
=============================================================================
