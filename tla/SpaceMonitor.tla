---------------------------- MODULE SpaceMonitor ----------------------------
(***************************************************************************)
(* space_monitor (space_monitor/src/ra_space_monitor.c): one process that  *)
(* visits the drives in turn, deletes the oldest chunks while the free     *)
(* space is under a limit, then the oldest chunks of every camera that     *)
(* holds more footage than its own maximum age allows, and removes the     *)
(* directories this empties.                                               *)
(*                                                                         *)
(* The recorders go on writing meanwhile: a chunk is opened in the staging *)
(* directory of its camera and renamed into the directory of its hour when *)
(* it is complete.  The monitor reads one camera's tree per step; removing *)
(* a file, testing a directory and removing it are steps of their own, and *)
(* so is each mkdir of a recorder.                                         *)
(* Directories are paths <<camera, day, hour>>; the year and month levels  *)
(* are left out, day 0 is the staging directory.                           *)
(***************************************************************************)
EXTENDS Integers, FiniteSets, Sequences

CONSTANTS
  Cameras,        \* camera directories on a drive, METADATA among them
  Writers,        \* <<drive, camera>>: what is recorded, and where
  TimeBased,      \* TIME_BASED_ARRAY: sequence of [cam, max], max in units of time
  Lengths,        \* the durations a chunk may have, in units of time
  MediaMaxAge,    \* media max_age of the configuration, in hours
  UnitPercent,    \* share of a drive one unit of footage fills, in percent
  TicksPerHour, HoursPerDay,
  MaxTimeT,       \* MAX_TIME_T of ra_space_monitor.c
  MaxNow,         \* bound: the clock stops here
  Faults          \* subset of {"remove", "statvfs", "ctrl"}

Drives == {"CHM", "SSD"}
EXIT_FAILURE == 1

ASSUME SpaceAssumption ==
  /\ Writers \subseteq Drives \X Cameras
  /\ TimeBased \in Seq([cam : Cameras, max : Nat \ {0}])
  /\ MediaMaxAge \in Nat
  /\ Lengths \subseteq Nat \ {0}
  /\ UnitPercent \in 1 .. 100
  /\ TicksPerHour \in Nat \ {0} /\ HoursPerDay \in Nat \ {0}
  /\ MaxTimeT \in Nat /\ MaxNow \in Nat
  /\ Faults \subseteq {"remove", "statvfs", "ctrl"}

Chunks == [cam : Cameras, t : Nat, len : Lengths, at : {"open", "left", "filed"}]

Hour(t) == t \div TicksPerHour
Day(t) == 1 + Hour(t) \div HoursPerDay
Staging == 0
HourDir(c, t) == <<c, Day(t), Hour(t)>>
Paths == {<<c>> : c \in Cameras} \cup (Cameras \X Nat) \cup (Cameras \X Nat \X Nat)

\* Where a chunk's file is.
DirOf(f) == IF f.at = "filed" THEN HourDir(f.cam, f.t) ELSE <<f.cam, Staging>>

VARIABLES
  disk,       \* drive -> chunks on it
  dirs,       \* drive -> directories on it
  last,       \* writer -> start of its latest chunk, -1 before the first
  rec,        \* writer -> "ready" for a new chunk, about to make the directory of its
              \* "hour", or has it open: "record"
  now,        \* the clock
  allowed,    \* no GROOMING_CTRL_FILE
  pc,         \* what the monitor is doing
  drive,      \* the drive it visits
  j,          \* index into TimeBased
  scope,      \* {}: searching the whole drive, {c}: searching camera c
  left,       \* cameras the search still has to read
  oldest,     \* {} or {the oldest chunk found so far}
  dir,        \* directory to be tested or removed
  before,     \* history: the filed chunks when the search began
  groomed,    \* history: <<drive, directory>> a chunk was deleted from
  overtaken   \* history: <<drive, directory>> of an hour whose day was removed between
              \* the two mkdirs of a recorder

diskVars == <<disk, dirs, last, rec, now>>
history == <<groomed, overtaken>>
monVars  == <<pc, drive, j, scope, left, oldest, dir, before, history>>
vars == <<disk, dirs, last, rec, now, allowed, pc, drive, j, scope, left, oldest, dir,
          before, groomed, overtaken>>

TypeOK ==
  /\ disk \in [Drives -> SUBSET Chunks]
  /\ dirs \in [Drives -> SUBSET Paths]
  /\ last \in [Writers -> Nat \cup {-1}]
  /\ rec \in [Writers -> {"ready", "hour", "record"}]
  /\ now \in Nat
  /\ allowed \in BOOLEAN
  /\ pc \in {"visit", "space", "again", "scan", "test", "rmdir", "groom", "sleep"}
  /\ drive \in Drives
  /\ j \in 1 .. Len(TimeBased) + 1
  /\ scope \subseteq Cameras
  /\ left \subseteq Cameras
  /\ oldest \subseteq Chunks
  /\ dir \in Paths \cup {<<>>}
  /\ before \subseteq Chunks
  /\ groomed \subseteq Drives \X Paths /\ overtaken \subseteq Drives \X Paths

Init ==
  /\ disk = [d \in Drives |-> {}]
  /\ dirs = [d \in Drives |-> UNION {{<<c>>, <<c, Staging>>} : c \in Cameras}]
  /\ last = [w \in Writers |-> -1]
  /\ rec = [w \in Writers |-> "ready"]
  /\ now = 0
  /\ allowed = TRUE
  /\ pc = "visit"
  /\ drive = "CHM"
  /\ j = 1
  /\ scope = {} /\ left = {} /\ oldest = {} /\ dir = <<>>
  /\ before = {} /\ groomed = {} /\ overtaken = {}

-----------------------------------------------------------------------------
(* Free space and footage.                                                 *)

\* The units of footage in a set of chunks; one takes the same space as another.
Units(F) == UNION {{<<f.cam, f.t>>} \X (1 .. f.len) : f \in F}

Free(d) == 100 - UnitPercent * Cardinality(Units(disk[d]))

\* process_available_space: EXIT_FAILURE stands for a failed statvfs.
process_available_space(d) ==
  {Free(d)} \cup (IF "statvfs" \in Faults THEN {EXIT_FAILURE} ELSE {})

\* raconf_init puts the media max_age, in hours, behind -l of the command line.
LimitArgument == MediaMaxAge

\* Mutant: the argument is not bounded.
space_threshold_Unlimited == LimitArgument

\* parse_arg takes the argument of -l as a percentage, 999999 as "not set".
space_threshold == IF LimitArgument < 20 \/ LimitArgument = 999999 THEN 20 ELSE LimitArgument

FiledBy(d, c) == {f \in disk[d] : f.cam = c /\ f.at = "filed"}

\* process_duration of a camera's directory adds up the durations in the names of
\* the files; staging is left out.
process_duration(d, c) == Cardinality(Units(FiledBy(d, c)))

-----------------------------------------------------------------------------
(* delete_oldest_file.                                                     *)

\* Mutant: the staging directory is not left out.
Candidates_AndStaging(d, c) == {f \in disk[d] : f.cam = c /\ f.t < MaxTimeT}

\* The chunks of camera c find_oldest_file compares.
Candidates(d, c) == {f \in FiledBy(d, c) : f.t < MaxTimeT}

\* Mutant: the best so far is forgotten.
find_oldest_file_LastWins(c) ==
  LET found == Candidates(drive, c)
      first == {f \in found : \A g \in found : f.t <= g.t} IN
  oldest' = IF found = {} THEN oldest ELSE first

\* find_oldest_file in the directory of camera c: an earlier chunk replaces the best.
find_oldest_file(c) ==
  LET found == oldest \cup Candidates(drive, c)
      first == {f \in found : \A g \in found : f.t <= g.t} IN
  oldest' = IF oldest # {} /\ oldest \subseteq first THEN oldest ELSE first

\* Begin a search of the whole drive (s = {}) or of one camera (s = {c}).
StartSearch(s) ==
  /\ pc' = "scan"
  /\ scope' = s
  /\ left' = IF s = {} THEN Cameras ELSE s
  /\ oldest' = {}
  /\ before' = {f \in disk[drive] : f.at = "filed"}

ScanCamera(c) ==
  /\ pc = "scan"
  /\ c \in left
  /\ find_oldest_file(c)
  /\ left' = left \ {c}
  /\ UNCHANGED <<diskVars, allowed, pc, drive, j, scope, dir, before, history>>

\* remove(oldest_file): rc is EXIT_SUCCESS.
Remove ==
  /\ pc = "scan"
  /\ left = {}
  /\ \E f \in oldest \cap disk[drive] :
       /\ disk' = [disk EXCEPT ![drive] = @ \ {f}]
       /\ dir' = DirOf(f)
       /\ groomed' = groomed \cup {<<drive, DirOf(f)>>}
  /\ pc' = "test"
  /\ oldest' = {} /\ before' = {}
  /\ UNCHANGED <<dirs, last, rec, now, allowed, drive, j, scope, left, overtaken>>

\* The return value of delete_oldest_file: space_handler breaks its loop and goes
\* on to time-based grooming, groom_handler does not look at it.
DeleteFailed == pc' = "groom" /\ scope' = {}

\* remove fails, finds no such file, or none was found and the path is empty.
RemoveFails ==
  /\ pc = "scan"
  /\ left = {}
  /\ oldest \cap disk[drive] = {} \/ "remove" \in Faults
  /\ DeleteFailed
  /\ oldest' = {} /\ before' = {}
  /\ UNCHANGED <<diskVars, allowed, drive, j, left, dir, history>>

\* delete_oldest_file succeeded: its caller measures again.
DeleteReturns ==
  /\ pc' = IF scope = {} THEN "again" ELSE "groom"
  /\ scope' = {}
  /\ dir' = <<>>

Parent(p) == IF Len(p) = 3 THEN <<p[1], p[2]>> ELSE <<p[1]>>

IsEmpty(d, p) ==
  /\ \A q \in dirs[d] : Len(q) > 1 => Parent(q) # p
  /\ \A f \in disk[d] : DirOf(f) # p

\* is_dir_empty of the directory the loop has reached.
TestDirectory ==
  /\ pc = "test"
  /\ IF dir \in dirs[drive] /\ IsEmpty(drive, dir)
     THEN pc' = "rmdir" /\ UNCHANGED <<scope, dir>>
     ELSE DeleteReturns
  /\ UNCHANGED <<diskVars, allowed, drive, j, left, oldest, before, history>>

\* rmdir removes an empty directory and fails on any other.
Rmdir(d, p) == [dirs EXCEPT ![d] = IF IsEmpty(d, p) THEN @ \ {p} ELSE @]

\* The hours a recorder is about to make in directory p.
Waiting(d, p) ==
  {h \in {HourDir(w[2], last[w]) : w \in {v \in Writers : v[1] = d /\ rec[v] = "hour"}} :
     Parent(h) = p}

\* The loop goes up one level whether or not rmdir worked; the camera is the last.
RemoveDirectory ==
  /\ pc = "rmdir"
  /\ dirs' = Rmdir(drive, dir)
  /\ overtaken' = overtaken \cup
       (IF IsEmpty(drive, dir) THEN {drive} \X Waiting(drive, dir) ELSE {})
  /\ IF Len(dir) = 1 THEN DeleteReturns
     ELSE pc' = "test" /\ dir' = Parent(dir) /\ scope' = scope
  /\ UNCHANGED <<disk, last, rec, now, allowed, drive, j, left, oldest, before, groomed>>

-----------------------------------------------------------------------------
(* The main loop.                                                          *)

\* Mutant: the index of the camera is not reset.
Visit_KeepsIndex ==
  /\ pc = "visit"
  /\ pc' = IF allowed THEN "space" ELSE "sleep"
  /\ UNCHANGED <<diskVars, allowed, drive, j, scope, left, oldest, dir, before, history>>

\* main: one visit of a drive, skipped while the control file exists.
Visit ==
  /\ pc = "visit"
  /\ pc' = IF allowed THEN "space" ELSE "sleep"
  /\ j' = 1
  /\ UNCHANGED <<diskVars, allowed, drive, scope, left, oldest, dir, before, history>>

\* space_handler, first measurement: EXIT_FAILURE is an error ...
FirstMeasure ==
  /\ pc = "space"
  /\ \E a \in process_available_space(drive) :
       IF a # EXIT_FAILURE /\ a < space_threshold
       THEN StartSearch({})
       ELSE pc' = "groom" /\ UNCHANGED <<scope, left, oldest, before>>
  /\ UNCHANGED <<diskVars, allowed, drive, j, dir, history>>

\* ... in the loop it is taken for one percent.
MeasureAgain ==
  /\ pc = "again"
  /\ \E a \in process_available_space(drive) :
       IF a < space_threshold
       THEN StartSearch({})
       ELSE pc' = "groom" /\ UNCHANGED <<scope, left, oldest, before>>
  /\ UNCHANGED <<diskVars, allowed, drive, j, dir, history>>

\* Mutant: the limit itself is too much.
TooMuchFootage_AtLimit(d, k) == process_duration(d, TimeBased[k].cam) >= TimeBased[k].max

TooMuchFootage(d, k) == process_duration(d, TimeBased[k].cam) > TimeBased[k].max

\* groom_handler for the j-th time-based camera, then the next one.
groom_handler ==
  /\ pc = "groom"
  /\ j <= Len(TimeBased)
  /\ IF TooMuchFootage(drive, j)
     THEN StartSearch({TimeBased[j].cam}) /\ j' = j
     ELSE j' = j + 1 /\ UNCHANGED <<pc, scope, left, oldest, before>>
  /\ UNCHANGED <<diskVars, allowed, drive, dir, history>>

VisitDone ==
  /\ pc = "groom"
  /\ j > Len(TimeBased)
  /\ pc' = "sleep"
  /\ UNCHANGED <<diskVars, allowed, drive, j, scope, left, oldest, dir, before, history>>

NextDrive(d) == CHOOSE e \in Drives : e # d

\* sleep(MON_SLEEP), then the other drive.
Sleep ==
  /\ pc = "sleep"
  /\ pc' = "visit"
  /\ drive' = NextDrive(drive)
  /\ UNCHANGED <<diskVars, allowed, j, scope, left, oldest, dir, before, history>>

-----------------------------------------------------------------------------
(* The recorders (rtsprec, and metarec which lays its chunks out alike).   *)

ClockTicks ==
  /\ now < MaxNow
  /\ now' = now + 1
  /\ UNCHANGED <<disk, dirs, last, rec, allowed, monVars>>

\* Mutant: the hour is not compared.
is_new_path_required_OnlyDay(t, u) == t < 0 \/ Day(t) # Day(u)

\* The latest chunk, if there is one, began in another hour, day, month or year.
is_new_path_required(t, u) == t < 0 \/ Hour(t) # Hour(u)

\* mkdir fails when the parent is not there (ENOENT), and makes nothing when the
\* directory is (EEXIST).
Mkdir(d, p) == [dirs EXCEPT ![d] = IF Parent(p) \in @ THEN @ \cup {p} ELSE @]

\* The chunk is opened in staging, unless the drive is full; the space it will take
\* is counted at once.
Open(d, c, t) ==
  \/ \E n \in Lengths :
       /\ Free(d) >= UnitPercent * n
       /\ disk' = [disk EXCEPT ![d] = @ \cup {[cam |-> c, t |-> t, len |-> n, at |-> "open"]}]
       /\ rec' = [rec EXCEPT ![<<d, c>>] = "record"]
  \/ /\ \A n \in Lengths : Free(d) < UnitPercent * n
     /\ disk' = disk
     /\ rec' = [rec EXCEPT ![<<d, c>>] = "ready"]

\* A new chunk is due.  In a new hour the directory of the day is made first.
NewChunk(d, c) ==
  /\ rec[<<d, c>>] = "ready"
  /\ last[<<d, c>>] < now
  /\ last' = [last EXCEPT ![<<d, c>>] = now]
  /\ IF is_new_path_required(last[<<d, c>>], now)
     THEN /\ dirs' = Mkdir(d, <<c, Day(now)>>)
          /\ rec' = [rec EXCEPT ![<<d, c>>] = "hour"]
          /\ disk' = disk
     ELSE dirs' = dirs /\ Open(d, c, now)
  /\ UNCHANGED <<now, allowed, monVars>>

\* Then that of the hour, whether or not the day's is still there: the result of
\* mkdir_p is only logged.
MakeHour(d, c) ==
  /\ rec[<<d, c>>] = "hour"
  /\ dirs' = Mkdir(d, HourDir(c, last[<<d, c>>]))
  /\ Open(d, c, last[<<d, c>>])
  /\ UNCHANGED <<last, now, allowed, monVars>>

\* A complete chunk is renamed into its hour's directory; without the directory
\* the rename fails and the file is left in staging.
CloseChunk(d, c) ==
  /\ rec[<<d, c>>] = "record"
  /\ \E f \in disk[d] :
       /\ f.cam = c
       /\ f.at = "open"
       /\ disk' = [disk EXCEPT ![d] = (@ \ {f}) \cup
            {[f EXCEPT !.at = IF HourDir(c, f.t) \in dirs[d] THEN "filed" ELSE "left"]}]
  /\ rec' = [rec EXCEPT ![<<d, c>>] = "ready"]
  /\ UNCHANGED <<dirs, last, now, allowed, monVars>>

\* Drive validation creates and removes GROOMING_CTRL_FILE.
ControlFile ==
  /\ "ctrl" \in Faults
  /\ allowed' = ~allowed
  /\ UNCHANGED <<diskVars, monVars>>

Search == (\E c \in Cameras : ScanCamera(c)) \/ Remove \/ RemoveFails \/ TestDirectory
          \/ RemoveDirectory

Monitor == Visit \/ FirstMeasure \/ MeasureAgain \/ groom_handler \/ VisitDone \/ Sleep \/ Search

Recorders ==
  \E w \in Writers : NewChunk(w[1], w[2]) \/ MakeHour(w[1], w[2]) \/ CloseChunk(w[1], w[2])

Next == Monitor \/ Recorders \/ ClockTicks \/ ControlFile

Spec == Init /\ [][Next]_vars

\* The monitor process keeps running; nothing is assumed of the recorders.
FairSpec == Spec /\ WF_vars(Monitor)

-----------------------------------------------------------------------------
(* Properties.                                                             *)

\* find_oldest_file never hands a chunk in a staging directory to remove(),
\* though it is full of files and a recorder may be writing to one.
StagingIsSafe == \A f \in oldest : f.at = "filed"

\* The chunk the search has settled on is there until remove() is called, though
\* recorders rename files all the time: the drive that is short of space gets some
\* back unless it holds nothing to delete or remove() itself fails.
ChosenIsThere == pc = "scan" => oldest \subseteq disk[drive]

\* When remove() is reached, no chunk that was filed before the search began
\* in the searched directories and is still there is older than the one chosen,
\* whatever the recorders filed while the search went on.
OldestIsChosen ==
  pc = "scan" /\ left = {} =>
    \A f \in before \cap disk[drive] :
      (f.t < MaxTimeT /\ (scope = {} \/ f.cam \in scope)) =>
        \E g \in oldest : g.t <= f.t

\* The directory of the hour a recorder is in is there when its chunk is renamed,
\* but for two cases: the monitor deleted a chunk of that very camera and hour, or
\* it removed the directory of the day, emptied of an earlier hour, between the two
\* mkdirs of the recorder, which does not look at the second one's failure.
WritersKeepDirectory ==
  \A d \in Drives : \A f \in disk[d] :
    f.at = "open" => \/ HourDir(f.cam, f.t) \in dirs[d]
                     \/ <<d, HourDir(f.cam, f.t)>> \in groomed \cup overtaken

\* reagent_config.c: "monitor starts removing oldest file(s) when free storage
\* goes below 20%", or, in time_base mode, "file(s) older than given threshold".
RemovedForAReason ==
  [][\A f \in disk[drive] \ disk'[drive] :
       Remove /\ scope = {} => Free(drive) < 20 \/ Hour(now) - Hour(f.t) > MediaMaxAge]_vars

\* groom_handler deletes a chunk only of a camera that holds more than its maximum
\* at that moment: without the chunk the camera may be below the maximum, but by
\* less than the chunk's duration.
FootageIsKept ==
  [][\A f \in disk[drive] \ disk'[drive] : Remove /\ scope # {} =>
       process_duration(drive, TimeBased[j].cam)' + f.len > TimeBased[j].max]_vars

\* A drive the monitor can and should delete from.
Groomable(d) ==
  /\ Free(d) < space_threshold
  /\ Free(d) # EXIT_FAILURE
  /\ \E f \in disk[d] : f.at = "filed" /\ f.t < MaxTimeT

\* While grooming is allowed, a drive short of space gets it back and a camera
\* with too much footage loses the excess, unless nothing can be deleted or the
\* drive is exactly one percent free.
DrivesGetGroomed ==
  <>[]allowed =>
    \A d \in Drives : /\ []<>~Groomable(d)
                       /\ \A k \in 1 .. Len(TimeBased) : []<>~TooMuchFootage(d, k)
=============================================================================
