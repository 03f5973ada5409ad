# A TLA+ verification project for the recording agent

The repository holds the software that records a locomotive's cameras: an agent
(`reagent`) that supervises one `rtsprec` process per camera, a metadata recorder
(`metarec`), a disk groomer (`space_monitor`), host utilities that tell the agent about
drives and events, and tools that search, collect and play recordings.  This project
models the parts whose behaviour depends on the order of events, checks them with TLC on
small instances and proves the main results for every instance with TLAPS.

## 1. Inventory

| Component | State it keeps | Operations | Talks to |
|---|---|---|---|
| Recording supervisor (`reagent/src/ptc_intf.c`, `main.c`, `config/reagent_config.c`) | camera table with flags and pids, drive readiness, count of recorders, static retry and time-out counters per slot | PTC message handlers, 1 Hz callback, SIGHUP reload | child processes, camera monitor, host, web server |
| Camera monitor (`reagent/src/camon.c`) | probe socket | transmit and receive passes | supervisor |
| User configuration collector (`config/user_config.c`) | which start-up messages have arrived | one handler per message, a wait with time-out | host, supervisor |
| XML configuration (`config/domutil.c`, `xmlutil.c`, `reagent_config.c`) | files | read, update, save | supervisor |
| Web server and API (`http.c`, `luaif.c`) | connections | HTTP requests | supervisor (shared Lua strings) |
| Download and search (`ra_download.c`, `ra_data_search.c`) | the request, chunks found, open metadata files, the destination directory | download and snapshot requests | host, disks, `zip` |
| Metadata recorder (`metarec/src`) | descriptor queue, open chunk files, drive flags | PTC handlers enqueue, a worker thread writes chunks | supervisor (starts it), disks |
| Space monitor (`space_monitor/src`) | drive being groomed, oldest chunk found so far | periodic grooming by space and by age | disks, recorders (through the disks) |
| Event control (`host_utils/.../event_control.c`) | drive mount state, power-down counter, delayed actions | timers, threads, messages | agent, disks |
| Host configuration (`host_utils/.../configuration.c`) | none | sends settings | agent |
| Collector, directory worker, listing tools | none | batch I/O | disks |
| RTSP playback (`rtspplay`) | open session | seek, read packets | disks |
| expat, cJSON, civetweb parts | - | vendored | - |

What is hard: the supervisor is single threaded, but its children die at any time, SIGHUP
rewrites the camera table between two visits of the timer callback, per-slot counters
outlive the cameras they were counted for, and every handler decides from flags that other
handlers changed in the meantime.  The metadata recorder has two threads around a ring
buffer with time-outs, and the mode and clock messages of one thread change what the other
thread does with its open files.  The event control runs timers, mount threads and a 10 Hz
callback that watch a door, two drives and the power line, none of which waits for the
others.  The space monitor deletes files and directories in which the recorders are writing.
A download is a dozen steps, each of which may fail, tried on two drives with one set of
global variables, while chunks are recorded and groomed.  PROJECT.json lists the hazards at
their lines.

What makes each part correct: the supervisor neither loses a recorder nor runs one it should
not; every record reaches the queue and the right chunk file; a drive is announced exactly
while it can be written; grooming deletes the oldest footage, only when it must, and never
what is being written; a download delivers what its metadata says.

## 2. Modules and plan

| Part | Module | Abstract specification | Proofs |
|---|---|---|---|
| supervisor | `RecordingAgent` (`MCRecordingAgent`) | `RecorderPool` | `RecordingAgentProofs`, `RecorderCountProofs`, `AssignmentProofs` |
| queue of `metarec` | `MetaQueue` | `BoundedFIFO` | `MetaQueueProofs` |
| chunk files of `metarec` | `MetaChunks` | `ChunkStore` | `MetaChunksProofs` |
| drives in the event control | `DriveControl` | - | `DriveControlProofs` |
| space monitor | `SpaceMonitor` (`MCSpaceMonitor`) | - | `SpaceMonitorProofs` |
| downloads | `Download` (`MCDownload`) | - | `DownloadProofs` |

The parts meet at narrow interfaces, and each module takes the others as its environment with
every behaviour they may show: `DriveControl` tells the supervisor which drives are ready, and
`RecordingAgent` accepts any READY_STATUS; `MetaQueue` hands records over one by one, and
`MetaChunks` takes them at any time; the recorders in `SpaceMonitor` and the recorder and
groomer in `Download` write and delete as the models of those parts allow.  `ChunkStore` states
what a reader of one drive may rely on while metadata is recorded there.  The plan of the
first version is done except for the start-up collector and camera discovery (section 11).

## 3. The recording supervisor: `RecordingAgent`

The PTC event loop runs a handler to its end before it starts the next, so a handler is one
action enabled when the loop is idle (`pc.at = "idle"`).  The 1 Hz callback is cut into one
action per camera visited (`ScanCamera`, `WatchCamera`), because processes die and SIGHUP
arrives in between; the number of cameras is read once at its start (`pc.n`), as in the code.

| Variable | Code |
|---|---|
| `order`, `assigned`, `online`, `paused` | `cameras[]`, `runtime.is_assigned`, `is_online`, `commanded_paused` |
| `mode`, `status` | `recording_mode_flags`, `recording_status_flags`, as sets of flag names |
| `worker` | process behind `worker_pid`: none, alive, or dead and not yet waited for |
| `orphans` | running recorders whose pid a reload has forgotten |
| `ready`, `nRec`, `meta`, `space`, `shutdown` | drive flags, `n_cams_recording`, the two helper processes, `shutdownInProcess` |
| `retry`, `rpTTL`, `camonTTL` | the static per-slot arrays |
| `pass`, `reported`, `pc` | `pass_flag`, answers of the last receive pass, where the loop is |
| `forkOK` | whether the system creates processes at present |

| Action | Code |
|---|---|
| `CameraRecordPause` | `msgcb_camera_record_pause`, `handle_camera_record_pause` |
| `ResetCameraStream`, `ResumeCameraStream` | resolution, compression and frame-rate messages and `reset_camera_stream`, cut at its 500 ms sleep |
| `ReadyStatus`, `Shutdown`, `CameraSettings` | the handlers of those messages |
| `TickTransmit`, `TickReceive`, `ScanCamera`, `ScanDone`, `WatchCamera`, `WatchDone` | `_1Hz_timer_callback` |
| `Reload` | the SIGHUP branch of `handle_signal` with `raconf_init` |
| `RecorderDies`, `HelperDies`, `OrphanDies`, `ForkAbilityChanges` | environment |

Abstractions: a drive, a flag and a camera are names; the answers to a probe are any set of
cameras; a configuration is the order of cameras and which of them are assigned.

| Run | Instance | Shows |
|---|---|---|
| `agent_one` | one non-essential camera with grooming, every fault | types, status flags mean a process, no recorder for an unassigned camera, a paused camera stays stopped, implements `RecorderPool`; dead recorders are noticed, lost ones replaced, helpers come back |
| `agent_two` | two essential cameras, a reload may unassign one, dying recorders | the count is exact |
| `agent_reload` | a camera that reloads drop and bring back, settings messages, failing fork | the count is never too low, a slot given up stays so |
| `remnants` | one camera that a reload drops | violation, section 9 |

Bounds: one camera reaches every branch of every handler; two are needed for what relates
cameras (the count, the slots).  `CamonTTL` is 1 instead of 3: the counters then run through
all their branches (above, at and below the limit) in fewer ticks.  `MaxRetries` is 0 or 1
instead of 2; a slot is then given up after one or two failures, and the theorems hold for
any limit.  `DriveSets` limits what READY_STATUS reports: in `agent_two` and `agent_reload` the
CHM comes and goes and the removable drive is never there, which neither the count nor the
retries look at.  `MaxLost`
bounds how many lost recorders the count may keep; `Reload` is not taken beyond it.
`PausedStaysStopped` is checked and proved without settings messages (`SettingsMsgs = {}`): a
settings message restarts a paused camera (section 9).

Fairness: weak fairness of the visits and of the resume step says that the loop finishes a
callback it has started; strong fairness of the tick says that the periodic timer is served
again and again although messages keep arriving, which the PTC loop does because it polls its
timers on every round.  Nothing is assumed of messages, deaths or fork, except that
`HelpersReturn` speaks of the case that fork works from some time on.

## 4. The metadata recorder's queue: `MetaQueue`

The main thread of `metarec` makes a record of every PTC message and enqueues it; the
recording thread dequeues it and writes it to the chunk files.  A critical section of the
queue's mutex is one action, cut where `pthread_cond_timedwait` gives the mutex up; what is
done without the mutex (the test for data, the copy out of the slot) is an action of its own.

| Variable | Code |
|---|---|
| `buf`, `head`, `tail`, `full`, `empty`, `initialized` | `meta_desc_q_t` |
| `active` | `is_active` of the channel, written by both threads |
| `main`, `offered` | where the main thread is; the record it offers or waits with |
| `worker`, `slot`, `got` | where the recording thread is; the slot `meta_q_deq` returned; the copy it made |
| `took`, `taken`, `accepted` | history: what was dequeued, and what the enqueue reported as accepted |

| Action | Code |
|---|---|
| `Offer`, `Woken`, `TimedOut` | `set_gps` and the like with `enq_metadata_descriptor`, up to its wait and after it |
| `Stop`, `Joined` | the end of `main`, `metadata_recording_stop` |
| `WorkerStart`, `InitQueue` | the start of `metadata_recording_thread`, `init_metadata_recording_queue` |
| `Poll`, `Dequeue`, `CopyOut` | `get_metadata_descriptor` |
| `Write`, `Finish` | the rest of the thread's loop, and its end |

A record is its number in the order of the offers.  The copy is a data race: each half of the
copied descriptor is the old or the new content of the slot.  `Write` stands for what
`MetaChunks` models.

| Run | Instance | Shows |
|---|---|---|
| `queue` | 3 slots, 6 records, a recording thread that may start late | bounded FIFO (`FifoSpec`), the unlocked test for data stays true, a dequeued slot is overwritten only by the record that fills the ring, nothing accepted is lost, everything accepted is dequeued or the recorder was stopped, stopping returns |

Bounds: twice as many records as slots let head and tail wrap and the ring fill, drain and
fill again.  The code has 10 slots; the theorems hold for any number.

Fairness: both threads are scheduled (weak fairness of the recording thread's steps), the
timed wait ends after a second, and a join returns once the thread has ended.  Nothing is
assumed of messages and of the signal that stops the program.  `StopReturns` is checked with
the one-second sleep of `main` taken as long enough: the recording thread sets `is_active`
when it starts, so that a stop before that would be forgotten.

## 5. The chunk files of the metadata recorder: `MetaChunks`

Each record that leaves the queue is written to the current chunk on every drive in use.  A
chunk file is opened in the staging directory of its drive and renamed into its hour
directory when it is closed, with an index of its records in the header.  The PTC thread
changes the commanded drives and the flag that says the clock was set forward while the
recording thread works.

| Action | Code |
|---|---|
| `ReadyStatus`, `Shutdown`, `TimeInfo` | the handlers of `ptc_meta_intf.c` |
| `TakeRecord` | the loop head: the record and `is_drive_status_updated` with `drive_status_update_handler`, which closes the chunk (`Finalize`) |
| `ReadFlag`, `ClearFlag` | the two critical sections in `is_new_chunk_required` |
| `ChunkFile` | the rest of `get_metadata_chunk_file`: `NewChunk` closes and opens the files, `PrepareSubpath` makes the hour directories |
| `WriteRecord` | `write_metadata` and the `ftell` that gives the next offset (`Told`) |
| `Nap`, `Expire`, `Finish` | no record; the chunk has lasted its time; the thread ends |

A chunk is its number, an offset counts records, only the sign of a time offset matters.
`ftell` on a closed file is undefined; the model returns an error or what the stale structure
still says.  The history variables `born`, `steady`, `pending` and `due` only serve the
properties.

Run `chunks` (2 hours, chunks of 3 records, 4 records, 2 messages, files that cannot be
opened) shows that a clock set forward always leads to a new chunk although the flag is read
and cleared separately; that records go to open files only; that a drive in steady use has no
closed chunk left in staging (the chunk that is open when the thread ends at duration 0 is not
closed, `metachunk.c:309`, and stays there) and every chunk under the hour it was opened in; that, as long as
the CHM was in use all the time, every filed chunk on either drive lists the offsets of all its
records, except the chunk of a single record that `drive_status_update_handler` closes without
an index; and that each drive by itself is a `ChunkStore` (`StoreSpec`): one open file, only
that one changes, a new one is empty and opened after all others, and filed chunks are final.
Four records let a chunk fill up, be finalized by each
of the reasons and be followed by another.  `chunk_offset` is a violation (section 9).
Safety only: what the thread waits for is the subject of `MetaQueue`.

## 6. Drives in the event control: `DriveControl`

The event loop runs the 10 Hz callback `check_for_event` and the timer handlers one after the
other; mounting is done by detached threads; the door, the drive in the caddy, the CHM and
the power line change at any time.

| Action | Code |
|---|---|
| `CheckForEvent` | the callback: a requested READY_STATUS, then the power line, the CHM (`ChmCheck`) and the door (`DoorCheck`), with the early returns of the code |
| `MountTimer` | the mount timer: looks whether the thread has mounted the drive |
| `ShutdownTimer` | the end of the video shutdown, external: unmounts the drive and clears its flags |
| `MountChm`, `MountRemovable` | the two mount threads |
| `TurnDoor`, `SwapDrive`, `PowerFails`, `ChmChanges` | environment |

`PsonEvery` and `ChmEvery` are the code's thresholds, reduced to 3 and 2 in the run `drives`
so that the checks come at different callbacks; the theorems hold for any value.
`MaxThreads` bounds the CHM mount threads that wait at once.  `Faults` says what may go wrong:
the power fails, the CHM comes and goes, a drive that is there cannot be mounted (`MountWorks`;
a thread that could not be created mounts nothing either), `getDoorLockStatus` answers
DOOR_UNKNOWN (`Readings`), or the door is turned twice between two polls (`"blip"`).  The run
has all of them but the last; the theorems hold for all.

The mount timer is taken to fire after its thread has ended.  The thread sleeps for 20 seconds
and mounts in between; the length of the timer, `REMOVABLE_SSD_MOUNT_TIMEOUT`, is not in the
repository, and nothing bounds the mount.  `OneMountThread` and `ReadyIsMounted` rest on this.
The handler of the video shutdown timer is not in the repository either.

The run shows one mount thread at a time, no drive ready that is not mounted, nothing announced
after a power loss, and a lost CHM withdrawn by the next callback; and, with weak fairness of
the callback, the timers and the threads, that a door left unlocked ends with the drive
unmounted, and that a door left locked on a drive ends with the drive ready and the agent told
of it.  The latter has exceptions, because the code does not try again: a mount that failed with
the drive in place (`checkMount` is cleared when it is started), a DOOR_UNKNOWN that hid the
unlocking from the poll or the locked door from the mount thread, and a mount timer that did not
find the door locked while the next poll does not find it unlocked either.  The history variable
`missed` is set by exactly these steps and cleared when the door is next seen unlocked or a mount
is started.  Nothing is assumed of the outside world; `polled` is what keeps the door from
turning twice between two polls.

## 7. The space monitor: `SpaceMonitor`

One process visits the drives in turn.  Reading one camera's tree, removing a file, testing a
directory and removing it are separate steps, because recorders open and rename chunks in
between.

| Action | Code |
|---|---|
| `Visit`, `FirstMeasure`, `MeasureAgain` | the main loop, `space_handler` and `process_available_space` |
| `groom_handler`, `VisitDone` | grooming of each camera by its own age limit |
| `ScanCamera`, `Remove`, `RemoveFails` | `find_oldest_file` for one camera, `remove` |
| `TestDirectory`, `RemoveDirectory` | `delete_oldest_file` after the file: hour, day and further up |
| `Sleep` | the end of a visit, the next drive |
| `NewChunk`, `MakeHour`, `CloseChunk` | recorders: `get_metadata_chunk_file` with one `mkdir` per step, and the rename (`rtsprec`, external, does the same) |
| `ClockTicks`, `ControlFile` | clock, the file that forbids grooming |

A path is camera, day, hour; the year and month levels behave like the day.  A recorder makes
the day and the hour in two steps, between which the monitor may remove the day; the second
`mkdir` then fails, which the code only logs.  A chunk lasts any of `Lengths` units, and its size
is proportional to that.  A directory entry that vanishes during a search (the breaks on a failed
`stat` or `opendir`) is left out.

Run `space`: two cameras that record chunks of one or two units to the CHM, one of them limited
to one unit of footage, units of 30 percent of a drive, two ticks an hour and two hours a day,
a clock up to 2 and a control file that comes and goes: the drive fills, the hour changes, two
chunks fall in one hour, and both reasons for grooming occur (the change of the day and longer
histories are left to the theorems).  It shows that the oldest filed chunk is chosen whatever is filed during the search and
is there until it is removed; that a recorder's hour directory is missing in two cases only: a
chunk of that very hour was groomed (`groomed`), or the monitor removed the emptied day between
the recorder's two `mkdir` calls (`overtaken`; without this exception TLC finds the violation);
that chunks are deleted for a reason the configuration gives; and that grooming by age leaves a
camera short of its maximum by less than the chunk deleted.  With weak fairness of the monitor's
step and nothing assumed of the recorders, drives short of space get it back and cameras with
too much footage lose it.  `space_limit` is a violation (section 9).

## 8. Downloads: `Download`

A request names a directory, a time range and the drives to try.  Each attempt validates the
directory, searches the drive, writes metadata and copies chunks, packs the directory into an
archive and encrypts it; a failure at any step ends the attempt and the next drive is tried
with the same request and the same globals.

| Action | Code |
|---|---|
| `Request`, `TryNext`, `Reply` | `msgcb_download`, `do_download`, and the single attempt of `access_data` |
| `validate_destination`, `ValidateFails` | the directory is checked and cleaned |
| `retrive_data`, `SearchFails` | the search (external): the chunks of the range on the drive |
| `init_meta_file`, `InitMetaFails` | the two files are opened |
| `SizeIsRight`, `SizeIsWrong` | the sum of the sizes against the free space |
| `CopyChunk`, `SkipChunk`, `CopyFails`, `CopyDone`, `NothingCopied` | the loop over the chunks with `insert_chunk_metadata` and `copy_file` |
| `CopyHangs`, `ReadAgain` | a read error in `copy_file`, whose loop tests `feof` only and never ends |
| `insert_maindata`, `MainDataFails` | the rest of the metadata, its encryption |
| `zip_files`, `EncryptArchive`, `ArchiveFails` | the archive |
| `get_snapshot` | the snapshot request |
| `Record`, `Groom` | recorder and space monitor (external) |

Chunk `t` covers the time from `t` to `t + 1`, so that gaps, segments and the range are
relations between numbers.  The times in the metadata are converted as in the code: the header
of a chunk has a time offset (`Offset`), no valid time source (`Untimed`: `get_timeoffset()`,
taken to be the same all the time), or cannot be read (`Unreadable`: the variable keeps its
value).  `FirstOffset`, `NextOffset` and `LastOffset` are the values of `first_chunk_offset` and
`last_chunk_offset` at the places that use them.  Offsets are integers: the code passes them
through a double and `uint64_t`, which on x86-64, the target of `make_reagent.sh`, also
preserves negative ones.  A directory is the set of chunks and files in it, its archive and its
encrypted archive.  `remove` of the download's own files is taken to work.

Run `download`: three times, one staging directory used by request after request, every fault,
offsets that are the same on both sides of the gap between chunks 1 and 3 and another, or no time
source, in between.  A download that succeeds leaves an archive of exactly the chunks its metadata lists, among them
every chunk found that is still there; no failure leaves a file open; every request is answered,
unless a chunk cannot be read while it is copied (weak fairness of the handler's next step: the
commands it waits for return); the segments are the runs of video in the times that the headers
of their first and last chunks give, and the start time offset is that of the first chunk.
`SegmentsMatch` excepts chunks that vanished, headers that cannot be read and an offset that
changes across a gap (section 9).  `Unreadable` is empty in this run: headers that cannot be read
inside a run of video are covered by the theorems only.  `download_foreign` is a violation in a directory that is not a staging directory.

## 9. Where comments and code disagree

| Run | Comment | Code |
|---|---|---|
| `remnants` | remnants of the previous configuration are cleaned up (`reagent_config.c:482`) | the table is cleared before the pids are looked at: the recorder of a dropped camera runs on |
| `chunk_offset` | the first active file pointer tells the offset (`metaio.c:326`) | after the CHM is switched off its closed file is still asked |
| `space_limit` | grooming below 20 percent, or of files older than a threshold (`reagent_config.c:521`) | the threshold in hours is passed as the limit in percent |
| `download_foreign` | the whole directory must not be blown out (`ra_download.c:665`) | `zip -m` moves every file of it into the archive |

Met while modelling, each visible in a model or in the code, without a run of its own:

- Supervisor: a settings message restarts a paused camera; a non-essential camera is started
  with no drive ready (`ptc_intf.c:1772` says otherwise), READY_STATUS gives it the CHM
  although `DONT_USE_CHM` marks it (`reagent_config.h:119`), and a running recorder whose
  flags were cleared cannot be paused.  Stopping waits for `rtsprec` without a limit.  After
  a failed `execv` the child goes on as a second agent.  With 16 reported cameras
  `camon_status` is written one past its end (`ptc_intf.c:1118`).  Each reload forgets an open
  probe socket.
- Queue: the slot is copied after the mutex was released; when ten records arrive first, the
  copy is a newer record.  Records offered before the recording thread has made the queue are
  dropped.
- Event control: a CHM that changes during the shutdown of the SSD announces the SSD again
  (`event_control.c:895`).  A mount that fails with the drive in place, or that DOOR_UNKNOWN
  aborts, is not tried again until the door was unlocked (`event_control.c:1000`); a drive that
  becomes ready with the door unlocked for a moment is never announced (`:1077`).
- Space monitor: `groom_handler` ignores a failed delete and never ends; a failing `statvfs`
  reads as one percent free, and exactly one percent free as an error; the hour directory goes
  with its last chunk even when the recorder will still rename into it, and the day may go
  between a recorder's two `mkdir` calls: the chunks of that hour then stay in staging.
- Downloads: `insert_maindata` narrows the requested range before steps that may still fail,
  so that the attempt on the CHM searches less than was asked; a chunk that vanishes leaves
  wrong segment times; the start of a segment after a gap is converted with the offset of the
  chunk before the gap (`ra_download.c:994`), which is wrong when the offset has changed; a read
  error while a chunk is copied makes `copy_file` loop for ever (`ra_data_search.c:102`), and with
  it the agent's event loop; an unreadable first chunk leaves the offset of an earlier attempt; in
  a directory that is not for staging the remains of failed attempts reach the archive;
  `get_snapshot` cleans a path that is no directory.
- Start-up: `user_config.c:25` says the agent cannot start without the three messages, but it
  does after ten seconds; `reagent_config.c:428` announces the base configuration but reads
  none.

## 10. Proofs

Eight modules.  TLC checked every proved property before it was proved, those without a run of
their own on the instances of the runs; the strengthenings below are justified by their
proofs alone.  The theorems hold for all values
of the constants that meet the named assumptions.

**Supervisor** (`RecordingAgentProofs`, `RecorderCountProofs`).  The inductive invariant is
`TypeOK /\ StatusHasRecorder`.  Types alone are not inductive: the scan loop treats a camera
whose status flags are set as one with a process, and what it then does to the counters is
well typed only if there is one.  Each action's effect on the camera table is a lemma about
the helper it calls (`StopEffect`, `StartEffect`, `JustStoppedEffect`), so that a handler is
proved from what its calls do.

The count is proved on top of it.  Every step does to the recorders on record one of five
things: nothing, starts one, a process exits, releases one, or reloads (`BooksStep`).  For
each of them the change of `n_cams_recording` is compared with the change of the cardinality
of the set of recorders.  `CountNeverLowAlways` needs no assumption.  `CountExact` and
`ImplementsPool` assume `NoneDropped`, that every configuration names the same cameras, in any
order: a reload that drops a camera loses its recorder (run `remnants`), and then the count is only an
upper bound.  `RecordersConfiguredAlways` needs no assumption either: whatever reloads drop and
bring back, a recorder on record belongs to a configured camera, where the loops find it.

Which cameras may have a recorder (`AssignmentProofs`) needs that slots name distinct cameras
and that a slot that was given up has no recorder.  `RecordersOnlyForAssignedAlways` and
`GivenUpForGoodAlways` assume `SamePlaces`, that a camera has the same place in every
configuration that names it (it may be dropped and come back), because the retry counters are
kept per slot and not per camera.  `PausedStaysStoppedAlways` assumes no settings messages and
rests on `PausedHasNoFlags`: a paused camera has no commanded mode, so nothing else starts it.

**Queue** (`MetaQueueProofs`).  The inductive invariant has three parts beside the types:
the flags tell a full ring from an empty one (`RingInv`); everything in the ring is older than
the record the main thread waits with (`OlderInv`, for the order); while the recording thread
copies, its slot is the one just behind the head (`CopyInv`), so that the only enqueue that
writes it is the one whose tail catches up with the head, which sets `full`.  From it follow
`OverwrittenOnlyWhenFullAlways` and `TestedDataIsThereAlways`.  `ImplementsFifo` maps the ring
to the sequence `Contents`; `EnqPuts` and `DeqGets` show that the two operations are `Append`
and `Tail` on it.  `AcceptedIsKeptAlways` assumes that no wake-up is spurious: the wait for
room is an `if`, and after a spurious return the enqueue does nothing while success is
reported.

**Chunk files** (`MetaChunksProofs`).  `FlagInv`: a forward change is in the flag or has
already been noticed, in every state between the two critical sections.  `PointerInv`: the
thread's pointers are the open files, except between a change of the drives and the new chunk
it leads to.  `StagingInv`: the open file is the latest chunk and the hour directory exists
on drives in steady use.  `HourInv`: `prev_tm` never runs ahead of the prepared path.

`StoreInv` is what the abstract store needs: no filed chunk is open, no file is newer than the
current chunk, the open file has no index yet, and a close renames the file it closed.  It is
an invariant of each drive that holds without any steadiness, so `ImplementsStore` covers
drives that come and go, failing `fopen` and failed renames; every action is shown to be a
step of the store of each drive or to leave it alone (`StepInStore`).  That filed chunks are
final (`FiledIsFinalAlways`) follows.  `IndexInv` ties together the offset `ftell` returned, the
index in memory and the records in the open files: while the CHM is in steady use its file is
the one asked, so the index is 0, 1, ... up to the records written, also for the chunk on the
removable drive; `ResetForUpdate` says that a change of drives empties the index and that
nothing is written until the new chunk begins.

**Drives** (`DriveControlProofs`).  `IInv` adds to the four properties that the mount timer
runs as long as a mount thread does, that `chm_ready` remembers the CHM's flag since the first
check, that a status waiting to be sent was computed from that flag, and how the power-down
counter counts.  `Phases` separates the mounting of the SSD from its shutdown; with it
`MountExcludesShutdownAlways` holds under every fault.  `ToldSsdIsReadyAlways`, that the agent
is never told of an SSD that is not ready or is being shut down, assumes a CHM that stays as
it is: when the CHM changes during the shutdown, `process_chm_connect_status` announces the
SSD again (`event_control.c:895`, section 9).

**Space monitor** (`SpaceMonitorProofs`).  `SearchInv`: what has been read so far has no chunk
older than the one remembered.  `DirInv`: the staging directories stay, a recorder between its
two `mkdir` calls has its day or was overtaken (`DayMade`), and the hour of the latest chunk is
there or in one of the two exceptions.  `CountInv`: a camera has one chunk per start, so that the
units of a set of chunks are counted once.  `FootageReason` and `SpaceReason`: what was measured
before the search still holds when the file is removed, because recorders only add.
`RemovedForAReasonAlways` assumes a limit of 20 percent and a `statvfs` that works.
`FootageIsKeptAlways` holds for chunks of any durations.  Also proved, without a run: no chunk in
staging is ever handed to `remove` (`StagingIsSafeAlways`), and each removal that succeeds leaves
more space than there was (`RemovalFreesSpaceAlways`), which is why the loop of `space_handler`
gets nearer to its limit.

**Downloads** (`DownloadProofs`).  `TInv`: an attempt has a drive, found something, and has
open files only while it writes metadata.  `AInv` follows the staging directory: empty once
validated, then exactly the listed chunks, then the archive; and no found chunk that is still
there is missed, since what is recorded meanwhile was not found.  `OInv`: the global offset
belongs to the first chunk of this attempt as soon as one is listed.  `SInv`: the closed
segments are the runs that end at a listed chunk, in the times their headers give, and the open
one has begun the run of the next chunk at that run's time, as long as the headers suffice.  Also proved, without a run: an archive that an earlier request left in the
directory is never there once the directory was validated, nor after a failure for want of
video, time or room (`NoStaleArchiveAlways`); an internal error is left out because the
directory itself may be what failed.  `EveryStepCountsAlways` is the safety half of
`RequestIsAnswered`: each step of a request decreases `StepsLeft`, a number that is at most
`2 * MaxTime + 17`, whichever steps fail and whatever is recorded and groomed meanwhile; after
that it is answered or hangs in `copy_file`.

**Only model-checked.**  Liveness (`DeadRecorderNoticed`, `LostRecorderRestarted`,
`HelpersReturn`, `AcceptedIsTaken`, `StopReturns`, `DriveComesBack`, `DriveIsReleased`,
`DrivesGetGroomed`, `RequestIsAnswered`) is outside what the proof system covers; that a
request takes a bounded number of steps is proved.  Every safety property of a passing run
has a theorem.

## 11. Not modelled

About three quarters of the repository's lines are third-party: the XML and JSON parsers, the
headers of a database and a script engine, and `http.c`, which is the main program of
civetweb.  They keep no recording state.

- Camera monitor: raw-socket probing; the supervisor model takes any set of cameras that
  answered, which is all it learns.
- User configuration collector: a start-up wait for three messages whose effect is the text of
  XML files.
- Metadata collector, directory worker, recording list, host configuration: sequential input
  and output without state that outlives a call.
- RTSP playback: sources for a streaming library; what they promise is about bytes and
  timestamps in files.  The links made for playback (`prepare_playback`) and the session
  number read, incremented and written without a lock (`genID`) belong to it.
- Event control: the discrete inputs, GPS forwarding and the NAS of the LNVR build.
- Supervisor: the rediscovery of a moved camera, the command line of `rtsprec`, a reload of an
  unreadable file, the recording status sent to the host.  SIGHUP arrives between visits of
  the timer callback, not in the middle of a handler.
- Metadata recorder: the layout of records, and a kill of `metarec`, which leaves the current
  chunk in staging.
- Downloads: two processes (agent and `access_data`) that share a directory; no lock orders
  them, and each would empty what the other copies.
