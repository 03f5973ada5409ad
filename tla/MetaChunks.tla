----------------------------- MODULE MetaChunks -----------------------------
(***************************************************************************)
(* The chunk files of the metadata recorder (metarec/src/metaio.c,         *)
(* metarec/src/metachunk.c) and the drives they are recorded to, as        *)
(* commanded by PTC messages (metarec/src/ptc_meta_intf.c).                *)
(*                                                                         *)
(* A chunk is written to the staging directory of every drive in use and   *)
(* renamed into the hour directory of the drive when it is closed.  The    *)
(* recording thread takes one record at a time from the queue (MetaQueue); *)
(* the PTC thread changes the commanded mode and the time-change flag      *)
(* between its steps.  Chunks are numbered in the order of their names: a  *)
(* name is a second, and no two chunks are opened in the same second.  A   *)
(* file offset is the number of records before it.                         *)
(***************************************************************************)
EXTENDS Integers, Sequences, FiniteSets

CONSTANTS
  Hours,        \* hours of the wall clock, which may be set back
  ChunkSize,    \* is_meta_record_reach_max: records in a chunk
  MaxRecords,   \* bound: records taken from the queue in a behaviour
  MaxMsgs,      \* bound: PTC messages in a behaviour
  Faults        \* "open": fopen may fail on a drive

ASSUME HoursAssumption == Hours \subseteq Nat \ {0}
ASSUME BoundsAssumption == ChunkSize \in Nat \ {0} /\ MaxRecords \in Nat /\ MaxMsgs \in Nat
ASSUME FaultsAssumption == Faults \subseteq {"open"}

Drives == {1, 2}         \* data_loc[]: the CHM and the removable SSD
Chunks == 1..MaxRecords
Offsets == {-1, 0, 1}    \* time_offset of TIME_INFO: only its sign matters

VARIABLES
  mode,      \* commanded_recording_mode
  offset,    \* previous_time_offset of msgcb_time_info_meta_rec
  flag,      \* forward_time_change_occurred
  msgs,      \* PTC messages so far
  pc,        \* where the recording thread is
  taken,     \* records taken from the queue
  hour,      \* hour of the record in hand
  change,    \* the local time_change of is_new_chunk_required
  used,      \* drives with data_loc[].is_used
  seen,      \* is_drive_status_updated has been called
  prev,      \* pre_chm_rec, pre_ssd_rec: the mode it last saw
  updated,   \* m_chunk.drive_status_updated
  fresh,     \* m_chunk.session_just_started
  prevHour,  \* m_chunk.prev_tm (0: never set)
  subpath,   \* the hour subpath names (0: none)
  chunk,     \* m_chunk.chunk_fname: the chunk opened last (0: none)
  timed,     \* m_chunk.chunk_duration_usecs > 0
  fp,        \* m_chunk.fp[]: the chunk whose file is open, 0 for NULL
  out,       \* out[] of the thread: the chunk it points to, 0 for NULL
  index,     \* idx_data[0 .. num_records - 1]: the offsets recorded
  pos,       \* the offset of the next record
  dirs,      \* hour directories there are
  staged,    \* chunk files in the staging directories
  filed,     \* chunk files in the hour directories
  held,      \* records in each chunk file
  header,    \* the index in the header of each chunk file (<<>>: none)
  born,      \* history: hour in which each chunk was opened
  steady,    \* history: drives that were in use all the time
  pending,   \* history: forward time change since the last chunk was opened
  due        \* history: the record in hand was taken after such a change

ptcVars == <<mode, offset, flag, msgs>>
driveVars == <<used, seen, prev>>
descVars == <<updated, fresh, prevHour, subpath, chunk, timed, fp>>
diskVars == <<dirs, staged, filed, held, header>>
history == <<born, steady, pending, due>>
vars == <<mode, offset, flag, msgs, pc, taken, hour, change, used, seen, prev,
          updated, fresh, prevHour, subpath, chunk, timed, fp, out, index, pos,
          dirs, staged, filed, held, header, born, steady, pending, due>>

-----------------------------------------------------------------------------
(* The PTC thread                                                          *)

\* msgcb_ready_status_meta_rec: the drives that are ready are the mode.
ReadyStatus(ready) ==
  /\ msgs < MaxMsgs /\ msgs' = msgs + 1
  /\ mode' = ready
  /\ UNCHANGED <<offset, flag, pending>>

\* msgcb_shutdown_meta_rec: CHM, removable SSD or both.
Shutdown(drives) ==
  /\ msgs < MaxMsgs /\ msgs' = msgs + 1
  /\ mode' = mode \ drives
  /\ UNCHANGED <<offset, flag, pending>>

\* msgcb_time_info_meta_rec, after it has enqueued its record: the offset goes
\* from negative to zero when the clock was set forward.
TimeInfo(o) ==
  /\ msgs < MaxMsgs /\ msgs' = msgs + 1
  /\ flag' = (flag \/ (offset < 0 /\ o = 0))
  /\ pending' = (pending \/ (offset < 0 /\ o = 0))
  /\ offset' = o
  /\ UNCHANGED mode

PtcStep ==
  /\ \/ \E ready \in SUBSET Drives : ReadyStatus(ready)
     \/ \E drives \in {{1}, {2}, Drives} : Shutdown(drives)
     \/ \E o \in Offsets : TimeInfo(o)
  /\ UNCHANGED <<pc, taken, hour, change, driveVars, descVars, out, index, pos,
                 diskVars, born, steady, due>>

-----------------------------------------------------------------------------
(* Closing a chunk                                                         *)

\* The drives whose open file finalization or a new chunk closes.
OpenOn(drives) == {d \in drives : fp[d] # 0}

\* The path of the new record's hour is prepared before the old chunk is closed.
ClosedUnder_NewHour == IF used # {} THEN hour ELSE subpath

\* The hour directory, as prepared for the hour in which the chunk was opened.
ClosedUnder == subpath

\* The rename works where there is a file of the current name and the directory
\* to move it to (the base directory while no path was prepared).
Renamed(closing) ==
  {d \in closing : /\ <<d, chunk>> \in staged
                   /\ ClosedUnder = 0 \/ <<d, ClosedUnder>> \in dirs}

\* metadata_finalize_header, fclose and rename on each of the drives: the
\* header is written through the file pointer, the rename goes by name.
CloseFiles(closing) ==
  /\ header' = [d \in Drives |-> [c \in Chunks |->
       IF d \in closing /\ c = fp[d] /\ index # <<>> THEN index ELSE header[d][c]]]
  /\ filed' = filed \cup {<<d, chunk, ClosedUnder>> : d \in Renamed(closing)}

\* metadata_chunk_finalize closes nothing while the duration is 0.
Finalizable == IF timed THEN OpenOn(used) ELSE {}

\* metadata_chunk_finalize.
Finalize ==
  /\ CloseFiles(Finalizable)
  /\ staged' = staged \ {<<d, chunk>> : d \in Renamed(Finalizable)}
  /\ fp' = [d \in Drives |-> IF d \in Finalizable THEN 0 ELSE fp[d]]
  /\ index' = <<>>
  /\ timed' = FALSE

-----------------------------------------------------------------------------
(* The recording thread                                                    *)

\* get_metadata_descriptor answers 1; the commanded mode is read and, when it
\* differs from the one read for the record before, drive_status_update_handler
\* closes the chunk and takes over the mode.  The first mode read never differs.
TakeRecord(h) ==
  /\ pc = "loop" /\ taken < MaxRecords
  /\ taken' = taken + 1
  /\ hour' = h
  /\ updated' = (seen /\ prev # mode)
  /\ seen' = TRUE /\ prev' = mode
  /\ IF updated'
     THEN Finalize /\ used' = mode
     ELSE UNCHANGED <<header, filed, staged, fp, index, timed, used>>
  /\ steady' = steady \cap used'
  /\ due' = pending
  /\ pc' = "flag"
  /\ UNCHANGED <<ptcVars, change, fresh, prevHour, subpath, chunk, out, pos,
                 dirs, held, born, pending>>

\* The flag is cleared even when it was not seen set.
ReadFlag_ClearsAlways ==
  /\ pc = "flag"
  /\ change' = flag
  /\ pc' = "clear"
  /\ UNCHANGED <<ptcVars, taken, hour, driveVars, descVars, out, index, pos, diskVars, history>>

\* has_forward_time_change_occurred.
ReadFlag ==
  /\ pc = "flag"
  /\ change' = flag
  /\ pc' = IF flag THEN "clear" ELSE "chunk"
  /\ UNCHANGED <<ptcVars, taken, hour, driveVars, descVars, out, index, pos, diskVars, history>>

\* update_forward_time_change_status(false), in a critical section of its own.
ClearFlag ==
  /\ pc = "clear"
  /\ flag' = FALSE
  /\ pc' = "chunk"
  /\ UNCHANGED <<mode, offset, msgs, taken, hour, change, driveVars, descVars, out,
                 index, pos, diskVars, history>>

\* It forgets the change of the drives.
NewChunkRequired_NotForDrives == fresh \/ prevHour # hour \/ Len(index) >= ChunkSize \/ change

\* is_new_chunk_required.
NewChunkRequired ==
  fresh \/ prevHour # hour \/ Len(index) >= ChunkSize \/ change \/ updated

\* The directories are made once, for the drives in use at the first hour.
PrepareSubpath_Once ==
  IF prevHour # hour
  THEN /\ prevHour' = hour
       /\ subpath' = IF used # {} THEN hour ELSE subpath
       /\ dirs' = IF prevHour = 0 THEN dirs \cup {<<d, hour>> : d \in used} ELSE dirs
  ELSE UNCHANGED <<prevHour, subpath, dirs>>

\* prepare_subpath: nothing is prepared, and subpath not changed, for a drive
\* that is not in use.  session_just_started has been cleared by then.
PrepareSubpath ==
  IF prevHour # hour
  THEN /\ prevHour' = hour
       /\ subpath' = IF used # {} THEN hour ELSE subpath
       /\ dirs' = dirs \cup {<<d, hour>> : d \in used}
  ELSE UNCHANGED <<prevHour, subpath, dirs>>

\* get_metadata_chunk_file when a new chunk is required: the files of the old
\* one are closed, whatever its duration, and files of the new one opened.
NewChunk ==
  /\ CloseFiles(OpenOn(used))
  /\ index' = <<>> /\ timed' = FALSE
  /\ fresh' = FALSE /\ updated' = FALSE
  /\ chunk' = taken
  /\ PrepareSubpath
  /\ \E failed \in IF "open" \in Faults THEN SUBSET used ELSE {{}} :
       /\ fp' = [d \in Drives |-> IF d \notin used THEN fp[d]
                                  ELSE IF d \in failed THEN 0 ELSE taken]
       /\ out' = [d \in Drives |-> IF d \in used THEN fp'[d] ELSE out[d]]
       /\ staged' = (staged \ {<<d, chunk>> : d \in Renamed(OpenOn(used))})
                      \cup {<<d, taken>> : d \in used \ failed}
  /\ pos' = IF used # {} THEN 0 ELSE pos
  /\ born' = [born EXCEPT ![taken] = hour]
  /\ pending' = FALSE /\ due' = FALSE

\* get_metadata_chunk_file after the flag was looked at.
ChunkFile ==
  /\ pc = "chunk"
  /\ IF NewChunkRequired
     THEN NewChunk
     ELSE /\ timed' = TRUE
          /\ UNCHANGED <<header, filed, staged, index, fresh, updated, chunk, prevHour,
                         subpath, dirs, fp, out, pos, born, pending, due>>
  /\ pc' = "write"
  /\ UNCHANGED <<ptcVars, taken, hour, change, driveVars, held, steady>>

\* ftell is called before the write.
Told_BeforeWrite(d) == {held[d][out[d]]}

\* ftell of the first non-NULL pointer.  When its file has been closed since,
\* the answer is an error or what the stale FILE still holds.
Told(d) == IF out[d] = fp[d] THEN {held'[d][out[d]]} ELSE {-1, held[d][out[d]]}

\* The index entry, write_metadata and the offset of the next record.
WriteRecord ==
  /\ pc = "write"
  /\ index' = Append(index, pos)
  /\ held' = [d \in Drives |-> [c \in Chunks |->
       held[d][c] + (IF d \in used /\ c = out[d] THEN 1 ELSE 0)]]
  /\ \/ out[1] # 0 /\ pos' \in Told(1)
     \/ out[1] = 0 /\ out[2] # 0 /\ pos' \in Told(2)
     \/ out[1] = 0 /\ out[2] = 0 /\ UNCHANGED pos
  /\ pc' = "loop"
  /\ UNCHANGED <<ptcVars, taken, hour, change, driveVars, descVars, out, dirs, staged,
                 filed, header, history>>

\* The queue is empty and no file is open, or the maximal duration has not
\* elapsed yet: the duration is updated.
Nap ==
  /\ pc = "loop"
  /\ timed' = (timed \/ \E d \in Drives : out[d] # 0)
  /\ UNCHANGED <<ptcVars, pc, taken, hour, change, driveVars, updated, fresh, prevHour,
                 subpath, chunk, fp, out, index, pos, diskVars, history>>

\* It has elapsed: the duration was updated to more than 0 just before.
Expire ==
  /\ pc = "loop" /\ timed
  /\ \E d \in Drives : out[d] # 0
  /\ Finalize
  /\ fresh' = TRUE
  /\ out' = [d \in Drives |-> 0]
  /\ UNCHANGED <<ptcVars, pc, taken, hour, change, driveVars, updated, prevHour, subpath,
                 chunk, pos, dirs, held, history>>

\* is_active was cleared: done().
Finish ==
  /\ pc = "loop"
  /\ Finalize
  /\ pc' = "done"
  /\ UNCHANGED <<ptcVars, taken, hour, change, driveVars, updated, fresh, prevHour,
                 subpath, chunk, out, pos, dirs, held, history>>

\* The process has ended.
Exited ==
  /\ pc = "done"
  /\ UNCHANGED vars

-----------------------------------------------------------------------------
\* main() takes the mode and the drives in use from its command line.
Init ==
  /\ mode \in SUBSET Drives /\ offset = 0 /\ flag = FALSE /\ msgs = 0
  /\ pc = "loop" /\ taken = 0 /\ hour = 0 /\ change = FALSE
  /\ used = mode /\ seen = FALSE /\ prev = {}
  /\ updated = FALSE /\ fresh = TRUE /\ prevHour = 0 /\ subpath = 0
  /\ chunk = 0 /\ timed = FALSE
  /\ fp = [d \in Drives |-> 0] /\ out = [d \in Drives |-> 0]
  /\ index = <<>> /\ pos = 0
  /\ dirs = {} /\ staged = {} /\ filed = {}
  /\ held = [d \in Drives |-> [c \in Chunks |-> 0]]
  /\ header = [d \in Drives |-> [c \in Chunks |-> <<>>]]
  /\ born = [c \in Chunks |-> 0]
  /\ steady = mode /\ pending = FALSE /\ due = FALSE

ThreadStep ==
  \/ \E h \in Hours : TakeRecord(h)
  \/ ReadFlag \/ ClearFlag \/ ChunkFile \/ WriteRecord
  \/ Nap \/ Expire \/ Finish

Next == (pc # "done" /\ PtcStep) \/ ThreadStep \/ Exited

Spec == Init /\ [][Next]_vars

-----------------------------------------------------------------------------
(* Properties                                                              *)

TypeOK ==
  /\ mode \subseteq Drives /\ offset \in Offsets /\ flag \in BOOLEAN /\ msgs \in Nat
  /\ pc \in {"loop", "flag", "clear", "chunk", "write", "done"}
  /\ taken \in 0..MaxRecords /\ hour \in Hours \cup {0} /\ change \in BOOLEAN
  /\ used \subseteq Drives /\ seen \in BOOLEAN /\ prev \subseteq Drives
  /\ updated \in BOOLEAN /\ fresh \in BOOLEAN
  /\ prevHour \in Hours \cup {0} /\ subpath \in Hours \cup {0}
  /\ chunk \in 0..MaxRecords /\ timed \in BOOLEAN
  /\ fp \in [Drives -> 0..MaxRecords] /\ out \in [Drives -> 0..MaxRecords]
  /\ index \in Seq(Int) /\ pos \in Int
  /\ dirs \subseteq Drives \X Hours
  /\ staged \subseteq Drives \X Chunks
  /\ filed \subseteq Drives \X Chunks \X (Hours \cup {0})
  /\ held \in [Drives -> [Chunks -> Nat]]
  /\ header \in [Drives -> [Chunks -> Seq(Int)]]
  /\ born \in [Chunks -> Hours \cup {0}]
  /\ steady \subseteq Drives /\ pending \in BOOLEAN /\ due \in BOOLEAN

\* The time-change flag is read and cleared in two critical sections while the
\* PTC thread sets it.  Still, no record taken after a forward time change is
\* written to a chunk that was opened before it.
ForwardChangeStartsChunk == pc = "write" => ~due

\* metadata_chunk_finalize closes files whose pointers the thread keeps in
\* out[].  write_metadata never writes through a pointer to a closed file.
WritesHitOpenFile ==
  pc = "write" => \A d \in used : out[d] # 0 => out[d] = fp[d]

\* On a drive that was in use all the time every chunk file whose pointer was
\* given up was renamed out of the staging directory: finalization skipped at
\* duration 0 is made up for by the next one, and the hour directory is there.
\* (No next one comes when the thread ends: a last chunk of duration 0 keeps its
\* pointer at done and stays in staging, metachunk.c:309.)
NothingLeftBehind ==
  \A d \in steady, c \in Chunks : <<d, c>> \in staged => fp[d] = c

\* As long as some drive was in use all the time, a chunk is filed under the
\* hour in which it was opened, on every drive, however the clock is set: it is
\* closed before subpath changes, and prev_tm never runs ahead of subpath.
FiledUnderItsHour ==
  steady # {} => \A d \in Drives, c \in Chunks, h \in Hours \cup {0} :
                   <<d, c, h>> \in filed => h = born[c]

\* The records of a chunk file as its index should list them.
Listed(d, c) == [k \in 1..held[d][c] |-> k - 1]

\* As long as the first drive was in use all the time, a filed chunk has the
\* offset of each of its records in its header, on either drive.  Only the chunk
\* of one record whose finalization drive_status_update_handler skipped has none.
IndexIsWhole ==
  1 \in steady => \A d \in Drives, c \in Chunks, h \in Hours \cup {0} :
    <<d, c, h>> \in filed => \/ header[d][c] = Listed(d, c)
                             \/ header[d][c] = <<>> /\ held[d][c] = 1

\* The files of each drive, with everything else left out, are those of a store
\* in which only the open file changes and filed chunks are final: no stale
\* pointer, failed rename, failed fopen or change of the drives breaks that.
Filed(d) == {x[2] : x \in {f \in filed : f[1] = d}}
Staged(d) == {x[2] : x \in {f \in staged : f[1] = d}}
ChmStore == INSTANCE ChunkStore WITH open <- fp[1], size <- held[1], index <- header[1],
                                     staged <- Staged(1), filed <- Filed(1)
SsdStore == INSTANCE ChunkStore WITH open <- fp[2], size <- held[2], index <- header[2],
                                     staged <- Staged(2), filed <- Filed(2)
StoreSpec == ChmStore!Spec /\ SsdStore!Spec

\* What metadata_recording_thread assumes of the pointers it asks for the
\* offset: the first active one tells the offset in every copy.
FirstPointerIsOk ==
  pc = "loop" => \A d \in used : fp[d] # 0 /\ index # <<>> => pos = held[d][fp[d]]
=============================================================================
