------------------------------ MODULE Download ------------------------------
(* A video download of the recording agent (ra_download.c): the handler of *)
(* a PTC download request, or the program access_data, collects the chunks *)
(* of one camera from a drive in a destination directory, describes them   *)
(* in metadata.xml, packs the directory into a zip archive and encrypts    *)
(* it.  The agent tries the removable SSD first and the CHM when that      *)
(* fails; any step may fail.  Meanwhile chunks are recorded and groomed.   *)
(*                                                                         *)
(* A chunk is named by its time; chunk t covers the time from t to t + 1.  *)
(* External: retrive_data and make_filepath (the search for chunks),       *)
(* encrypt_file, the commands rm and zip, and the processes that write and *)
(* groom the drives.                                                       *)
EXTENDS Integers, Sequences, FiniteSetsExt

CONSTANTS
  MaxTime,          \* times are 1 .. MaxTime
  Locations,        \* destination directories
  StageLocations,   \* VIDEO_DOWNLOAD_STAGE_LOCATION and its backup
  Unreadable,       \* chunks whose header cannot be read (empty files)
  Untimed,          \* chunks whose header has no valid time source
  Offset,           \* timeoffset_sec_m in the header of each chunk
  CurrentOffset,    \* get_timeoffset()
  Faults            \* which steps may fail

ASSUME MaxTimeAssumption == MaxTime \in Nat \ {0}

ASSUME OffsetAssumption == Offset \in [1 .. MaxTime -> Int] /\ CurrentOffset \in Int

ASSUME LocationsAssumption == StageLocations \subseteq Locations

VARIABLES
  now,              \* the time of the newest chunk recorded
  disk,             \* the chunks of the camera on each drive
  dir,              \* the contents of each destination directory
  pc,               \* the next step of the download
  range,            \* start_time and end_time of the download message
  todo,             \* the drives still to be tried, the current one first
  loc,              \* the directory of the request
  found,            \* data.chunk, which is in the order of time
  left,             \* the chunks the copying loop has still to visit
  meta,             \* what metadata.xml says so far
  offsets,          \* first_chunk_offset and last_chunk_offset
  handles,          \* those of meta_fp and temp_hash_fp that are open
  starttimeoffset,  \* the global of this name
  status            \* *status

vars == <<now, disk, dir, pc, range, todo, loc, found, left, meta, offsets,
          handles, starttimeoffset, status>>

driveVars   == <<now, disk>>
dirVars     == <<now, disk, dir>>
attemptVars == <<found, left, meta, offsets>>

Drives == {"SSD", "CHM"}

Time == 1 .. MaxTime

\* The files of a directory that are neither chunks nor archives.
Names == {"metadata.xml", "temp_hash", "metadata.dat", "snapshot", "foreign"}

Statuses == {"OK_FULL", "FAILURE", "INTERNAL_ERR", "RANGE_ERR", "SIZE_ERR"}

\* The metadata: the chunks it lists, its closed segments, whether one is open,
\* segment.start_time and the start time offset.
Meta == [listed : SUBSET Time, segments : SUBSET (Int \X Int), open : BOOLEAN,
         start : Int, offset : Int]

NoMeta == [listed |-> {}, segments |-> {}, open |-> FALSE, start |-> 0, offset |-> 0]

NoOffsets == [first |-> 0, last |-> 0]

\* What a directory or an archive holds; meta is the text of metadata.dat.
Content == [chunks : SUBSET Time, files : SUBSET Names, meta : Meta]

Empty == [chunks |-> {}, files |-> {}, meta |-> NoMeta]

\* A directory: its plain files, <name>.lvdat.zip and <name>.lvdat.
Directory == [here : Content, zip : Content, lvdat : Content]

EmptyDir == [here |-> Empty, zip |-> Empty, lvdat |-> Empty]

Init ==
  /\ now \in Time
  /\ disk \in [Drives -> SUBSET (1 .. now)]
  /\ dir = [l \in Locations |->
              IF l \in StageLocations THEN EmptyDir
                                      ELSE [EmptyDir EXCEPT !.here.files = {"foreign"}]]
  /\ pc = "idle"
  /\ range = <<1, 1>>
  /\ todo = <<>>
  /\ loc \in Locations
  /\ found = {} /\ left = {}
  /\ meta = NoMeta /\ offsets = NoOffsets
  /\ handles = {}
  /\ starttimeoffset = 0
  /\ status = "FAILURE"

----------------------------------------------------------------------------
(* The request and its attempts.                                           *)

Ranges == Time \X Time

\* do_download tries both drives; access_data the one it is told.
Plans == {<<"SSD", "CHM">>, <<"SSD">>, <<"CHM">>}

\* An attempt begins: perform_download clears its variables.
Begin ==
  /\ pc' = "validate"
  /\ status' = "FAILURE"
  /\ found' = {} /\ left' = {}
  /\ meta' = NoMeta /\ offsets' = NoOffsets

Request(l, r, plan) ==
  /\ pc = "idle"
  /\ Begin
  /\ range' = r
  /\ loc' = l
  /\ todo' = plan
  /\ UNCHANGED <<driveVars, dir, handles, starttimeoffset>>

\* Mutant: the drive that failed is tried again.
TryNext_SameDrive(s) ==
  /\ todo' = todo
  /\ Begin
  /\ UNCHANGED <<driveVars, loc>>

\* do_download: when perform_download fails the next drive is tried with the
\* same message; the last failure is reported.
TryNext(s) ==
  /\ todo' = Tail(todo)
  /\ IF Len(todo) > 1
       THEN Begin
       ELSE pc' = "reply" /\ status' = s /\ UNCHANGED attemptVars
  /\ UNCHANGED <<driveVars, loc>>

\* Mutant: temp_hash_fp is forgotten.
cleanup_MetaOnly == handles \ {"meta"}

\* cleanup: what is open after it.
cleanup == {}

Fail(s) == handles' = cleanup /\ TryNext(s)

\* Mutant: no directory is emptied.
clean_download_dir_ArchivesOnly(l) == [dir[l] EXCEPT !.lvdat = Empty]

\* clean_download_dir: a staging directory is emptied, of any other only
\* the archives are removed.
clean_download_dir(l) ==
  IF l \in StageLocations
    THEN EmptyDir
    ELSE [dir[l] EXCEPT !.lvdat = Empty]

\* validate_destination: the directory exists, could be cleaned and has
\* DOWNLOAD_MIN_STORAGE_LIMIT free.
validate_destination ==
  /\ pc = "validate"
  /\ pc' = "search"
  /\ dir' = [dir EXCEPT ![loc] = clean_download_dir(loc)]
  /\ UNCHANGED <<driveVars, loc, range, todo, attemptVars, handles, starttimeoffset, status>>

ValidateFails ==
  /\ pc = "validate"
  /\ "destination" \in Faults
  /\ \/ dir' = [dir EXCEPT ![loc] = clean_download_dir(loc)]
     \/ UNCHANGED dir
  /\ TryNext("INTERNAL_ERR")
  /\ UNCHANGED <<range, handles, starttimeoffset>>

InRange(d) == {t \in disk[d] : range[1] <= t /\ t <= range[2]}

retrive_data ==
  /\ pc = "search"
  /\ InRange(Head(todo)) # {}
  /\ found' = InRange(Head(todo))
  /\ pc' = "init"
  /\ UNCHANGED <<dirVars, loc, range, todo, left, meta, offsets, handles, starttimeoffset, status>>

\* Nothing is found, or the range is outside of what the drive holds.
SearchFails(s) ==
  /\ pc = "search"
  /\ InRange(Head(todo)) = {}
  /\ TryNext(s)
  /\ UNCHANGED <<dir, range, handles, starttimeoffset>>

----------------------------------------------------------------------------
(* The metadata file and the copies of the chunks.                         *)

Create(names) == [dir EXCEPT ![loc].here.files = @ \cup names]

init_meta_file ==
  /\ pc = "init"
  /\ pc' = "size"
  /\ handles' = handles \cup {"meta", "hash"}
  /\ dir' = Create({"metadata.xml", "temp_hash"})
  /\ UNCHANGED <<driveVars, loc, range, todo, attemptVars, starttimeoffset, status>>

\* The first or the second fopen fails.
InitMetaFails ==
  /\ pc = "init"
  /\ "open" \in Faults
  /\ \E names \in {{}, {"metadata.xml"}} : dir' = Create(names)
  /\ Fail("INTERNAL_ERR")
  /\ UNCHANGED <<range, starttimeoffset>>

\* The chunks found must fit in 60 percent of the free space.  The sum is
\* arbitrary when a chunk is gone, for stat then leaves sb as it was.
SizeIsRight ==
  /\ pc = "size"
  /\ pc' = "copy"
  /\ left' = found
  /\ UNCHANGED <<dirVars, loc, range, todo, found, meta, offsets, handles, starttimeoffset, status>>

SizeIsWrong ==
  /\ pc = "size"
  /\ "size" \in Faults \/ ~ (found \subseteq disk[Head(todo)])
  /\ Fail("SIZE_ERR")
  /\ UNCHANGED <<dir, range, starttimeoffset>>

\* The chunks found after t; data.chunk[].gap: the next one is not adjacent.
After(t) == {u \in found : u > t}

gap(t) == After(t) # {} /\ t + 1 \notin found

\* get_timeoffset_from_chunk_header: the offset a header gives, the current one
\* when it has no valid time source, and old when it cannot be read.  (On x86-64,
\* which make_reagent.sh builds for, a negative offset survives its way through a
\* double and uint64_t.)
HeaderOffset(t) == IF t \in Untimed THEN CurrentOffset ELSE Offset[t]

HeaderRead(t, old) == IF t \in Unreadable THEN old ELSE HeaderOffset(t)

\* The variables of insert_chunk_metadata that chunk t leaves: the first chunk
\* used sets first_chunk_offset, one before a gap sets both, the last one found
\* sets last_chunk_offset.
FirstOffset(t) ==
  IF meta.listed = {} THEN HeaderRead(t, offsets.first) ELSE offsets.first

NextOffset(t) == IF gap(t) THEN HeaderRead(t, FirstOffset(t)) ELSE FirstOffset(t)

LastOffset(t) ==
  IF gap(t) \/ After(t) = {} THEN HeaderRead(t, offsets.last) ELSE offsets.last

\* The segment that the first chunk used opens begins at the first one found.
OpenSegment(m, t) ==
  IF m.listed = {}
    THEN [m EXCEPT !.start = Min(found) - FirstOffset(t), !.open = TRUE]
    ELSE m

\* Mutant: the last segment stays open.
CloseSegment_OnlyAtGap(m, t) ==
  IF gap(t)
    THEN [m EXCEPT !.segments = @ \cup {<<m.start, t + 1 - LastOffset(t)>>},
                   !.start = Min(After(t)) - NextOffset(t)]
    ELSE m

\* Before a gap and at the end the segment is closed, and after a gap the
\* next one is opened, with the offset in the header of the chunk before it.
CloseSegment(m, t) ==
  IF gap(t) \/ After(t) = {}
    THEN [m EXCEPT !.segments = @ \cup {<<m.start, t + 1 - LastOffset(t)>>},
                   !.start = IF gap(t) THEN Min(After(t)) - NextOffset(t) ELSE @,
                   !.open = gap(t)]
    ELSE m

\* The metadata with chunk t.
ListChunk(t) ==
  CloseSegment([OpenSegment(meta, t) EXCEPT !.listed = @ \cup {t}], t)

\* Mutant: the global is only set once.
OffsetRead_Once(t) ==
  IF starttimeoffset # 0 THEN starttimeoffset ELSE HeaderRead(t, starttimeoffset)

\* The first chunk used also sets the global.
OffsetRead(t) ==
  IF meta.listed = {} THEN HeaderRead(t, starttimeoffset) ELSE starttimeoffset

PutChunk(t) == [dir EXCEPT ![loc].here.chunks = @ \cup {t}]

\* The chunk that the loop visits next.
IsNext(t) == pc = "copy" /\ t \in left /\ \A u \in left : t <= u

CopyChunk(t) ==
  /\ IsNext(t)
  /\ t \in disk[Head(todo)]
  /\ left' = left \ {t}
  /\ meta' = ListChunk(t)
  /\ offsets' = [first |-> NextOffset(t), last |-> LastOffset(t)]
  /\ starttimeoffset' = OffsetRead(t)
  /\ dir' = PutChunk(t)
  /\ UNCHANGED <<driveVars, loc, range, todo, found, pc, handles, status>>

\* make_filepath fails for a chunk that is gone, and the loop goes on.
SkipChunk(t) ==
  /\ IsNext(t)
  /\ t \notin disk[Head(todo)]
  /\ left' = left \ {t}
  /\ UNCHANGED <<dirVars, loc, range, todo, found, meta, offsets, pc, handles,
                 starttimeoffset, status>>

\* copy_file fails: the chunk is gone when it is opened, or only a part of it
\* is written.
CopyFails(t) ==
  /\ IsNext(t)
  /\ \/ t \notin disk[Head(todo)] /\ UNCHANGED <<dir, starttimeoffset>>
     \/ /\ "copy" \in Faults
        /\ dir' = PutChunk(t)
        /\ starttimeoffset' = OffsetRead(t)
  /\ Fail("INTERNAL_ERR")
  /\ UNCHANGED range

\* Reading the chunk fails (the drive is pulled out): copy_file, which waits for
\* the end of the file and does not ask for errors, reads again and again.
CopyHangs(t) ==
  /\ IsNext(t)
  /\ "read" \in Faults
  /\ t \in disk[Head(todo)]
  /\ pc' = "spin"
  /\ dir' = PutChunk(t)
  /\ starttimeoffset' = OffsetRead(t)
  /\ UNCHANGED <<driveVars, loc, range, todo, attemptVars, handles, status>>

ReadAgain == pc = "spin" /\ UNCHANGED vars

CopyDone ==
  /\ pc = "copy"
  /\ left = {}
  /\ meta.listed # {}
  /\ pc' = "main"
  /\ UNCHANGED <<dirVars, loc, range, todo, attemptVars, handles, starttimeoffset, status>>

NothingCopied ==
  /\ pc = "copy"
  /\ left = {}
  /\ meta.listed = {}
  /\ Fail("FAILURE")
  /\ UNCHANGED <<dir, range, starttimeoffset>>

----------------------------------------------------------------------------
(* The rest of the metadata and the archive.                               *)

\* insert_maindata narrows the times in the download message to those of the
\* video found.
FoundRange == <<Min(found), Max(found) + 1>>

\* temp_hash has served and is removed, both files are closed and metadata.xml
\* is encrypted.  (The configuration is loaded, so p_minfo is not NULL.)
insert_maindata ==
  /\ pc = "main"
  /\ starttimeoffset' = 0
  /\ handles' = handles \ {"meta", "hash"}
  /\ range' = FoundRange
  /\ meta' = [meta EXCEPT !.offset = starttimeoffset]
  /\ dir' = [dir EXCEPT
       ![loc].here.files = (@ \ {"metadata.xml", "temp_hash"}) \cup {"metadata.dat"},
       ![loc].here.meta = [meta EXCEPT !.offset = starttimeoffset]]
  /\ pc' = "zip"
  /\ UNCHANGED <<driveVars, loc, todo, found, left, offsets, status>>

\* The metadata cannot be encrypted: metadata.xml is removed.
MainDataFails ==
  /\ pc = "main"
  /\ "encrypt" \in Faults
  /\ starttimeoffset' = 0
  /\ range' = FoundRange
  /\ dir' = [dir EXCEPT ![loc].here.files = @ \ {"metadata.xml", "temp_hash"}]
  /\ Fail("INTERNAL_ERR")

\* zip -m moves every file of the directory into the archive, which is
\* extended when it exists.
Zipped(l) ==
  [here  |-> Empty,
   zip   |-> [chunks |-> dir[l].zip.chunks \cup dir[l].here.chunks,
              files  |-> dir[l].zip.files \cup dir[l].here.files,
              meta   |-> dir[l].here.meta],
   lvdat |-> dir[l].lvdat]

zip_files ==
  /\ pc = "zip"
  /\ dir' = [dir EXCEPT ![loc] = Zipped(loc)]
  /\ pc' = "encrypt"
  /\ UNCHANGED <<driveVars, loc, range, todo, attemptVars, handles, starttimeoffset, status>>

\* The archive is encrypted to <name>.lvdat and removed.  (remove of a file the
\* download has just written is taken to work; the code only logs a failure.)
EncryptArchive ==
  /\ pc = "encrypt"
  /\ dir' = [dir EXCEPT ![loc].lvdat = dir[loc].zip, ![loc].zip = Empty]
  /\ pc' = "reply"
  /\ status' = "OK_FULL"
  /\ handles' = cleanup
  /\ UNCHANGED <<driveVars, loc, range, todo, attemptVars, starttimeoffset>>

\* zip or the encryption fails: the directory is cleaned.
ArchiveFails ==
  /\ \/ pc = "zip" /\ "zip" \in Faults
     \/ pc = "encrypt" /\ "encrypt" \in Faults
  /\ dir' = [dir EXCEPT ![loc] = clean_download_dir(loc)]
  /\ Fail("INTERNAL_ERR")
  /\ UNCHANGED <<range, starttimeoffset>>

\* msgcb_download sends the acknowledgement and the status; the variables of the
\* request end with it.
Reply ==
  /\ pc = "reply"
  /\ pc' = "idle"
  /\ range' = <<1, 1>>
  /\ todo' = <<>>
  /\ found' = {} /\ left' = {}
  /\ meta' = NoMeta /\ offsets' = NoOffsets
  /\ status' = "FAILURE"
  /\ UNCHANGED <<dirVars, loc, handles, starttimeoffset>>

----------------------------------------------------------------------------
\* get_snapshot: its destination is the path of a file, so what it cleans is
\* no directory and nothing is removed.
get_snapshot(l) ==
  /\ pc = "idle"
  /\ dir' = [dir EXCEPT ![l].here.files = @ \cup {"snapshot"}]
  /\ UNCHANGED <<driveVars, loc, range, todo, attemptVars, handles, starttimeoffset, status, pc>>

Rest == <<dir, pc, loc, range, todo, attemptVars, handles, starttimeoffset, status>>

\* The recorder of the camera files its next chunk, on the drives in use.
Record(drives) ==
  /\ now < MaxTime
  /\ now' = now + 1
  /\ disk' = [d \in Drives |-> IF d \in drives THEN disk[d] \cup {now + 1} ELSE disk[d]]
  /\ UNCHANGED Rest

\* The space monitor removes the oldest chunk.
Groom(d, t) ==
  /\ t \in disk[d] /\ \A u \in disk[d] : t <= u
  /\ disk' = [disk EXCEPT ![d] = @ \ {t}]
  /\ UNCHANGED <<now, Rest>>

\* One step of the download in progress.
Step ==
  \/ validate_destination \/ ValidateFails
  \/ retrive_data \/ \E s \in {"FAILURE", "RANGE_ERR"} : SearchFails(s)
  \/ init_meta_file \/ InitMetaFails
  \/ SizeIsRight \/ SizeIsWrong
  \/ \E t \in Time : CopyChunk(t) \/ SkipChunk(t) \/ CopyFails(t) \/ CopyHangs(t)
  \/ CopyDone \/ NothingCopied
  \/ insert_maindata \/ MainDataFails
  \/ zip_files \/ EncryptArchive \/ ArchiveFails
  \/ Reply

Next ==
  \/ \E l \in Locations, r \in Ranges, plan \in Plans : Request(l, r, plan)
  \/ \E l \in Locations : get_snapshot(l)
  \/ Step
  \/ ReadAgain
  \/ \E drives \in SUBSET Drives : Record(drives)
  \/ \E d \in Drives, t \in Time : Groom(d, t)

Spec == Init /\ [][Next]_vars

\* The handler goes on: the commands it waits for return.  (ReadAgain, the loop
\* of copy_file after a read error, is no progress.)
FairSpec == Spec /\ WF_vars(Step)

----------------------------------------------------------------------------
(* Properties.                                                             *)

\* Every variable keeps its type; the handles are those of the two files.
TypeOK ==
  /\ now \in Time
  /\ disk \in [Drives -> SUBSET (1 .. now)]
  /\ dir \in [Locations -> Directory]
  /\ pc \in {"idle", "validate", "search", "init", "size", "copy", "main", "zip",
             "encrypt", "reply", "spin"}
  /\ range \in Time \X (1 .. MaxTime + 1)
  /\ todo \in Seq(Drives)
  /\ loc \in Locations
  /\ found \in SUBSET Time /\ left \in SUBSET found
  /\ meta \in Meta /\ offsets \in [first : Int, last : Int]
  /\ handles \in SUBSET {"meta", "hash"}
  /\ starttimeoffset \in Int
  /\ status \in Statuses

Succeeded == pc = "reply" /\ status = "OK_FULL"

\* A download from a staging directory that is reported as DOWNLOAD_OK_FULL
\* left an archive with metadata and exactly the chunks its metadata lists,
\* among them every chunk found that the drive still has, whatever earlier
\* attempts and requests left behind (clean_download_dir, ra_download.c:632).
ArchiveIsWhole ==
  Succeeded /\ loc \in StageLocations =>
    LET a == dir[loc].lvdat IN
    /\ a.chunks = a.meta.listed
    /\ a.files = {"metadata.dat"}
    /\ found \cap disk[Head(todo)] \subseteq a.chunks

\* The maximal runs of adjacent times in S.
Runs(S) ==
  {r \in S \X S : r[1] .. r[2] \subseteq S /\ r[1] <= r[2] /\ r[1] - 1 \notin S
                  /\ r[2] + 1 \notin S}

\* The times of a run of chunks, each by the offset in its own header.
SegmentOf(r) == <<r[1] - HeaderOffset(r[1]), r[2] + 1 - HeaderOffset(r[2])>>

\* The headers of the first chunk and of those at the end of a run can be read,
\* and no offset changes across a gap, where the code takes the header of the
\* chunk before the gap for the time of the chunk after it (:994).
OffsetsSuffice ==
  \A t \in found :
    /\ t = Min(found) \/ t + 1 \notin found => t \notin Unreadable
    /\ gap(t) => HeaderOffset(Min(After(t))) = HeaderOffset(t)

\* When no chunk vanished during the download, the segments of the metadata are
\* the runs of video without a gap, in the times that the headers of their first
\* and last chunks give, and none is left open (insert_chunk_metadata, :859).
SegmentsMatch ==
  Succeeded /\ meta.listed = found /\ OffsetsSuffice =>
    meta.segments = {SegmentOf(r) : r \in Runs(found)} /\ ~ meta.open

\* No attempt leaves meta_fp or temp_hash_fp open for the next, on any of the
\* ways it fails (cleanup, :105).
FilesAreClosed == pc \in {"idle", "validate", "reply"} => handles = {}

\* The start time offset in the metadata is that of the first chunk of this
\* download, or the current one if that chunk has none, not one left in the global
\* by an attempt that failed, unless the header of that chunk cannot be read (:130).
OffsetIsOwn ==
  Succeeded => LET t == Min(meta.listed) IN
                 meta.offset = HeaderOffset(t) \/ t \in Unreadable

\* Every request is answered, whichever steps fail on whichever drive, unless a
\* chunk cannot be read while it is copied (copy_file, ra_data_search.c:102).
RequestIsAnswered == pc # "idle" ~> pc \in {"idle", "spin"}

\* Files that the download did not put in a directory stay there: "we cannot
\* blow out the whole directory, only remove *.lvdat files" (:665).
ForeignFilesStay ==
  \A l \in Locations \ StageLocations : "foreign" \in dir[l].here.files

=============================================================================
