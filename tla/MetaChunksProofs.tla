-------------------------- MODULE MetaChunksProofs --------------------------
(***************************************************************************)
(* Safety of the chunk files of metarec, for all hours, chunk sizes and    *)
(* numbers of records and messages, with fopen failing at will.            *)
(***************************************************************************)
EXTENDS MetaChunks, TLAPS

-----------------------------------------------------------------------------
(* Types.                                                                  *)

\* While a record is in hand it has a number and an hour.
RecordInHand == pc \in {"flag", "clear", "chunk", "write"} => taken \in Chunks /\ hour \in Hours

TInv == TypeOK /\ RecordInHand

\* Closing files keeps headers and filed chunks in range.
LEMMA CloseTypes ==
  ASSUME TypeOK, NEW closing \in SUBSET Drives, CloseFiles(closing)
  PROVE  /\ header' \in [Drives -> [Chunks -> Seq(Int)]]
         /\ filed' \subseteq Drives \X Chunks \X (Hours \cup {0})
<1>1. header' \in [Drives -> [Chunks -> Seq(Int)]]
  BY DEF CloseFiles, TypeOK
<1>2. Renamed(closing) \subseteq Drives
  BY DEF Renamed
<1>3. \A d \in Renamed(closing) : <<d, chunk, ClosedUnder>> \in Drives \X Chunks \X (Hours \cup {0})
  <2> TAKE d \in Renamed(closing)
  <2>1. chunk \in Chunks
    BY DEF Renamed, TypeOK
  <2>2. QED
    BY <1>2, <2>1 DEF ClosedUnder, TypeOK
<1>4. QED
  BY <1>1, <1>3 DEF CloseFiles, TypeOK

\* So does metadata_chunk_finalize, with the staging directories and the index.
LEMMA FinalizeTypes ==
  ASSUME TypeOK, Finalize
  PROVE  /\ header' \in [Drives -> [Chunks -> Seq(Int)]]
         /\ filed' \subseteq Drives \X Chunks \X (Hours \cup {0})
         /\ staged' \subseteq Drives \X Chunks
         /\ fp' \in [Drives -> 0 .. MaxRecords]
         /\ index' \in Seq(Int)
         /\ timed' \in BOOLEAN
<1>1. Finalizable \in SUBSET Drives
  BY DEF Finalizable, OpenOn, TypeOK
<1>2. /\ header' \in [Drives -> [Chunks -> Seq(Int)]]
      /\ filed' \subseteq Drives \X Chunks \X (Hours \cup {0})
  BY <1>1, CloseTypes DEF Finalize
<1>3. staged' \subseteq Drives \X Chunks /\ index' \in Seq(Int)
  BY DEF Finalize, TypeOK
<1>4. fp' \in [Drives -> 0 .. MaxRecords]
  BY BoundsAssumption DEF Finalize, TypeOK
<1>5. timed' \in BOOLEAN
  BY Zenon DEF Finalize
<1>6. QED
  BY <1>2, <1>3, <1>4, <1>5

\* The initial states are well typed.
LEMMA InitTypes == Init => TInv
<1> SUFFICES ASSUME Init PROVE TInv
  OBVIOUS
<1>1. /\ taken \in 0 .. MaxRecords /\ chunk \in 0 .. MaxRecords /\ offset \in Offsets
      /\ msgs \in Nat /\ pos \in Int
  BY BoundsAssumption DEF Init, Offsets
<1>2. fp \in [Drives -> 0 .. MaxRecords] /\ out \in [Drives -> 0 .. MaxRecords]
  BY BoundsAssumption DEF Init
<1>3. /\ held \in [Drives -> [Chunks -> Nat]]
      /\ header \in [Drives -> [Chunks -> Seq(Int)]]
      /\ born \in [Chunks -> Hours \cup {0}]
      /\ index \in Seq(Int)
  BY DEF Init
<1>4. /\ flag \in BOOLEAN /\ change \in BOOLEAN /\ seen \in BOOLEAN /\ updated \in BOOLEAN
      /\ fresh \in BOOLEAN /\ timed \in BOOLEAN /\ pending \in BOOLEAN /\ due \in BOOLEAN
  BY Zenon DEF Init
<1>5. /\ mode \subseteq Drives /\ used \subseteq Drives /\ prev \subseteq Drives
      /\ steady \subseteq Drives /\ dirs \subseteq Drives \X Hours
      /\ staged \subseteq Drives \X Chunks
      /\ filed \subseteq Drives \X Chunks \X (Hours \cup {0})
      /\ hour \in Hours \cup {0} /\ prevHour \in Hours \cup {0} /\ subpath \in Hours \cup {0}
      /\ pc = "loop"
  BY DEF Init
<1>6. QED
  BY <1>1, <1>2, <1>3, <1>4, <1>5 DEF TInv, TypeOK, RecordInHand

\* The PTC messages keep the types.
LEMMA PtcTypes == TInv /\ PtcStep => TInv'
<1> SUFFICES ASSUME TInv, PtcStep PROVE TInv'
  OBVIOUS
<1>1. mode' \subseteq Drives /\ offset' \in Offsets /\ msgs' \in Nat
  BY DEF PtcStep, ReadyStatus, Shutdown, TimeInfo, TInv, TypeOK
<1>2. flag' \in BOOLEAN /\ pending' \in BOOLEAN
  BY Zenon DEF PtcStep, ReadyStatus, Shutdown, TimeInfo, TInv, TypeOK
<1>3. UNCHANGED <<pc, taken, hour, change, used, seen, prev, updated, fresh, prevHour, subpath,
                  chunk, timed, fp, out, index, pos, dirs, staged, filed, held, header, born,
                  steady, due>>
  BY DEF PtcStep, driveVars, descVars, diskVars
<1>4. TypeOK'
  BY <1>1, <1>2, <1>3, SMTT(30) DEF TInv, TypeOK
<1>5. RecordInHand'
  BY <1>3 DEF TInv, RecordInHand
<1>6. QED
  BY <1>4, <1>5 DEF TInv

\* Taking a record keeps the types.
LEMMA TakeRecordTypes == \A h \in Hours : TInv /\ TakeRecord(h) => TInv'
<1> SUFFICES ASSUME NEW h \in Hours, TInv, TakeRecord(h) PROVE TInv'
  OBVIOUS
<1>1. /\ taken' \in Chunks /\ taken' \in 0 .. MaxRecords /\ hour' = h
      /\ prev' \subseteq Drives /\ pc' = "flag"
  BY BoundsAssumption DEF TakeRecord, TInv, TypeOK, Chunks
<1>2. updated' \in BOOLEAN /\ seen' \in BOOLEAN /\ due' \in BOOLEAN
  BY Zenon DEF TakeRecord, TInv, TypeOK
<1>3. /\ header' \in [Drives -> [Chunks -> Seq(Int)]]
      /\ filed' \subseteq Drives \X Chunks \X (Hours \cup {0})
      /\ staged' \subseteq Drives \X Chunks
      /\ fp' \in [Drives -> 0 .. MaxRecords]
      /\ index' \in Seq(Int)
      /\ timed' \in BOOLEAN
      /\ used' \subseteq Drives
  <2>1. CASE updated'
    BY <2>1, FinalizeTypes DEF TakeRecord, TInv, TypeOK
  <2>2. CASE ~updated'
    BY <2>2 DEF TakeRecord, TInv, TypeOK
  <2>3. QED
    BY <2>1, <2>2
<1>4. steady' \subseteq Drives
  BY <1>3 DEF TakeRecord
<1>5. QED
  BY <1>1, <1>2, <1>3, <1>4 DEF TakeRecord, TInv, TypeOK, RecordInHand, ptcVars

\* Reading and clearing the flag keep the types.
LEMMA FlagTypes == TInv /\ (ReadFlag \/ ClearFlag) => TInv'
<1> SUFFICES ASSUME TInv, ReadFlag \/ ClearFlag PROVE TInv'
  OBVIOUS
<1>1. change' \in BOOLEAN /\ flag' \in BOOLEAN
  BY Zenon DEF ReadFlag, ClearFlag, TInv, TypeOK, ptcVars
<1>2. QED
  BY <1>1, SMTT(30) DEF ReadFlag, ClearFlag, TInv, TypeOK, RecordInHand, ptcVars, driveVars, descVars,
              diskVars, history

\* get_metadata_chunk_file keeps the types.
LEMMA ChunkFileTypes == TInv /\ ChunkFile => TInv'
<1> SUFFICES ASSUME TInv, ChunkFile PROVE TInv'
  OBVIOUS
<1>1. taken \in Chunks /\ hour \in Hours
  BY DEF ChunkFile, TInv, RecordInHand
<1>2. CASE NewChunkRequired
  <2>0. NewChunk
    BY <1>2 DEF ChunkFile
  <2>1. OpenOn(used) \in SUBSET Drives
    BY DEF OpenOn, TInv, TypeOK
  <2>2. /\ header' \in [Drives -> [Chunks -> Seq(Int)]]
        /\ filed' \subseteq Drives \X Chunks \X (Hours \cup {0})
    BY <2>0, <2>1, CloseTypes DEF NewChunk, TInv
  <2>3. /\ index' \in Seq(Int) /\ pos' \in Int /\ chunk' \in 0 .. MaxRecords
        /\ born' \in [Chunks -> Hours \cup {0}]
    BY <2>0, <1>1 DEF NewChunk, TInv, TypeOK
  <2>4. /\ timed' \in BOOLEAN /\ fresh' \in BOOLEAN /\ updated' \in BOOLEAN
        /\ pending' \in BOOLEAN /\ due' \in BOOLEAN
    BY <2>0, Zenon DEF NewChunk
  <2>5. /\ prevHour' \in Hours \cup {0} /\ subpath' \in Hours \cup {0}
        /\ dirs' \subseteq Drives \X Hours
    BY <2>0, <1>1 DEF NewChunk, PrepareSubpath, TInv, TypeOK
  <2>6. PICK failed :
          /\ fp' = [d \in Drives |-> IF d \notin used THEN fp[d]
                                     ELSE IF d \in failed THEN 0 ELSE taken]
          /\ out' = [d \in Drives |-> IF d \in used THEN fp'[d] ELSE out[d]]
          /\ staged' = (staged \ {<<d, chunk>> : d \in Renamed(OpenOn(used))})
                         \cup {<<d, taken>> : d \in used \ failed}
    BY <2>0, Zenon DEF NewChunk
  <2>7. fp' \in [Drives -> 0 .. MaxRecords]
    BY <2>6, BoundsAssumption DEF TInv, TypeOK
  <2>8. out' \in [Drives -> 0 .. MaxRecords]
    BY <2>6, <2>7 DEF TInv, TypeOK
  <2>9. staged' \subseteq Drives \X Chunks
    BY <2>6, <1>1 DEF TInv, TypeOK
  <2>10. QED
    BY <2>2, <2>3, <2>4, <2>5, <2>7, <2>8, <2>9, <1>1
       DEF ChunkFile, TInv, TypeOK, RecordInHand, ptcVars, driveVars
<1>3. CASE ~NewChunkRequired
  <2>1. timed' \in BOOLEAN
    BY <1>3, Zenon DEF ChunkFile
  <2>2. QED
    BY <1>3, <1>1, <2>1 DEF ChunkFile, TInv, TypeOK, RecordInHand, ptcVars, driveVars
<1>4. QED
  BY <1>2, <1>3

\* Writing a record keeps the types.
LEMMA WriteRecordTypes == TInv /\ WriteRecord => TInv'
<1> SUFFICES ASSUME TInv, WriteRecord PROVE TInv'
  OBVIOUS
<1>1. held' \in [Drives -> [Chunks -> Nat]]
  BY DEF WriteRecord, TInv, TypeOK
<1>2. index' \in Seq(Int)
  BY DEF WriteRecord, TInv, TypeOK
<1>3. ASSUME NEW d \in Drives, out[d] # 0
      PROVE  Told(d) \subseteq Int
  <2>1. out[d] \in Chunks
    BY <1>3, BoundsAssumption DEF TInv, TypeOK, Chunks
  <2>2. held[d][out[d]] \in Int /\ held'[d][out[d]] \in Int
    BY <2>1, <1>1 DEF TInv, TypeOK
  <2>3. QED
    BY <2>2 DEF Told
<1>4. pos' \in Int
  BY <1>3 DEF WriteRecord, TInv, TypeOK, Drives
<1>5. QED
  BY <1>1, <1>2, <1>4, ZenonT(60) DEF WriteRecord, TInv, TypeOK, RecordInHand, ptcVars, driveVars,
                         descVars, history

\* The thread without a record, and its end, keep the types.
LEMMA IdleTypes == TInv /\ (Nap \/ Expire \/ Finish) => TInv'
<1> SUFFICES ASSUME TInv, Nap \/ Expire \/ Finish PROVE TInv'
  OBVIOUS
<1>1. CASE Nap
  <2>1. timed' \in BOOLEAN
    BY <1>1, Zenon DEF Nap
  <2>2. QED
    BY <1>1, <2>1 DEF Nap, TInv, TypeOK, RecordInHand, ptcVars, driveVars, diskVars, history
<1>2. CASE Expire
  <2>1. fresh' \in BOOLEAN
    BY <1>2, Zenon DEF Expire
  <2>2. out' \in [Drives -> 0 .. MaxRecords]
    BY <1>2, BoundsAssumption DEF Expire
  <2>3. QED
    BY <1>2, <2>1, <2>2, FinalizeTypes, ZenonT(60)
       DEF Expire, TInv, TypeOK, RecordInHand, ptcVars, driveVars, history
<1>3. CASE Finish
  BY <1>3, FinalizeTypes DEF Finish, TInv, TypeOK, RecordInHand, ptcVars, driveVars, history
<1>4. QED
  BY <1>1, <1>2, <1>3

\* A stuttering step keeps the types.
LEMMA StutterTypes == TInv /\ UNCHANGED vars => TInv'
BY DEF TInv, TypeOK, RecordInHand, vars

\* Every step keeps the types.
LEMMA NextTypes == TInv /\ [Next]_vars => TInv'
BY PtcTypes, TakeRecordTypes, FlagTypes, ChunkFileTypes, WriteRecordTypes, IdleTypes,
   StutterTypes DEF Next, ThreadStep, Exited

\* Every variable keeps its type; in particular fp[], out[] and the names of all
\* files are chunks that were opened.
THEOREM ChunksTypeCorrect == Spec => []TypeOK
<1>1. TInv => TypeOK
  BY DEF TInv
<1>2. QED
  BY InitTypes, NextTypes, <1>1, PTL DEF Spec

-----------------------------------------------------------------------------
(* The time-change flag.                                                   *)

\* A change that no chunk reflects yet is in the flag, or was read from it.
ChangeRemembered ==
  /\ pending => flag \/ (pc = "chunk" /\ change)
  /\ pc = "clear" => change

\* The same of a change the record in hand comes after.
DueRemembered ==
  /\ pc = "flag" /\ due => flag
  /\ pc = "chunk" /\ due => change
  /\ pc = "write" => ~due

FlagInv == ChangeRemembered /\ DueRemembered

\* No step forgets a forward time change.
LEMMA FlagStep == TInv /\ FlagInv /\ [Next]_vars => FlagInv'
<1> SUFFICES ASSUME TInv, FlagInv, [Next]_vars PROVE FlagInv'
  OBVIOUS
<1> USE DEF FlagInv, ChangeRemembered, DueRemembered
<1>1. CASE PtcStep
  <2>1. /\ pending' => pending \/ flag'
        /\ flag => flag'
    <3>1. CASE \E o \in Offsets : TimeInfo(o)
      BY <3>1, Zenon DEF TimeInfo
    <3>2. CASE ~\E o \in Offsets : TimeInfo(o)
      BY <1>1, <3>2 DEF PtcStep, ReadyStatus, Shutdown
    <3>3. QED
      BY <3>1, <3>2
  <2>2. UNCHANGED <<pc, change, due>>
    BY <1>1 DEF PtcStep
  <2>3. QED
    BY <2>1, <2>2, Zenon
<1>2. ASSUME NEW h \in Hours, TakeRecord(h) PROVE FlagInv'
  BY <1>2 DEF TakeRecord, ptcVars
<1>3. CASE ReadFlag
  BY <1>3 DEF ReadFlag, ptcVars, history
<1>4. CASE ClearFlag
  BY <1>4 DEF ClearFlag, history
<1>5. CASE ChunkFile
  <2>1. CASE NewChunkRequired
    BY <1>5, <2>1 DEF ChunkFile, NewChunk, ptcVars
  <2>2. CASE ~NewChunkRequired
    BY <1>5, <2>2 DEF ChunkFile, NewChunkRequired, ptcVars
  <2>3. QED
    BY <2>1, <2>2
<1>6. CASE WriteRecord
  BY <1>6 DEF WriteRecord, ptcVars, history
<1>7. CASE Nap \/ Expire \/ Finish
  BY <1>7 DEF Nap, Expire, Finish, ptcVars, history
<1>8. CASE UNCHANGED vars
  BY <1>8 DEF vars
<1>9. QED
  BY <1>1, <1>2, <1>3, <1>4, <1>5, <1>6, <1>7, <1>8 DEF Next, ThreadStep, Exited

\* Although has_forward_time_change_occurred and update_forward_time_change_status
\* are two critical sections, every record taken after a forward time change is
\* written to a chunk that was opened after it.
THEOREM ForwardChangeStartsChunkAlways == Spec => []ForwardChangeStartsChunk
<1>1. Init => FlagInv
  BY DEF Init, FlagInv, ChangeRemembered, DueRemembered
<1>2. FlagInv => ForwardChangeStartsChunk
  BY DEF FlagInv, DueRemembered, ForwardChangeStartsChunk
<1>3. QED
  BY InitTypes, NextTypes, FlagStep, <1>1, <1>2, PTL DEF Spec

-----------------------------------------------------------------------------
(* The pointers the recording thread keeps.                                *)

PointersGood == \A d \in used : out[d] # 0 => out[d] = fp[d]

\* Between a change of the drives and the new chunk it demands the pointers may
\* be stale; drive_status_updated is set then.
PointerInv ==
  /\ pc \in {"loop", "write"} => PointersGood
  /\ pc \in {"flag", "clear", "chunk"} => updated \/ PointersGood

\* Every step keeps the pointers good, or leads to a new chunk.
LEMMA PointerStep == TInv /\ PointerInv /\ [Next]_vars => PointerInv'
<1> SUFFICES ASSUME TInv, PointerInv, [Next]_vars PROVE PointerInv'
  OBVIOUS
<1> USE DEF PointerInv, PointersGood
<1>1. CASE PtcStep
  BY <1>1 DEF PtcStep, driveVars, descVars
<1>2. ASSUME NEW h \in Hours, TakeRecord(h) PROVE PointerInv'
  BY <1>2 DEF TakeRecord
<1>3. CASE ReadFlag \/ ClearFlag
  BY <1>3 DEF ReadFlag, ClearFlag, driveVars, descVars
<1>4. CASE ChunkFile
  <2>1. CASE NewChunkRequired
    <3>1. \A d \in used : out'[d] = fp'[d]
      BY <1>4, <2>1 DEF ChunkFile, NewChunk, TInv, TypeOK
    <3>2. QED
      BY <1>4, <3>1 DEF ChunkFile, driveVars
  <2>2. CASE ~NewChunkRequired
    BY <1>4, <2>2 DEF ChunkFile, NewChunkRequired, driveVars
  <2>3. QED
    BY <2>1, <2>2
<1>5. CASE WriteRecord
  BY <1>5 DEF WriteRecord, driveVars, descVars
<1>6. CASE Nap
  BY <1>6 DEF Nap, driveVars
<1>7. CASE Expire
  BY <1>7 DEF Expire, driveVars, TInv, TypeOK
<1>8. CASE Finish
  BY <1>8 DEF Finish
<1>9. CASE UNCHANGED vars
  BY <1>9 DEF vars
<1>10. QED
  BY <1>1, <1>2, <1>3, <1>4, <1>5, <1>6, <1>7, <1>8, <1>9 DEF Next, ThreadStep, Exited

\* write_metadata never writes through a pointer whose file was closed.
THEOREM WritesHitOpenFileAlways == Spec => []WritesHitOpenFile
<1>1. Init => PointerInv
  BY DEF Init, PointerInv, PointersGood
<1>2. PointerInv => WritesHitOpenFile
  BY DEF PointerInv, PointersGood, WritesHitOpenFile
<1>3. QED
  BY InitTypes, NextTypes, PointerStep, <1>1, <1>2, PTL DEF Spec

-----------------------------------------------------------------------------
(* The staging and the hour directories.                                   *)

SteadyUsed == steady \subseteq used

\* The open file of such a drive is the chunk opened last.
OpenIsLatest == \A d \in steady : fp[d] # 0 => fp[d] = chunk

\* The directory a chunk will be renamed to is there.
PathIsThere == \A d \in steady : subpath # 0 => <<d, subpath>> \in dirs

StagingInv == SteadyUsed /\ OpenIsLatest /\ PathIsThere /\ NothingLeftBehind

\* Closing files on any set of drives in use leaves nothing of them in staging.
LEMMA ClosedAreRenamed ==
  ASSUME TInv, StagingInv, NEW closing \in SUBSET used,
         \A d \in closing : fp[d] # 0,
         NEW d \in steady \cap closing, NEW c \in Chunks, <<d, c>> \in staged
  PROVE  c = chunk /\ d \in Renamed(closing)
<1>1. fp[d] = c
  BY DEF StagingInv, NothingLeftBehind
<1>2. c = chunk
  BY <1>1 DEF StagingInv, OpenIsLatest
<1>3. QED
  BY <1>2 DEF Renamed, ClosedUnder, StagingInv, PathIsThere

\* After finalization only open files are in staging, on a drive in steady use.
LEMMA FinalizeKeepsStaging ==
  ASSUME TInv, StagingInv, Finalize, NEW d \in steady, NEW c \in Chunks, <<d, c>> \in staged'
  PROVE  fp'[d] = c
<1>1. Finalizable \subseteq used /\ \A e \in Finalizable : fp[e] # 0
  BY DEF Finalizable, OpenOn
<1>2. <<d, c>> \in staged
  BY DEF Finalize
<1>3. d \notin Finalizable
  BY <1>1, <1>2, ClosedAreRenamed DEF Finalize
<1>4. QED
  BY <1>2, <1>3 DEF Finalize, StagingInv, NothingLeftBehind, SteadyUsed, TInv, TypeOK

\* And a file that is still open is the latest chunk.
LEMMA FinalizeKeepsLatest ==
  ASSUME TInv, StagingInv, Finalize, NEW d \in steady, fp'[d] # 0
  PROVE  fp'[d] = chunk
BY DEF Finalize, StagingInv, OpenIsLatest, TInv, TypeOK

\* A new chunk keeps the staging directories right.
LEMMA NewChunkKeepsStaging ==
  ASSUME TInv, StagingInv, NewChunk, UNCHANGED <<used, steady>>, taken \in Chunks
  PROVE  StagingInv'
<1>1. PICK failed :
        /\ fp' = [d \in Drives |-> IF d \notin used THEN fp[d]
                                   ELSE IF d \in failed THEN 0 ELSE taken]
        /\ staged' = (staged \ {<<d, chunk>> : d \in Renamed(OpenOn(used))})
                       \cup {<<d, taken>> : d \in used \ failed}
  BY Zenon DEF NewChunk
<1>2. SteadyUsed'
  BY DEF StagingInv, SteadyUsed
<1>3. OpenIsLatest'
  BY <1>1 DEF OpenIsLatest, StagingInv, SteadyUsed, NewChunk, TInv, TypeOK
<1>4. PathIsThere'
  BY DEF PathIsThere, StagingInv, SteadyUsed, NewChunk, PrepareSubpath
<1>5. NothingLeftBehind'
  <2> SUFFICES ASSUME NEW d \in steady, NEW c \in Chunks, <<d, c>> \in staged'
               PROVE  fp'[d] = c
    BY DEF NothingLeftBehind
  <2>1. d \in used /\ d \in Drives
    BY DEF StagingInv, SteadyUsed, TInv, TypeOK
  <2>2. CASE \E e \in used \ failed : <<d, c>> = <<e, taken>>
    BY <1>1, <2>1, <2>2
  <2>3. CASE <<d, c>> \in staged /\ <<d, c>> \notin {<<e, chunk>> : e \in Renamed(OpenOn(used))}
    <3>1. fp[d] = c
      BY <2>3 DEF StagingInv, NothingLeftBehind
    <3>2. d \in OpenOn(used)
      BY <3>1, <2>1, BoundsAssumption DEF OpenOn, Chunks
    <3>3. OpenOn(used) \subseteq used /\ \A e \in OpenOn(used) : fp[e] # 0
      BY DEF OpenOn
    <3>4. c = chunk /\ d \in Renamed(OpenOn(used))
      BY <2>3, <3>2, <3>3, ClosedAreRenamed
    <3>5. QED
      BY <2>3, <3>4
  <2>4. QED
    BY <1>1, <2>2, <2>3
<1>6. QED
  BY <1>2, <1>3, <1>4, <1>5 DEF StagingInv

\* So does every step.
LEMMA StagingStep == TInv /\ StagingInv /\ [Next]_vars => StagingInv'
<1> SUFFICES ASSUME TInv, StagingInv, [Next]_vars PROVE StagingInv'
  OBVIOUS
<1>1. CASE PtcStep
  BY <1>1 DEF PtcStep, StagingInv, SteadyUsed, OpenIsLatest, PathIsThere, NothingLeftBehind,
              driveVars, descVars, diskVars
<1>2. ASSUME NEW h \in Hours, TakeRecord(h) PROVE StagingInv'
  <2>1. SteadyUsed' /\ steady' \subseteq steady /\ UNCHANGED <<chunk, subpath, dirs>>
    BY <1>2 DEF TakeRecord, SteadyUsed
  <2>2. CASE updated'
    <3>1. Finalize
      BY <1>2, <2>2 DEF TakeRecord
    <3>2. OpenIsLatest' /\ NothingLeftBehind'
      BY <2>1, <3>1, FinalizeKeepsStaging, FinalizeKeepsLatest
         DEF OpenIsLatest, NothingLeftBehind
    <3>3. QED
      BY <2>1, <3>2 DEF StagingInv, PathIsThere
  <2>3. CASE ~updated'
    BY <1>2, <2>1, <2>3 DEF TakeRecord, StagingInv, OpenIsLatest, PathIsThere, NothingLeftBehind
  <2>4. QED
    BY <2>2, <2>3
<1>3. CASE ReadFlag \/ ClearFlag
  BY <1>3 DEF ReadFlag, ClearFlag, StagingInv, SteadyUsed, OpenIsLatest, PathIsThere,
              NothingLeftBehind, driveVars, descVars, diskVars, history
<1>4. CASE ChunkFile
  <2>1. taken \in Chunks /\ UNCHANGED <<used, steady>>
    BY <1>4 DEF ChunkFile, TInv, RecordInHand, driveVars
  <2>2. CASE NewChunkRequired
    BY <1>4, <2>1, <2>2, NewChunkKeepsStaging DEF ChunkFile
  <2>3. CASE ~NewChunkRequired
    BY <1>4, <2>1, <2>3 DEF ChunkFile, StagingInv, SteadyUsed, OpenIsLatest, PathIsThere,
                            NothingLeftBehind
  <2>4. QED
    BY <2>2, <2>3
<1>5. CASE WriteRecord \/ Nap
  BY <1>5 DEF WriteRecord, Nap, StagingInv, SteadyUsed, OpenIsLatest, PathIsThere,
              NothingLeftBehind, driveVars, descVars, diskVars, history
<1>6. CASE Expire \/ Finish
  <2>1. Finalize /\ UNCHANGED <<used, steady, chunk, subpath, dirs>>
    BY <1>6 DEF Expire, Finish, driveVars, history
  <2>2. OpenIsLatest' /\ NothingLeftBehind'
    BY <2>1, FinalizeKeepsStaging, FinalizeKeepsLatest DEF OpenIsLatest, NothingLeftBehind
  <2>3. QED
    BY <2>1, <2>2 DEF StagingInv, SteadyUsed, PathIsThere
<1>7. CASE UNCHANGED vars
  BY <1>7 DEF vars, StagingInv, SteadyUsed, OpenIsLatest, PathIsThere, NothingLeftBehind
<1>8. QED
  BY <1>1, <1>2, <1>3, <1>4, <1>5, <1>6, <1>7 DEF Next, ThreadStep, Exited

\* At the start staging is empty.
LEMMA InitStaging == Init => StagingInv
BY DEF Init, StagingInv, SteadyUsed, OpenIsLatest, PathIsThere, NothingLeftBehind

\* Every closed chunk of a drive that was in use all the time has left the
\* staging directory, even when its finalization was skipped at duration 0.
THEOREM NothingLeftBehindAlways == Spec => []NothingLeftBehind
<1>1. StagingInv => NothingLeftBehind
  BY DEF StagingInv
<1>2. QED
  BY InitTypes, NextTypes, InitStaging, StagingStep, <1>1, PTL DEF Spec

-----------------------------------------------------------------------------
(* Chunks and their hours.                                                 *)

\* While some drive was in use all the time, subpath keeps up with prev_tm and
\* is the hour in which the latest chunk was opened.
PathKeepsUp ==
  steady # {} => /\ subpath = prevHour
                 /\ chunk \in Chunks => subpath = born[chunk]

\* Chunks are opened in order, and only opened chunks are filed.
InOrder ==
  /\ chunk <= taken
  /\ pc \in {"flag", "clear", "chunk"} => chunk < taken
  /\ \A d \in Drives, c \in Chunks, h \in Hours \cup {0} : <<d, c, h>> \in filed => c <= chunk

HourInv == PathKeepsUp /\ InOrder /\ FiledUnderItsHour

\* Closing files puts chunks under the hour they were opened in.
LEMMA CloseKeepsHours ==
  ASSUME TInv, HourInv, NEW closing \in SUBSET Drives, CloseFiles(closing),
         NEW d \in Drives, NEW c \in Chunks, NEW h \in Hours \cup {0}, <<d, c, h>> \in filed'
  PROVE  c <= chunk /\ (steady # {} => h = born[c])
<1>1. CASE <<d, c, h>> \in filed
  BY <1>1 DEF HourInv, InOrder, FiledUnderItsHour
<1>2. CASE \E e \in Renamed(closing) : <<d, c, h>> = <<e, chunk, subpath>>
  BY <1>2 DEF HourInv, PathKeepsUp, TInv, TypeOK
<1>3. QED
  BY <1>1, <1>2 DEF CloseFiles, ClosedUnder

\* So does finalization.
LEMMA FinalizeKeepsHours ==
  ASSUME TInv, HourInv, Finalize, UNCHANGED <<chunk, born>>, steady' \subseteq steady
  PROVE  /\ FiledUnderItsHour'
         /\ \A d \in Drives, c \in Chunks, h \in Hours \cup {0} :
              <<d, c, h>> \in filed' => c <= chunk'
<1>1. Finalizable \in SUBSET Drives /\ CloseFiles(Finalizable)
  BY DEF Finalizable, OpenOn, Finalize, TInv, TypeOK
<1>2. QED
  BY <1>1, CloseKeepsHours DEF FiledUnderItsHour

\* A new chunk prepares the path of its own hour.
LEMMA NewChunkKeepsHours ==
  ASSUME TInv, HourInv, SteadyUsed, NewChunk, UNCHANGED <<taken, steady>>,
         taken \in Chunks, hour \in Hours, chunk < taken, pc' = "write"
  PROVE  HourInv'
<1>1. OpenOn(used) \in SUBSET Drives /\ CloseFiles(OpenOn(used))
  BY DEF OpenOn, NewChunk, TInv, TypeOK
<1>2. chunk' = taken /\ born' = [born EXCEPT ![taken] = hour]
  BY DEF NewChunk
<1>3. PathKeepsUp'
  <2> SUFFICES ASSUME steady # {} PROVE subpath' = prevHour' /\ subpath' = born'[chunk']
    BY DEF PathKeepsUp
  <2>1. born'[chunk'] = hour
    BY <1>2 DEF TInv, TypeOK
  <2>2. used # {}
    BY DEF SteadyUsed
  <2>3. subpath' = hour /\ prevHour' = hour
    BY <2>2 DEF NewChunk, PrepareSubpath, HourInv, PathKeepsUp
  <2>4. QED
    BY <2>1, <2>3
<1>4. ASSUME NEW d \in Drives, NEW c \in Chunks, NEW h \in Hours \cup {0}, <<d, c, h>> \in filed'
      PROVE  c < taken /\ (steady # {} => h = born'[c])
  <2>1. c <= chunk /\ (steady # {} => h = born[c])
    BY <1>1, <1>4, CloseKeepsHours
  <2>2. c < taken
    BY <2>1, BoundsAssumption DEF Chunks, TInv, TypeOK
  <2>3. QED
    BY <1>2, <2>1, <2>2 DEF TInv, TypeOK, Chunks
<1>5. InOrder'
  <2>1. \A d \in Drives, c \in Chunks, h \in Hours \cup {0} : <<d, c, h>> \in filed' => c <= taken
    BY <1>4 DEF Chunks
  <2>2. QED
    BY <2>1, <1>2 DEF InOrder, Chunks
<1>6. FiledUnderItsHour'
  BY <1>4 DEF FiledUnderItsHour
<1>7. QED
  BY <1>3, <1>5, <1>6 DEF HourInv

\* Every step keeps chunks under their hours.
LEMMA HourStep == TInv /\ SteadyUsed /\ HourInv /\ [Next]_vars => HourInv'
<1> SUFFICES ASSUME TInv, SteadyUsed, HourInv, [Next]_vars PROVE HourInv'
  OBVIOUS
<1>1. CASE PtcStep
  BY <1>1 DEF PtcStep, HourInv, PathKeepsUp, InOrder, FiledUnderItsHour, descVars, diskVars
<1>2. ASSUME NEW h \in Hours, TakeRecord(h) PROVE HourInv'
  <2>1. /\ taken' = taken + 1 /\ pc' = "flag" /\ steady' \subseteq steady
        /\ UNCHANGED <<chunk, subpath, prevHour, born>>
    BY <1>2 DEF TakeRecord
  <2>2. PathKeepsUp' /\ chunk' < taken'
    BY <2>1 DEF HourInv, PathKeepsUp, InOrder, TInv, TypeOK
  <2>3. CASE updated'
    <3>1. Finalize
      BY <1>2, <2>3 DEF TakeRecord
    <3>2. UNCHANGED <<chunk, born>> /\ steady' \subseteq steady
      BY <2>1
    <3>3. /\ FiledUnderItsHour'
          /\ \A d \in Drives, c \in Chunks, k \in Hours \cup {0} :
               <<d, c, k>> \in filed' => c <= chunk'
      BY <3>1, <3>2, FinalizeKeepsHours
    <3>4. chunk' <= taken'
      BY <2>1, <2>2 DEF TInv, TypeOK
    <3>5. InOrder'
      BY <2>2, <3>3, <3>4 DEF InOrder
    <3>6. QED
      BY <2>2, <3>3, <3>5 DEF HourInv
  <2>4. CASE ~updated'
    <3>1. filed' = filed
      BY <1>2, <2>4 DEF TakeRecord
    <3>2. QED
      BY <2>1, <2>2, <3>1 DEF HourInv, InOrder, FiledUnderItsHour, TInv, TypeOK
  <2>5. QED
    BY <2>3, <2>4
<1>3. CASE ReadFlag \/ ClearFlag
  BY <1>3 DEF ReadFlag, ClearFlag, HourInv, PathKeepsUp, InOrder, FiledUnderItsHour,
              descVars, diskVars, history
<1>4. CASE ChunkFile
  <2>1. /\ taken \in Chunks /\ hour \in Hours /\ chunk < taken
        /\ pc' = "write" /\ UNCHANGED <<taken, steady>>
    BY <1>4 DEF ChunkFile, TInv, RecordInHand, HourInv, InOrder
  <2>2. CASE NewChunkRequired
    BY <1>4, <2>1, <2>2, NewChunkKeepsHours DEF ChunkFile
  <2>3. CASE ~NewChunkRequired
    BY <1>4, <2>1, <2>3 DEF ChunkFile, HourInv, PathKeepsUp, InOrder, FiledUnderItsHour
  <2>4. QED
    BY <2>2, <2>3
<1>5. CASE WriteRecord \/ Nap
  BY <1>5 DEF WriteRecord, Nap, HourInv, PathKeepsUp, InOrder, FiledUnderItsHour,
              descVars, diskVars, history
<1>6. CASE Expire \/ Finish
  <2>1. /\ Finalize /\ UNCHANGED <<taken, steady, chunk, subpath, prevHour, born>>
        /\ pc' \in {"loop", "done"}
    BY <1>6 DEF Expire, Finish, history
  <2>2. QED
    BY <2>1, FinalizeKeepsHours DEF HourInv, PathKeepsUp, InOrder
<1>7. CASE UNCHANGED vars
  BY <1>7 DEF vars, HourInv, PathKeepsUp, InOrder, FiledUnderItsHour
<1>8. QED
  BY <1>1, <1>2, <1>3, <1>4, <1>5, <1>6, <1>7 DEF Next, ThreadStep, Exited

\* As long as one drive stays in use a chunk is filed under the hour in which it
\* was opened, on every drive and however the clock is set.
THEOREM FiledUnderItsHourAlways == Spec => []FiledUnderItsHour
<1>1. Init => HourInv
  BY BoundsAssumption DEF Init, HourInv, PathKeepsUp, InOrder, FiledUnderItsHour, Chunks
<1>2. StagingInv => SteadyUsed
  BY DEF StagingInv
<1>3. HourInv => FiledUnderItsHour
  BY DEF HourInv
<1>4. QED
  BY InitTypes, NextTypes, InitStaging, StagingStep, HourStep, <1>1, <1>2, <1>3, PTL DEF Spec

-----------------------------------------------------------------------------
(* The files of each drive as a store.                                     *)

\* A chunk file that was filed is not open.
NoneFiledIsOpen ==
  \A d \in Drives, c \in Chunks, h \in Hours \cup {0} : <<d, c, h>> \in filed => fp[d] # c

\* There are no files of chunks that were not opened.
NoneAhead ==
  \A d \in Drives, c \in Chunks :
    c > chunk => held[d][c] = 0 /\ header[d][c] = <<>> /\ <<d, c>> \notin staged

\* An open file was opened for the latest chunk or before, and has no index.
OpenNotIndexed == \A d \in Drives : fp[d] # 0 => fp[d] <= chunk /\ header[d][fp[d]] = <<>>

\* What is renamed by name is what is closed through the pointer.
RenamesWhatItCloses == \A d \in Drives : fp[d] # 0 /\ <<d, chunk>> \in staged => fp[d] = chunk

StoreInv == NoneFiledIsOpen /\ NoneAhead /\ OpenNotIndexed /\ RenamesWhatItCloses

\* The numbers of chunks and of open files.
LEMMA ChunkNumbers ==
  ASSUME TInv
  PROVE  /\ chunk \in Int
         /\ \A c \in Chunks : c \in Int /\ c # 0
         /\ \A d \in Drives : fp[d] \in Int /\ (fp[d] # 0 => fp[d] \in Chunks)
BY BoundsAssumption DEF TInv, TypeOK, Chunks

\* Closing files writes only headers of open ones.
LEMMA CloseWritesOpenHeaders ==
  ASSUME NEW closing, CloseFiles(closing), NEW d \in Drives, NEW c \in Chunks,
         d \notin closing \/ c # fp[d]
  PROVE  header'[d][c] = header[d][c]
BY DEF CloseFiles

\* And files the latest chunk, on drives whose file is closed.
LEMMA CloseFilesLatest ==
  ASSUME NEW closing, CloseFiles(closing), NEW d, NEW c, NEW h, <<d, c, h>> \in filed'
  PROVE  <<d, c, h>> \in filed \/ (c = chunk /\ d \in Renamed(closing) /\ d \in closing)
BY DEF CloseFiles, Renamed

\* Finalization keeps the store in order.
LEMMA FinalizeKeepsStore ==
  ASSUME TInv, StoreInv, Finalize, UNCHANGED <<held, chunk>>
  PROVE  StoreInv'
<1>n. /\ chunk \in Int
      /\ \A c \in Chunks : c \in Int /\ c # 0
      /\ \A d \in Drives : fp[d] \in Int /\ (fp[d] # 0 => fp[d] \in Chunks)
  BY ChunkNumbers
<1>1. CloseFiles(Finalizable) /\ staged' \subseteq staged
  BY DEF Finalize
<1>2. \A d \in Drives : fp'[d] = IF d \in Finalizable THEN 0 ELSE fp[d]
  BY DEF Finalize
<1>3. NoneFiledIsOpen'
  <2> SUFFICES ASSUME NEW d \in Drives, NEW c \in Chunks, NEW h \in Hours \cup {0},
                      <<d, c, h>> \in filed'
               PROVE  fp'[d] # c
    BY DEF NoneFiledIsOpen
  <2>1. CASE d \in Finalizable
    BY <1>n, <1>2, <2>1
  <2>2. CASE d \notin Finalizable
    <3>1. <<d, c, h>> \in filed
      BY <1>1, <2>2, CloseFilesLatest
    <3>2. QED
      BY <1>2, <2>2, <3>1 DEF StoreInv, NoneFiledIsOpen
  <2>3. QED
    BY <2>1, <2>2
<1>4. NoneAhead'
  <2> SUFFICES ASSUME NEW d \in Drives, NEW c \in Chunks, c > chunk
               PROVE  held[d][c] = 0 /\ header'[d][c] = <<>> /\ <<d, c>> \notin staged'
    BY DEF NoneAhead
  <2>1. fp[d] # c
    BY <1>n DEF StoreInv, OpenNotIndexed
  <2>2. header'[d][c] = header[d][c]
    BY <1>1, <2>1, CloseWritesOpenHeaders
  <2>3. QED
    BY <1>1, <2>2 DEF StoreInv, NoneAhead
<1>5. OpenNotIndexed'
  <2> SUFFICES ASSUME NEW d \in Drives, fp'[d] # 0
               PROVE  fp'[d] <= chunk /\ header'[d][fp'[d]] = <<>>
    BY DEF OpenNotIndexed
  <2>1. d \notin Finalizable /\ fp'[d] = fp[d] /\ fp[d] \in Chunks
    BY <1>n, <1>2
  <2>2. header'[d][fp[d]] = header[d][fp[d]]
    BY <1>1, <2>1, CloseWritesOpenHeaders
  <2>3. QED
    BY <2>1, <2>2 DEF StoreInv, OpenNotIndexed
<1>6. RenamesWhatItCloses'
  BY <1>1, <1>2 DEF StoreInv, RenamesWhatItCloses
<1>7. QED
  BY <1>3, <1>4, <1>5, <1>6 DEF StoreInv

\* What a new chunk does to the files of a drive.
LEMMA NewChunkFiles ==
  ASSUME TInv, NewChunk
  PROVE  \E failed \in SUBSET used :
           /\ \A d \in Drives :
                /\ fp'[d] = IF d \notin used THEN fp[d] ELSE IF d \in failed THEN 0 ELSE taken
                /\ d \in used => out'[d] = fp'[d]
           /\ staged' = (staged \ {<<d, chunk>> : d \in Renamed(OpenOn(used))})
                          \cup {<<d, taken>> : d \in used \ failed}
<1>1. PICK failed \in IF "open" \in Faults THEN SUBSET used ELSE {{}} :
        /\ fp' = [d \in Drives |-> IF d \notin used THEN fp[d]
                                   ELSE IF d \in failed THEN 0 ELSE taken]
        /\ out' = [d \in Drives |-> IF d \in used THEN fp'[d] ELSE out[d]]
        /\ staged' = (staged \ {<<d, chunk>> : d \in Renamed(OpenOn(used))})
                       \cup {<<d, taken>> : d \in used \ failed}
  BY Zenon DEF NewChunk
<1>2. failed \in SUBSET used
  OBVIOUS
<1>3. \A d \in Drives : /\ fp'[d] = IF d \notin used THEN fp[d] ELSE IF d \in failed THEN 0 ELSE taken
                        /\ d \in used => out'[d] = fp'[d]
  BY <1>1
<1>4. QED
  BY <1>1, <1>2, <1>3, Zenon

\* So does a new chunk.
LEMMA NewChunkKeepsStore ==
  ASSUME TInv, InOrder, StoreInv, NewChunk, UNCHANGED held, taken \in Chunks, chunk < taken
  PROVE  StoreInv'
<1>n. /\ chunk \in Int /\ taken \in Int
      /\ \A c \in Chunks : c \in Int /\ c # 0
      /\ \A d \in Drives : fp[d] \in Int /\ (fp[d] # 0 => fp[d] \in Chunks)
  BY ChunkNumbers
<1>1. PICK failed \in SUBSET used :
        /\ \A d \in Drives :
             fp'[d] = IF d \notin used THEN fp[d] ELSE IF d \in failed THEN 0 ELSE taken
        /\ staged' = (staged \ {<<d, chunk>> : d \in Renamed(OpenOn(used))})
                       \cup {<<d, taken>> : d \in used \ failed}
  BY NewChunkFiles, Zenon
<1>2. CloseFiles(OpenOn(used)) /\ chunk' = taken
  BY DEF NewChunk
<1>3. ASSUME NEW d \in Drives, NEW c \in Chunks, c > chunk
      PROVE  held[d][c] = 0 /\ header'[d][c] = <<>> /\ <<d, c>> \notin staged
  <2>1. fp[d] # c
    BY <1>3, <1>n DEF StoreInv, OpenNotIndexed
  <2>2. header'[d][c] = header[d][c]
    BY <1>2, <2>1, CloseWritesOpenHeaders
  <2>3. QED
    BY <1>3, <2>2 DEF StoreInv, NoneAhead
<1>4. NoneFiledIsOpen'
  <2> SUFFICES ASSUME NEW d \in Drives, NEW c \in Chunks, NEW h \in Hours \cup {0},
                      <<d, c, h>> \in filed'
               PROVE  fp'[d] # c
    BY DEF NoneFiledIsOpen
  <2>1. <<d, c, h>> \in filed \/ (c = chunk /\ d \in OpenOn(used))
    BY <1>2, CloseFilesLatest
  <2>2. c <= chunk /\ c # taken /\ c # 0
    BY <2>1, <1>n DEF InOrder
  <2>3. CASE d \in used
    BY <1>1, <2>2, <2>3
  <2>4. CASE d \notin used
    BY <1>1, <2>1, <2>4 DEF StoreInv, NoneFiledIsOpen, OpenOn
  <2>5. QED
    BY <2>3, <2>4
<1>5. NoneAhead'
  <2> SUFFICES ASSUME NEW d \in Drives, NEW c \in Chunks, c > taken
               PROVE  held[d][c] = 0 /\ header'[d][c] = <<>> /\ <<d, c>> \notin staged'
    BY <1>2 DEF NoneAhead
  <2>1. c > chunk /\ c # taken
    BY <1>n
  <2>2. QED
    BY <1>1, <1>3, <2>1
<1>6. OpenNotIndexed'
  <2> SUFFICES ASSUME NEW d \in Drives, fp'[d] # 0
               PROVE  fp'[d] <= taken /\ header'[d][fp'[d]] = <<>>
    BY <1>2 DEF OpenNotIndexed
  <2>1. CASE d \in used
    <3>1. fp'[d] = taken
      BY <1>1, <2>1
    <3>2. header'[d][taken] = <<>>
      BY <1>n, <1>3
    <3>3. QED
      BY <3>1, <3>2, <1>n
  <2>2. CASE d \notin used
    <3>1. fp'[d] = fp[d] /\ fp[d] \in Chunks /\ fp[d] <= chunk
      BY <1>1, <1>n, <2>2 DEF StoreInv, OpenNotIndexed
    <3>2. header'[d][fp[d]] = header[d][fp[d]]
      BY <1>2, <2>2, <3>1, CloseWritesOpenHeaders DEF OpenOn
    <3>3. QED
      BY <1>n, <3>1, <3>2 DEF StoreInv, OpenNotIndexed
  <2>3. QED
    BY <2>1, <2>2
<1>7. RenamesWhatItCloses'
  <2> SUFFICES ASSUME NEW d \in Drives, <<d, taken>> \in staged'
               PROVE  fp'[d] = taken
    BY <1>2 DEF RenamesWhatItCloses
  <2>1. <<d, taken>> \notin staged
    BY <1>3, <1>n
  <2>2. QED
    BY <1>1, <2>1
<1>8. QED
  BY <1>4, <1>5, <1>6, <1>7 DEF StoreInv

\* A record is written to open files only.
LEMMA WritesOpenFiles ==
  ASSUME TInv, PointerInv, WriteRecord, NEW d \in Drives, NEW c \in Chunks
  PROVE  held'[d][c] = held[d][c] + (IF d \in used /\ out[d] # 0 /\ c = fp[d] THEN 1 ELSE 0)
<1>1. held'[d][c] = held[d][c] + (IF d \in used /\ c = out[d] THEN 1 ELSE 0)
  BY DEF WriteRecord
<1>2. c # 0
  BY ChunkNumbers
<1>3. d \in used /\ out[d] # 0 => out[d] = fp[d]
  BY DEF WriteRecord, PointerInv, PointersGood
<1>4. QED
  BY <1>1, <1>2, <1>3

\* Every step keeps the store in order.
LEMMA StoreStep == TInv /\ PointerInv /\ InOrder /\ StoreInv /\ [Next]_vars => StoreInv'
<1> SUFFICES ASSUME TInv, PointerInv, InOrder, StoreInv, [Next]_vars PROVE StoreInv'
  OBVIOUS
<1>0. ASSUME UNCHANGED <<chunk, fp, staged, filed, held, header>> PROVE StoreInv'
  BY <1>0 DEF StoreInv, NoneFiledIsOpen, NoneAhead, OpenNotIndexed, RenamesWhatItCloses
<1>1. CASE PtcStep \/ ReadFlag \/ ClearFlag \/ Nap \/ UNCHANGED vars
  BY <1>0, <1>1 DEF PtcStep, ReadFlag, ClearFlag, Nap, vars, descVars, diskVars
<1>2. ASSUME NEW h \in Hours, TakeRecord(h) PROVE StoreInv'
  <2>1. UNCHANGED <<held, chunk>>
    BY <1>2 DEF TakeRecord
  <2>2. CASE updated'
    BY <1>2, <2>1, <2>2, FinalizeKeepsStore DEF TakeRecord
  <2>3. CASE ~updated'
    BY <1>0, <1>2, <2>1, <2>3 DEF TakeRecord
  <2>4. QED
    BY <2>2, <2>3
<1>3. CASE ChunkFile
  <2>1. taken \in Chunks /\ chunk < taken /\ UNCHANGED held
    BY <1>3 DEF ChunkFile, TInv, RecordInHand, InOrder
  <2>2. CASE NewChunkRequired
    BY <1>3, <2>1, <2>2, NewChunkKeepsStore DEF ChunkFile
  <2>3. CASE ~NewChunkRequired
    BY <1>0, <1>3, <2>1, <2>3 DEF ChunkFile
  <2>4. QED
    BY <2>2, <2>3
<1>4. CASE WriteRecord
  <2>1. UNCHANGED <<chunk, fp, staged, filed, header>>
    BY <1>4 DEF WriteRecord, descVars
  <2>2. NoneAhead'
    <3> SUFFICES ASSUME NEW d \in Drives, NEW c \in Chunks, c > chunk
                 PROVE  held'[d][c] = 0 /\ header[d][c] = <<>> /\ <<d, c>> \notin staged
      BY <2>1 DEF NoneAhead
    <3>1. c # fp[d]
      BY ChunkNumbers DEF StoreInv, OpenNotIndexed
    <3>2. held'[d][c] = held[d][c] + 0
      BY <1>4, <3>1, WritesOpenFiles
    <3>3. QED
      BY <3>2 DEF StoreInv, NoneAhead
  <2>3. QED
    BY <2>1, <2>2 DEF StoreInv, NoneFiledIsOpen, OpenNotIndexed, RenamesWhatItCloses
<1>5. CASE Expire \/ Finish
  <2>1. Finalize /\ UNCHANGED <<held, chunk>>
    BY <1>5 DEF Expire, Finish
  <2>2. QED
    BY <2>1, FinalizeKeepsStore
<1>6. QED
  BY <1>1, <1>2, <1>3, <1>4, <1>5 DEF Next, ThreadStep, Exited

\* At the start there are no files.
LEMMA InitStore == Init => StoreInv
BY DEF Init, StoreInv, NoneFiledIsOpen, NoneAhead, OpenNotIndexed, RenamesWhatItCloses

\* The files of a drive, with the rest of the state left out.
Store(d) == INSTANCE ChunkStore WITH open <- fp[d], size <- held[d], index <- header[d],
                                     staged <- Staged(d), filed <- Filed(d)

\* The second members of the pairs that begin with d.
LEMMA SecondOfPairs ==
  ASSUME NEW S, S \subseteq Drives \X Chunks, NEW d, NEW c
  PROVE  c \in {x[2] : x \in {f \in S : f[1] = d}} <=> <<d, c>> \in S
<1>1. ASSUME NEW f \in S PROVE f = <<f[1], f[2]>>
  OBVIOUS
<1>2. QED
  BY <1>1

\* The same for triples.
LEMMA SecondOfTriples ==
  ASSUME NEW S, NEW H, S \subseteq Drives \X Chunks \X H, NEW d, NEW c
  PROVE  c \in {x[2] : x \in {f \in S : f[1] = d}} <=> \E h \in H : <<d, c, h>> \in S
<1>1. ASSUME NEW f \in S PROVE f = <<f[1], f[2], f[3]>> /\ f[3] \in H
  OBVIOUS
<1>2. QED
  BY <1>1

\* Before and after a step.
LEMMA StagedFiled ==
  ASSUME TInv, TInv', NEW d \in Drives
  PROVE  /\ \A c : c \in Staged(d) <=> <<d, c>> \in staged
         /\ \A c : c \in Staged(d)' <=> <<d, c>> \in staged'
         /\ \A c : c \in Filed(d) <=> \E h \in Hours \cup {0} : <<d, c, h>> \in filed
         /\ \A c : c \in Filed(d)' <=> \E h \in Hours \cup {0} : <<d, c, h>> \in filed'
<1>1. /\ staged \subseteq Drives \X Chunks /\ staged' \subseteq Drives \X Chunks
      /\ filed \subseteq Drives \X Chunks \X (Hours \cup {0})
      /\ filed' \subseteq Drives \X Chunks \X (Hours \cup {0})
  BY DEF TInv, TypeOK
<1>2. \A c : /\ c \in Staged(d) <=> <<d, c>> \in staged
             /\ c \in Staged(d)' <=> <<d, c>> \in staged'
  BY <1>1, SecondOfPairs, Zenon DEF Staged
<1>3. \A c : /\ c \in Filed(d) <=> \E h \in Hours \cup {0} : <<d, c, h>> \in filed
             /\ c \in Filed(d)' <=> \E h \in Hours \cup {0} : <<d, c, h>> \in filed'
  BY <1>1, SecondOfTriples, Zenon DEF Filed
<1>4. QED
  BY <1>2, <1>3

\* A step that closes the file of a drive, and opens a new one or not, does to
\* the other files what the store does.
LEMMA ReplacesInStore ==
  ASSUME TInv, TInv', StoreInv, NEW closing, CloseFiles(closing), UNCHANGED held,
         NEW d \in Drives, d \in closing => fp[d] # 0,
         NEW created \in SUBSET Chunks,
         \A c \in Chunks : <<d, c>> \in staged' <=>
           \/ c \in created
           \/ <<d, c>> \in staged /\ ~(c = chunk /\ d \in Renamed(closing))
  PROVE  Store(d)!Replace(created)
<1> DEFINE moved == IF d \in Renamed(closing) THEN {fp[d]} ELSE {}
<1>1. d \in Renamed(closing) => fp[d] = chunk /\ fp[d] \in Staged(d)
  BY StagedFiled DEF Renamed, StoreInv, RenamesWhatItCloses
<1>2. moved \in SUBSET (Staged(d) \cap {fp[d]})
  BY <1>1
<1>3. Staged(d)' = (Staged(d) \ moved) \cup created
  <2>1. \A c : c \in Staged(d)' <=> <<d, c>> \in staged'
    BY StagedFiled
  <2>2. \A c : c \in Staged(d) <=> <<d, c>> \in staged
    BY StagedFiled
  <2>3. \A c : <<d, c>> \in staged \/ <<d, c>> \in staged' => c \in Chunks
    BY DEF TInv, TypeOK
  <2>4. QED
    BY <1>1, <2>1, <2>2, <2>3
<1>4. Filed(d)' = Filed(d) \cup moved
  <2>1. \A c : c \in Filed(d)' <=> \E h \in Hours \cup {0} : <<d, c, h>> \in filed'
    BY StagedFiled
  <2>2. \A c : c \in Filed(d) <=> \E h \in Hours \cup {0} : <<d, c, h>> \in filed
    BY StagedFiled
  <2>3. \A c, h : <<d, c, h>> \in filed' <=>
          \/ <<d, c, h>> \in filed
          \/ d \in Renamed(closing) /\ c = chunk /\ h = ClosedUnder
    BY DEF CloseFiles
  <2>4. ClosedUnder \in Hours \cup {0}
    BY DEF ClosedUnder, TInv, TypeOK
  <2>5. QED
    BY <1>1, <2>1, <2>2, <2>3, <2>4
<1>5. \A c \in Chunks : header'[d][c] # header[d][c] => c = fp[d] /\ header[d][c] = <<>>
  BY CloseWritesOpenHeaders DEF StoreInv, OpenNotIndexed
<1> HIDE DEF moved
<1>6. QED
  BY <1>2, <1>3, <1>4, <1>5 DEF Store!Replace

\* A step that leaves the files alone is no step of the store.
LEMMA StoreStutters ==
  ASSUME UNCHANGED <<fp, held, header, staged, filed>>, NEW d \in Drives
  PROVE  UNCHANGED Store(d)!storeVars
BY DEF Store!storeVars, Staged, Filed

\* A step that closes files of the other drive only is no step of the store.
LEMMA ClosedElsewhere ==
  ASSUME TInv, TInv', NEW closing, CloseFiles(closing), UNCHANGED held,
         NEW d \in Drives, d \notin closing, fp'[d] = fp[d],
         \A c \in Chunks : <<d, c>> \in staged' <=>
           <<d, c>> \in staged /\ ~(c = chunk /\ d \in Renamed(closing))
  PROVE  UNCHANGED Store(d)!storeVars
<1>1. d \notin Renamed(closing)
  BY DEF Renamed
<1>2. Staged(d)' = Staged(d)
  <2>1. \A c : <<d, c>> \in staged \/ <<d, c>> \in staged' => c \in Chunks
    BY DEF TInv, TypeOK
  <2>2. \A c : (c \in Staged(d) <=> <<d, c>> \in staged) /\ (c \in Staged(d)' <=> <<d, c>> \in staged')
    BY StagedFiled
  <2>3. QED
    BY <1>1, <2>1, <2>2
<1>3. Filed(d)' = Filed(d)
  <2>1. \A c, h : <<d, c, h>> \in filed' <=> <<d, c, h>> \in filed
    BY <1>1 DEF CloseFiles
  <2>2. \A c : c \in Filed(d)' <=> \E h \in Hours \cup {0} : <<d, c, h>> \in filed'
    BY StagedFiled
  <2>3. \A c : c \in Filed(d) <=> \E h \in Hours \cup {0} : <<d, c, h>> \in filed
    BY StagedFiled
  <2>4. QED
    BY <2>1, <2>2, <2>3
<1>4. header'[d] = header[d]
  <2>1. header[d] \in [Chunks -> Seq(Int)] /\ header'[d] \in [Chunks -> Seq(Int)]
    BY DEF TInv, TypeOK
  <2>2. \A c \in Chunks : header'[d][c] = header[d][c]
    BY CloseWritesOpenHeaders
  <2>3. QED
    BY <2>1, <2>2
<1>5. QED
  BY <1>2, <1>3, <1>4 DEF Store!storeVars

\* Finalization closes the file in the store, or leaves the store alone.
LEMMA FinalizeInStore ==
  ASSUME TInv, TInv', StoreInv, Finalize, UNCHANGED held, NEW d \in Drives
  PROVE  Store(d)!Next \/ UNCHANGED Store(d)!storeVars
<1>1. /\ CloseFiles(Finalizable)
      /\ \A c \in Chunks : <<d, c>> \in staged' <=>
           <<d, c>> \in staged /\ ~(c = chunk /\ d \in Renamed(Finalizable))
      /\ fp'[d] = IF d \in Finalizable THEN 0 ELSE fp[d]
  BY DEF Finalize
<1>2. d \in Finalizable => fp[d] # 0
  BY DEF Finalizable, OpenOn
<1>3. Store(d)!Replace({})
  BY <1>1, <1>2, ReplacesInStore
<1>4. CASE d \in Finalizable
  BY <1>1, <1>2, <1>3, <1>4 DEF Store!Next, Store!Close
<1>5. CASE d \notin Finalizable
  BY <1>1, <1>5, ClosedElsewhere
<1>6. QED
  BY <1>4, <1>5

\* A new chunk is created in the store, or the old one only closed, where fopen
\* failed.
LEMMA NewChunkInStore ==
  ASSUME TInv, TInv', InOrder, StoreInv, NewChunk, UNCHANGED held, taken \in Chunks, chunk < taken,
         NEW d \in Drives
  PROVE  Store(d)!Next \/ UNCHANGED Store(d)!storeVars
<1>1. PICK failed \in SUBSET used :
        /\ fp'[d] = IF d \notin used THEN fp[d] ELSE IF d \in failed THEN 0 ELSE taken
        /\ staged' = (staged \ {<<e, chunk>> : e \in Renamed(OpenOn(used))})
                       \cup {<<e, taken>> : e \in used \ failed}
  BY NewChunkFiles, Zenon
<1>2. CloseFiles(OpenOn(used))
  BY DEF NewChunk
<1>3. d \in OpenOn(used) <=> d \in used /\ fp[d] # 0
  BY DEF OpenOn
<1>4. CASE d \in used \ failed
  <2>1. \A c \in Chunks : <<d, c>> \in staged' <=>
          \/ c \in {taken}
          \/ <<d, c>> \in staged /\ ~(c = chunk /\ d \in Renamed(OpenOn(used)))
    BY <1>1, <1>4
  <2>2. Store(d)!Replace({taken})
    BY <1>2, <1>3, <2>1, ReplacesInStore
  <2>3. held[d][taken] = 0 /\ header[d][taken] = <<>>
    BY ChunkNumbers DEF StoreInv, NoneAhead
  <2>4. \A b \in Staged(d) \cup Filed(d) : b < taken
    <3> TAKE b \in Staged(d) \cup Filed(d)
    <3>1. CASE b \in Staged(d)
      <4>1. <<d, b>> \in staged
        BY <3>1, StagedFiled
      <4>2. b \in Chunks
        BY <4>1 DEF TInv, TypeOK
      <4>3. QED
        BY <4>1, <4>2, ChunkNumbers DEF StoreInv, NoneAhead
    <3>2. CASE b \in Filed(d)
      <4>1. PICK h \in Hours \cup {0} : <<d, b, h>> \in filed
        BY <3>2, StagedFiled
      <4>2. b \in Chunks
        BY <4>1 DEF TInv, TypeOK
      <4>3. QED
        BY <4>1, <4>2, ChunkNumbers DEF InOrder
    <3>3. QED
      BY <3>1, <3>2
  <2>5. QED
    BY <1>1, <1>4, <2>2, <2>3, <2>4 DEF Store!Next, Store!Create
<1>5. CASE d \notin used \ failed
  <2>1. \A c \in Chunks : <<d, c>> \in staged' <=>
          <<d, c>> \in staged /\ ~(c = chunk /\ d \in Renamed(OpenOn(used)))
    BY <1>1, <1>5
  <2>2. CASE d \in OpenOn(used)
    <3>1. Store(d)!Replace({})
      BY <1>2, <1>3, <2>1, ReplacesInStore
    <3>2. QED
      BY <1>1, <1>3, <1>5, <2>2, <3>1 DEF Store!Next, Store!Close
  <2>3. CASE d \notin OpenOn(used)
    BY <1>1, <1>2, <1>3, <1>5, <2>1, <2>3, ClosedElsewhere
  <2>4. QED
    BY <2>2, <2>3
<1>6. QED
  BY <1>4, <1>5

\* A record is written to the open file of the store, or to none.
LEMMA WriteInStore ==
  ASSUME TInv, TInv', PointerInv, WriteRecord, NEW d \in Drives
  PROVE  Store(d)!Next \/ UNCHANGED Store(d)!storeVars
<1>1. UNCHANGED <<fp, header, staged, filed>>
  BY DEF WriteRecord, descVars
<1>2. /\ held[d] \in [Chunks -> Nat] /\ held'[d] \in [Chunks -> Nat]
      /\ \A c \in Chunks :
           held'[d][c] = held[d][c] + (IF d \in used /\ out[d] # 0 /\ c = fp[d] THEN 1 ELSE 0)
  BY WritesOpenFiles DEF TInv, TypeOK
<1>3. UNCHANGED <<Staged(d), Filed(d)>>
  BY <1>1 DEF Staged, Filed
<1>4. CASE d \in used /\ out[d] # 0
  <2>1. fp[d] # 0
    BY <1>4 DEF WriteRecord, PointerInv, PointersGood
  <2>2. held'[d] = [held[d] EXCEPT ![fp[d]] = @ + 1]
    BY <1>2, <1>4
  <2>3. QED
    BY <1>1, <1>3, <2>1, <2>2 DEF Store!Next, Store!Write
<1>5. CASE ~(d \in used /\ out[d] # 0)
  <2>1. held'[d] = held[d]
    BY <1>2, <1>5
  <2>2. QED
    BY <1>1, <1>3, <2>1 DEF Store!storeVars
<1>6. QED
  BY <1>4, <1>5

\* Every step is a step of the store of either drive, or leaves it alone.
LEMMA StepInStore ==
  ASSUME TInv, TInv', PointerInv, InOrder, StoreInv, [Next]_vars, NEW d \in Drives
  PROVE  Store(d)!Next \/ UNCHANGED Store(d)!storeVars
<1>1. CASE PtcStep \/ ReadFlag \/ ClearFlag \/ Nap \/ UNCHANGED vars
  BY <1>1, StoreStutters DEF PtcStep, ReadFlag, ClearFlag, Nap, vars, descVars, diskVars
<1>2. ASSUME NEW h \in Hours, TakeRecord(h) PROVE Store(d)!Next \/ UNCHANGED Store(d)!storeVars
  <2>1. UNCHANGED held
    BY <1>2 DEF TakeRecord
  <2>2. CASE updated'
    BY <1>2, <2>1, <2>2, FinalizeInStore DEF TakeRecord
  <2>3. CASE ~updated'
    BY <1>2, <2>1, <2>3, StoreStutters DEF TakeRecord
  <2>4. QED
    BY <2>2, <2>3
<1>3. CASE ChunkFile
  <2>1. taken \in Chunks /\ chunk < taken /\ UNCHANGED held
    BY <1>3 DEF ChunkFile, TInv, RecordInHand, InOrder
  <2>2. CASE NewChunkRequired
    BY <1>3, <2>1, <2>2, NewChunkInStore DEF ChunkFile
  <2>3. CASE ~NewChunkRequired
    BY <1>3, <2>1, <2>3, StoreStutters DEF ChunkFile
  <2>4. QED
    BY <2>2, <2>3
<1>4. CASE WriteRecord
  BY <1>4, WriteInStore
<1>5. CASE Expire \/ Finish
  BY <1>5, FinalizeInStore DEF Expire, Finish
<1>6. QED
  BY <1>1, <1>2, <1>3, <1>4, <1>5 DEF Next, ThreadStep, Exited

\* The store of the CHM and that of the SSD are the stores of drives 1 and 2.
LEMMA StoresOfDrives ==
  /\ Store(1)!Next \/ UNCHANGED Store(1)!storeVars => [ChmStore!Next]_(ChmStore!storeVars)
  /\ Store(2)!Next \/ UNCHANGED Store(2)!storeVars => [SsdStore!Next]_(SsdStore!storeVars)
BY DEF Store!Next, Store!storeVars, Store!Write, Store!Close, Store!Create, Store!Replace,
       ChmStore!Next, ChmStore!storeVars, ChmStore!Write, ChmStore!Close, ChmStore!Create,
       ChmStore!Replace, SsdStore!Next, SsdStore!storeVars, SsdStore!Write, SsdStore!Close,
       SsdStore!Create, SsdStore!Replace

\* At the start both stores are empty.
LEMMA StoresStartEmpty == Init => ChmStore!Init /\ SsdStore!Init
BY DEF Init, ChmStore!Init, SsdStore!Init, Staged, Filed, Drives

\* On each drive the recorder implements the store: only the one open file
\* changes, a file is newer than all others when it is created, gets its index
\* once, when it is closed, and is final when it is filed.  Stale pointers, failed
\* renames, failed fopen and changes of the drives included.
THEOREM ImplementsStore == Spec => StoreSpec
<1>1. TInv /\ TInv' /\ PointerInv /\ InOrder /\ StoreInv /\ [Next]_vars
        => [ChmStore!Next]_(ChmStore!storeVars) /\ [SsdStore!Next]_(SsdStore!storeVars)
  BY StepInStore, StoresOfDrives DEF Drives
<1>2. Init => PointerInv
  BY DEF Init, PointerInv, PointersGood
<1>3. Init => HourInv
  BY BoundsAssumption DEF Init, HourInv, PathKeepsUp, InOrder, FiledUnderItsHour, Chunks
<1>4. StagingInv => SteadyUsed
  BY DEF StagingInv
<1>5. HourInv => InOrder
  BY DEF HourInv
<1>6. QED
  BY InitTypes, NextTypes, InitStaging, StagingStep, HourStep, PointerStep, InitStore, StoreStep,
     StoresStartEmpty, <1>1, <1>2, <1>3, <1>4, <1>5, PTL
     DEF Spec, StoreSpec, ChmStore!Spec, SsdStore!Spec

\* What is in an hour directory, and for which chunk, never changes again: no
\* record, index or rename reaches a filed chunk.
FiledIsFinal ==
  [][\A d \in Drives, c \in Chunks, h \in Hours \cup {0} :
       <<d, c, h>> \in filed =>
         /\ <<d, c, h>> \in filed'
         /\ held'[d][c] = held[d][c] /\ header'[d][c] = header[d][c]]_vars

\* Space monitor and downloads, which read only the hour directories, never meet a
\* chunk that the recorder is still writing to.
THEOREM FiledIsFinalAlways == Spec => FiledIsFinal
<1>1. ASSUME TInv, PointerInv, StoreInv, [Next]_vars, NEW d \in Drives, NEW c \in Chunks,
             NEW h \in Hours \cup {0}, <<d, c, h>> \in filed
      PROVE  /\ <<d, c, h>> \in filed'
             /\ held'[d][c] = held[d][c] /\ header'[d][c] = header[d][c]
  <2>0. fp[d] # c
    BY <1>1 DEF StoreInv, NoneFiledIsOpen
  <2>1. ASSUME NEW closing, CloseFiles(closing)
        PROVE  <<d, c, h>> \in filed' /\ header'[d][c] = header[d][c]
    BY <1>1, <2>0, <2>1, CloseWritesOpenHeaders DEF CloseFiles
  <2>2. CASE WriteRecord
    <3>1. held'[d][c] = held[d][c] + 0
      BY <1>1, <2>0, <2>2, WritesOpenFiles
    <3>2. QED
      BY <1>1, <2>2, <3>1 DEF WriteRecord, TInv, TypeOK
  <2>3. ASSUME NEW i \in Hours, TakeRecord(i)
        PROVE  /\ <<d, c, h>> \in filed'
               /\ held'[d][c] = held[d][c] /\ header'[d][c] = header[d][c]
    BY <1>1, <2>1, <2>3 DEF TakeRecord, Finalize
  <2>4. CASE ChunkFile \/ Expire \/ Finish
    BY <1>1, <2>1, <2>4 DEF ChunkFile, NewChunk, Expire, Finish, Finalize
  <2>5. CASE PtcStep \/ ReadFlag \/ ClearFlag \/ Nap \/ UNCHANGED vars
    BY <1>1, <2>5 DEF PtcStep, ReadFlag, ClearFlag, Nap, vars, diskVars
  <2>6. QED
    BY <1>1, <2>2, <2>3, <2>4, <2>5 DEF Next, ThreadStep, Exited
<1>2. TInv /\ PointerInv /\ StoreInv /\ [Next]_vars =>
        [\A d \in Drives, c \in Chunks, h \in Hours \cup {0} :
           <<d, c, h>> \in filed =>
             /\ <<d, c, h>> \in filed'
             /\ held'[d][c] = held[d][c] /\ header'[d][c] = header[d][c]]_vars
  BY <1>1
<1>3. Init => PointerInv
  BY DEF Init, PointerInv, PointersGood
<1>4. Init => HourInv
  BY BoundsAssumption DEF Init, HourInv, PathKeepsUp, InOrder, FiledUnderItsHour, Chunks
<1>5. StagingInv => SteadyUsed
  BY DEF StagingInv
<1>6. HourInv => InOrder
  BY DEF HourInv
<1>7. QED
  BY InitTypes, NextTypes, InitStaging, StagingStep, HourStep, PointerStep, InitStore, StoreStep,
     <1>2, <1>3, <1>4, <1>5, <1>6, PTL DEF Spec, FiledIsFinal

-----------------------------------------------------------------------------
(* The index in the header of a chunk file.                                *)

\* From a change of the drives to the new chunk it demands, and at the end,
\* nothing is written.
Recording == ~updated /\ pc # "done"

\* The index is empty while nothing is written, and the duration stays 0 only
\* until the second record.
ResetForUpdate ==
  /\ updated => pc \in {"flag", "clear", "chunk"}
  /\ ~Recording => index = <<>>
  /\ ~timed => Len(index) <= 1
  /\ ~timed /\ pc = "write" => index = <<>>

\* Every header is whole, except for a chunk of one record, or one that is still
\* being written.
HeadersGood ==
  \A d \in Drives, c \in Chunks :
    \/ header[d][c] = Listed(d, c)
    \/ header[d][c] = <<>> /\ (held[d][c] <= 1 \/ (Recording /\ d \in used /\ fp[d] = c))

\* A file left open on a drive that is not in use is not the latest chunk.
LeftOpenIsOld == Recording => \A d \in Drives \ used : fp[d] # 0 => fp[d] < chunk

\* The thread's pointers are the open files, and the index and the offset of the
\* next record agree with each of them.
IndexAgrees ==
  Recording => \A d \in used :
    /\ out[d] = fp[d]
    /\ fp[d] # 0 => /\ fp[d] = chunk
                    /\ held[d][chunk] = Len(index)
                    /\ pos = Len(index)
                    /\ \A k \in 1..Len(index) : index[k] = k - 1

IndexParts == HeadersGood /\ LeftOpenIsOld /\ IndexAgrees

IndexInv == ResetForUpdate /\ (1 \in steady => IndexParts)

\* What an index of the offsets 0, 1, ... lists.
LEMMA IndexIsListed ==
  ASSUME NEW d \in Drives, NEW c \in Chunks, NEW s \in Seq(Int), held[d][c] = Len(s),
         \A k \in 1..Len(s) : s[k] = k - 1
  PROVE  s = Listed(d, c)
BY DEF Listed

\* Once the files are closed, or were too short to be closed, every header is
\* whole or that of a chunk of one record.
LEMMA ClosedAreWhole ==
  ASSUME TInv, SteadyUsed, StoreInv, ResetForUpdate, IndexParts,
         NEW closing, CloseFiles(closing),
         closing = OpenOn(used) \/ (closing = {} /\ (~timed \/ ~Recording)),
         NEW d \in Drives, NEW c \in Chunks
  PROVE  \/ header'[d][c] = Listed(d, c)
         \/ header'[d][c] = <<>> /\ held[d][c] <= 1
<1>1. header'[d][c] = IF d \in closing /\ c = fp[d] /\ index # <<>> THEN index ELSE header[d][c]
  BY DEF CloseFiles
<1>2. c # 0 /\ held[d][c] \in Nat /\ index \in Seq(Int)
  BY BoundsAssumption DEF TInv, TypeOK, Chunks
<1>3. CASE Recording /\ d \in used /\ fp[d] = c
  <2>1. /\ c = chunk /\ held[d][c] = Len(index) /\ header[d][c] = <<>>
        /\ \A k \in 1..Len(index) : index[k] = k - 1
    BY <1>2, <1>3 DEF IndexParts, IndexAgrees, StoreInv, OpenNotIndexed
  <2>2. CASE index = <<>>
    BY <1>1, <2>1, <2>2
  <2>3. CASE index # <<>> /\ closing = OpenOn(used)
    <3>1. header'[d][c] = index
      BY <1>1, <1>2, <1>3, <2>3 DEF OpenOn
    <3>2. QED
      BY <3>1, <1>2, <2>1, IndexIsListed
  <2>4. CASE closing = {} /\ ~timed
    BY <1>1, <2>1, <2>4 DEF ResetForUpdate
  <2>5. QED
    BY <1>3, <2>2, <2>3, <2>4
<1>4. CASE ~(Recording /\ d \in used /\ fp[d] = c)
  <2>1. header'[d][c] = header[d][c]
    <3>1. CASE Recording
      BY <1>1, <1>4, <3>1 DEF OpenOn
    <3>2. CASE ~Recording
      BY <1>1, <3>2 DEF ResetForUpdate
    <3>3. QED
      BY <3>1, <3>2
  <2>2. QED
    BY <2>1, <1>4 DEF IndexParts, HeadersGood
<1>5. QED
  BY <1>3, <1>4

\* Finalization ends the recording of a chunk and keeps its index.
LEMMA FinalizeKeepsIndex ==
  ASSUME TInv, SteadyUsed, StoreInv, ResetForUpdate, IndexParts, Finalize, UNCHANGED <<held, chunk>>
  PROVE  HeadersGood'
<1>1. CloseFiles(Finalizable)
  BY DEF Finalize
<1>2. Finalizable = OpenOn(used) \/ (Finalizable = {} /\ ~timed)
  BY DEF Finalizable
<1>3. \A d \in Drives, c \in Chunks : \/ header'[d][c] = Listed(d, c)
                                      \/ header'[d][c] = <<>> /\ held[d][c] <= 1
  BY <1>1, <1>2, ClosedAreWhole
<1>4. QED
  BY <1>3 DEF HeadersGood, Listed

\* A new chunk is open on the drives in use, empty and with an empty index.
LEMMA NewChunkKeepsIndex ==
  ASSUME TInv, SteadyUsed, StoreInv, IndexInv, NewChunk, UNCHANGED <<used, held, steady, taken>>,
         taken \in Chunks, chunk < taken, pc' = "write"
  PROVE  IndexInv'
<1>1. PICK failed \in SUBSET used : \A d \in Drives :
        /\ fp'[d] = IF d \notin used THEN fp[d] ELSE IF d \in failed THEN 0 ELSE taken
        /\ d \in used => out'[d] = fp'[d]
  BY NewChunkFiles, Zenon
<1>2. /\ CloseFiles(OpenOn(used)) /\ index' = <<>> /\ chunk' = taken /\ ~updated'
      /\ ~timed' /\ Recording'
  BY DEF NewChunk, Recording
<1>3. taken # 0 /\ chunk \in Int /\ taken \in Int
  BY ChunkNumbers
<1>4. ResetForUpdate'
  BY <1>2 DEF ResetForUpdate
<1>5. ASSUME 1 \in steady PROVE IndexParts'
  <2>0. IndexParts /\ ResetForUpdate /\ 1 \in used
    BY <1>5 DEF IndexInv, SteadyUsed
  <2>1. HeadersGood'
    <3>1. \A d \in Drives, c \in Chunks : \/ header'[d][c] = Listed(d, c)
                                          \/ header'[d][c] = <<>> /\ held[d][c] <= 1
      BY <2>0, <1>2, ClosedAreWhole
    <3>2. QED
      BY <3>1 DEF HeadersGood, Listed
  <2>2. LeftOpenIsOld'
    <3>1. \A d \in Drives : fp[d] # 0 => fp[d] \in Int /\ fp[d] <= chunk
      BY ChunkNumbers DEF StoreInv, OpenNotIndexed
    <3>2. QED
      BY <1>1, <1>2, <1>3, <3>1 DEF LeftOpenIsOld
  <2>3. IndexAgrees'
    <3> SUFFICES ASSUME NEW d \in used
                 PROVE  /\ out'[d] = fp'[d]
                        /\ fp'[d] # 0 => /\ fp'[d] = chunk' /\ held'[d][chunk'] = Len(index')
                                         /\ pos' = Len(index')
                                         /\ \A k \in 1..Len(index') : index'[k] = k - 1
      BY DEF IndexAgrees
    <3>1. d \in Drives
      BY DEF TInv, TypeOK
    <3>2. out'[d] = fp'[d] /\ fp'[d] \in {0, taken}
      BY <3>1, <1>1
    <3>3. held'[d][taken] = 0
      BY <3>1, <1>3 DEF StoreInv, NoneAhead
    <3>4. pos' = 0
      BY DEF NewChunk
    <3>5. Len(index') = 0
      BY <1>2
    <3>6. QED
      BY <3>2, <3>3, <3>4, <3>5, <1>2
  <2>4. QED
    BY <2>1, <2>2, <2>3 DEF IndexParts
<1>6. QED
  BY <1>4, <1>5 DEF IndexInv

\* A record is added to every open file, and its offset to the index.
LEMMA WriteKeepsIndex ==
  ASSUME TInv, SteadyUsed, StoreInv, IndexInv, WriteRecord
  PROVE  IndexInv'
<1>1. /\ pc = "write" /\ pc' = "loop" /\ Recording /\ Recording'
      /\ UNCHANGED <<used, fp, out, chunk, updated, timed, header, filed, steady, taken>>
  BY DEF WriteRecord, IndexInv, ResetForUpdate, Recording, driveVars, descVars, history
<1>2. /\ index' = Append(index, pos) /\ index \in Seq(Int) /\ pos \in Int /\ Len(index) \in Nat
      /\ Len(index') = Len(index) + 1 /\ used \subseteq Drives
  BY DEF WriteRecord, TInv, TypeOK
<1>3. \A d \in Drives, c \in Chunks :
        /\ held'[d][c] = held[d][c] + (IF d \in used /\ c = out[d] THEN 1 ELSE 0)
        /\ held[d][c] \in Nat
  BY DEF WriteRecord, TInv, TypeOK
<1>4. ResetForUpdate'
  <2>1. ~timed => Len(index') <= 1
    BY <1>1, <1>2 DEF IndexInv, ResetForUpdate
  <2>2. QED
    BY <1>1, <2>1 DEF ResetForUpdate, Recording
<1>5. ASSUME 1 \in steady PROVE IndexParts'
  <2>0. IndexParts /\ 1 \in used
    BY <1>5 DEF IndexInv, SteadyUsed
  <2>1. \A d \in used : /\ out[d] = fp[d]
                        /\ fp[d] # 0 => /\ fp[d] = chunk /\ chunk \in Chunks
                                        /\ header[d][chunk] = <<>>
                                        /\ held[d][chunk] = Len(index)
                                        /\ pos = Len(index)
                                        /\ \A k \in 1..Len(index) : index[k] = k - 1
    BY <1>1, <1>2, <2>0, BoundsAssumption
       DEF IndexParts, IndexAgrees, StoreInv, OpenNotIndexed, TInv, TypeOK, Chunks
  <2>2. HeadersGood'
    <3> SUFFICES ASSUME NEW d \in Drives, NEW c \in Chunks
                 PROVE  \/ header[d][c] = Listed(d, c)'
                        \/ header[d][c] = <<>> /\ (held'[d][c] <= 1 \/ (d \in used /\ fp[d] = c))
      BY <1>1 DEF HeadersGood
    <3>1. CASE d \in used /\ c = out[d]
      BY <3>1, <2>1, BoundsAssumption DEF Chunks
    <3>2. CASE ~(d \in used /\ c = out[d])
      <4>1. held'[d][c] = held[d][c]
        BY <3>2, <1>3
      <4>2. Listed(d, c)' = Listed(d, c)
        BY <4>1 DEF Listed
      <4>3. QED
        BY <4>1, <4>2, <2>0 DEF IndexParts, HeadersGood
    <3>3. QED
      BY <3>1, <3>2
  <2>3. LeftOpenIsOld'
    BY <1>1, <2>0 DEF IndexParts, LeftOpenIsOld
  <2>4. IndexAgrees'
    <3> SUFFICES ASSUME NEW d \in used, fp[d] # 0
                 PROVE  /\ held'[d][chunk] = Len(index')
                        /\ pos' = Len(index')
                        /\ \A k \in 1..Len(index') : index'[k] = k - 1
      BY <1>1, <2>1 DEF IndexAgrees
    <3>1. \A e \in used : fp[e] # 0 => held'[e][chunk] = Len(index) + 1
      <4> TAKE e \in used
      <4> HAVE fp[e] # 0
      <4>1. e \in Drives /\ chunk \in Chunks /\ out[e] = chunk /\ held[e][chunk] = Len(index)
        BY <1>2, <2>1
      <4>2. held'[e][chunk] = held[e][chunk] + 1
        BY <4>1, <1>3
      <4>3. QED
        BY <4>1, <4>2
    <3>2. \A e \in used : fp[e] # 0 => Told(e) = {Len(index) + 1}
      BY <3>1, <2>1 DEF Told
    <3>3. pos' = Len(index) + 1
      <4>1. CASE out[1] # 0
        BY <4>1, <2>0, <2>1, <3>2 DEF WriteRecord
      <4>2. CASE out[1] = 0
        <5>1. d = 2
          BY <4>2, <1>2, <2>1 DEF Drives
        <5>2. QED
          BY <4>2, <5>1, <2>1, <3>2 DEF WriteRecord
      <4>3. QED
        BY <4>1, <4>2
    <3>4. \A k \in 1..Len(index') : index'[k] = k - 1
      BY <1>2, <2>1
    <3>5. QED
      BY <1>2, <3>1, <3>3, <3>4
  <2>5. QED
    BY <2>2, <2>3, <2>4 DEF IndexParts
<1>6. QED
  BY <1>1, <1>4, <1>5 DEF IndexInv

\* Every step keeps the headers and the index in agreement with the files.
LEMMA IndexStep == TInv /\ StagingInv /\ HourInv /\ StoreInv /\ IndexInv /\ [Next]_vars => IndexInv'
<1> SUFFICES ASSUME TInv, StagingInv, HourInv, StoreInv, IndexInv, [Next]_vars PROVE IndexInv'
  OBVIOUS
<1>0. SteadyUsed /\ InOrder
  BY DEF StagingInv, HourInv
<1> USE DEF IndexInv, ResetForUpdate, IndexParts, HeadersGood, LeftOpenIsOld, IndexAgrees,
            Recording, Listed
<1>1. CASE PtcStep
  BY <1>1 DEF PtcStep, driveVars, descVars, diskVars
<1>2. ASSUME NEW h \in Hours, TakeRecord(h) PROVE IndexInv'
  <2>1. /\ pc = "loop" /\ pc' = "flag" /\ ~updated /\ steady' \subseteq steady
        /\ UNCHANGED <<chunk, out, pos, held>>
    BY <1>2 DEF TakeRecord
  <2>2. CASE updated'
    <3>1. Finalize
      BY <1>2, <2>2 DEF TakeRecord
    <3>2. ResetForUpdate'
      BY <2>1, <3>1 DEF Finalize
    <3>3. 1 \in steady => HeadersGood'
      BY <1>0, <2>1, <3>1, FinalizeKeepsIndex
    <3>4. LeftOpenIsOld' /\ IndexAgrees'
      BY <2>2
    <3>5. QED
      BY <2>1, <3>2, <3>3, <3>4 DEF IndexInv, IndexParts
  <2>3. CASE ~updated'
    <3>1. UNCHANGED <<header, filed, fp, index, timed, used>>
      BY <1>2, <2>3 DEF TakeRecord
    <3>2. QED
      BY <2>1, <2>3, <3>1
  <2>4. QED
    BY <2>2, <2>3
<1>3. CASE ReadFlag \/ ClearFlag
  BY <1>3 DEF ReadFlag, ClearFlag, driveVars, descVars, diskVars, history
<1>4. CASE ChunkFile
  <2>1. /\ taken \in Chunks /\ chunk < taken /\ pc = "chunk" /\ pc' = "write"
        /\ UNCHANGED <<used, held, steady, taken>>
    BY <1>4, <1>0 DEF ChunkFile, TInv, RecordInHand, InOrder, driveVars
  <2>2. CASE NewChunkRequired
    BY <1>0, <1>4, <2>1, <2>2, NewChunkKeepsIndex DEF ChunkFile
  <2>3. CASE ~NewChunkRequired
    <3>1. /\ timed' /\ ~updated
          /\ UNCHANGED <<header, filed, index, updated, chunk, fp, out, pos>>
      BY <1>4, <2>3 DEF ChunkFile, NewChunkRequired
    <3>2. QED
      BY <2>1, <3>1
  <2>4. QED
    BY <2>2, <2>3
<1>5. CASE WriteRecord
  BY <1>0, <1>5, WriteKeepsIndex
<1>6. CASE Nap
  <2>1. /\ timed => timed'
        /\ pc = "loop" /\ pc' = "loop"
        /\ UNCHANGED <<used, updated, chunk, fp, out, index, pos, filed, held, header, steady>>
    BY <1>6 DEF Nap, driveVars, diskVars, history
  <2>2. QED
    BY <2>1
<1>7. CASE Expire
  <2>1. /\ Finalize /\ timed /\ out' = [d \in Drives |-> 0] /\ pc = "loop" /\ pc' = "loop"
        /\ UNCHANGED <<used, updated, chunk, pos, held, steady>>
    BY <1>7 DEF Expire, driveVars, history
  <2>2. ResetForUpdate'
    BY <2>1 DEF Finalize
  <2>3. ASSUME 1 \in steady PROVE IndexParts'
    <3>1. HeadersGood'
      BY <1>0, <2>1, <2>3, FinalizeKeepsIndex
    <3>2. \A d \in Drives : fp'[d] = IF d \in used THEN 0 ELSE fp[d]
      BY <2>1 DEF Finalize, Finalizable, OpenOn
    <3>3. LeftOpenIsOld'
      BY <2>1, <2>3, <3>2
    <3>4. IndexAgrees'
      BY <2>1, <3>2 DEF TInv, TypeOK
    <3>5. QED
      BY <3>1, <3>3, <3>4 DEF IndexParts
  <2>4. QED
    BY <2>1, <2>2, <2>3 DEF IndexInv
<1>8. CASE Finish
  <2>1. Finalize /\ pc = "loop" /\ pc' = "done" /\ UNCHANGED <<used, updated, chunk, held, steady>>
    BY <1>8 DEF Finish, driveVars, history
  <2>2. ResetForUpdate'
    BY <2>1 DEF Finalize
  <2>3. 1 \in steady => HeadersGood'
    BY <1>0, <2>1, FinalizeKeepsIndex
  <2>4. QED
    BY <2>1, <2>2, <2>3
<1>9. CASE UNCHANGED vars
  BY <1>9 DEF vars
<1>10. QED
  BY <1>1, <1>2, <1>3, <1>4, <1>5, <1>6, <1>7, <1>8, <1>9 DEF Next, ThreadStep, Exited

\* As long as the CHM stays in use the header of a filed chunk lists the offset of
\* every record of the file, on either drive, whichever fopen failed and whenever
\* a drive was switched; only a chunk of one record may have no index.
THEOREM IndexIsWholeAlways == Spec => []IndexIsWhole
<1>1. Init => IndexInv
  <2> SUFFICES ASSUME Init PROVE IndexInv
    OBVIOUS
  <2>1. /\ \A d \in Drives : fp[d] = 0 /\ out[d] = 0
        /\ \A d \in Drives, c \in Chunks : held[d][c] = 0 /\ header[d][c] = <<>>
        /\ filed = {} /\ index = <<>> /\ ~updated /\ used \subseteq Drives
    BY DEF Init
  <2>2. QED
    BY <2>1 DEF IndexInv, ResetForUpdate, IndexParts, HeadersGood, LeftOpenIsOld, IndexAgrees,
                Recording
<1>2. Init => HourInv
  BY BoundsAssumption DEF Init, HourInv, PathKeepsUp, InOrder, FiledUnderItsHour, Chunks
<1>3. TInv /\ StoreInv /\ IndexInv => IndexIsWhole
  <2> SUFFICES ASSUME TInv, StoreInv, IndexInv, 1 \in steady
               PROVE  \A d \in Drives, c \in Chunks, h \in Hours \cup {0} :
                        <<d, c, h>> \in filed => \/ header[d][c] = Listed(d, c)
                                                 \/ header[d][c] = <<>> /\ held[d][c] = 1
    BY DEF IndexIsWhole
  <2> TAKE d \in Drives, c \in Chunks, h \in Hours \cup {0}
  <2> HAVE <<d, c, h>> \in filed
  <2>1. fp[d] # c /\ held[d][c] \in Nat
    BY DEF StoreInv, NoneFiledIsOpen, TInv, TypeOK
  <2>2. header[d][c] = Listed(d, c) \/ (header[d][c] = <<>> /\ held[d][c] <= 1)
    BY <2>1 DEF IndexInv, IndexParts, HeadersGood
  <2>3. held[d][c] = 0 => Listed(d, c) = <<>>
    BY DEF Listed
  <2>4. QED
    BY <2>1, <2>2, <2>3
<1>4. StagingInv => SteadyUsed
  BY DEF StagingInv
<1>5. HourInv => InOrder
  BY DEF HourInv
<1>6. Init => PointerInv
  BY DEF Init, PointerInv, PointersGood
<1>7. QED
  BY InitTypes, NextTypes, InitStaging, StagingStep, HourStep, PointerStep, InitStore, StoreStep,
     IndexStep, <1>1, <1>2, <1>3, <1>4, <1>5, <1>6, PTL DEF Spec
=============================================================================
