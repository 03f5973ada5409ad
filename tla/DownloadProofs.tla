---------------------------- MODULE DownloadProofs ----------------------------
(***************************************************************************)
(* The safety invariants of Download, for any times, directories and       *)
(* faults.  TInv has the types and what each step of an attempt relies on. *)
(* AInv follows the contents of a staging directory: it is empty once it   *)
(* was validated, and from then on holds what the metadata of this attempt *)
(* lists.  OInv says whose time offset the global holds, SInv which runs   *)
(* of chunks the segments of the metadata cover so far.  The last two      *)
(* sections are about old archives and the number of steps of a request.   *)
(***************************************************************************)
EXTENDS Download, FiniteSetTheorems, SequenceTheorems, WellFoundedInduction, TLAPS

----------------------------------------------------------------------------
(* The least and the greatest of a set of times.                           *)

\* A nonempty set of natural numbers has a least element.
LEMMA LeastExists ==
  ASSUME NEW T \in SUBSET Nat, T # {}
  PROVE  \E m \in T : \A n \in T : m <= n
<1> DEFINE R == OpToRel(<, Nat)
<1>1. IsWellFoundedOn(R, Nat)
  BY NatLessThanWellFounded
<1>2. PICK m \in T : \A n \in T : ~(<<n, m>> \in R)
  <2> HIDE DEF R
  <2> QED
    BY <1>1, WFMin
<1>3. \A n \in T : m <= n
  <2> SUFFICES ASSUME NEW n \in T PROVE m <= n
    OBVIOUS
  <2>1. <<n, m>> \in R <=> n < m
    BY DEF OpToRel
  <2>2. ~(n < m)
    BY <1>2, <2>1
  <2>3. n \in Nat /\ m \in Nat
    OBVIOUS
  <2>4. QED
    BY <2>2, <2>3
<1>4. QED
  BY <1>3

\* Min of a nonempty set of times is its least element.
LEMMA MinIsLeast ==
  ASSUME NEW S \in SUBSET Nat, S # {}
  PROVE  Min(S) \in S /\ \A y \in S : Min(S) <= y
<1>1. \E x \in S : \A y \in S : x <= y
  BY LeastExists
<1>2. QED
  BY <1>1, Zenon DEF Min

\* It is the only one.
LEMMA LeastIsMin ==
  ASSUME NEW S \in SUBSET Nat, NEW x \in S, \A y \in S : x <= y
  PROVE  Min(S) = x
<1>1. Min(S) \in S /\ \A y \in S : Min(S) <= y
  BY MinIsLeast
<1>2. Min(S) <= x /\ x <= Min(S) /\ x \in Nat /\ Min(S) \in Nat
  BY <1>1
<1>3. QED
  BY <1>2

\* Max of a nonempty set of times is in it.
LEMMA MaxIsElement ==
  ASSUME NEW S \in SUBSET Time, S # {}
  PROVE  Max(S) \in S
<1> DEFINE T == {MaxTime - x : x \in S}
<1>1. T \in SUBSET Nat /\ T # {}
  BY MaxTimeAssumption DEF Time
<1>2. PICK m \in T : \A n \in T : m <= n
  <2> HIDE DEF T
  <2> QED
    BY <1>1, LeastExists
<1>3. PICK x \in S : m = MaxTime - x
  BY <1>2
<1>4. \A y \in S : x >= y
  <2> SUFFICES ASSUME NEW y \in S PROVE x >= y
    OBVIOUS
  <2>1. MaxTime - x <= MaxTime - y
    BY <1>2, <1>3
  <2>2. x \in Int /\ y \in Int /\ MaxTime \in Int
    BY MaxTimeAssumption DEF Time
  <2>3. QED
    BY <2>1, <2>2
<1>5. QED
  BY <1>4, Zenon DEF Max

----------------------------------------------------------------------------
(* Types.                                                                  *)

\* An attempt has a drive to work on.
HasDrive == pc \notin {"idle", "reply"} \/ Succeeded => todo # <<>>

\* Only chunks that were recorded are found.
FoundIsRecorded == found \subseteq 1 .. now

\* Once the search is over something was found.
FoundSome == pc \in {"init", "size", "copy", "main"} => found # {}

\* The two files are open only while the metadata is written.
OpenWhileWriting == pc \notin {"size", "copy", "main", "spin"} => handles = {}

\* An attempt begins with empty metadata and nothing to copy.
FreshMeta ==
  pc \in {"validate", "search", "init", "size"} => meta = NoMeta /\ left = {}

TInv ==
  /\ TypeOK
  /\ HasDrive
  /\ FoundIsRecorded
  /\ FoundSome
  /\ OpenWhileWriting
  /\ FreshMeta

\* The empty contents are contents.
LEMMA EmptyType ==
  /\ NoMeta \in Meta /\ Empty \in Content /\ EmptyDir \in Directory
  /\ NoOffsets \in [first : Int, last : Int]
<1>1. NoMeta \in Meta /\ NoOffsets \in [first : Int, last : Int]
  BY DEF NoMeta, Meta, NoOffsets
<1>2. Empty \in Content
  BY <1>1 DEF Empty, Content
<1>3. EmptyDir \in Directory
  BY <1>2 DEF EmptyDir, Directory
<1>4. QED
  BY <1>1, <1>2, <1>3

\* What clean_download_dir leaves is a directory.
LEMMA CleanType ==
  ASSUME TypeOK
  PROVE  [dir EXCEPT ![loc] = clean_download_dir(loc)] \in [Locations -> Directory]
<1>1. dir[loc] \in Directory /\ dir \in [Locations -> Directory]
  BY DEF TypeOK
<1>2. clean_download_dir(loc) \in Directory
  BY <1>1, EmptyType DEF clean_download_dir, Directory
<1>3. QED
  BY <1>1, <1>2

\* So is a directory with a few files more.
LEMMA CreateType ==
  ASSUME TypeOK, NEW names \in SUBSET Names
  PROVE  Create(names) \in [Locations -> Directory]
BY ZenonT(60) DEF TypeOK, Create, Directory, Content

\* And one with a chunk more.
LEMMA PutType ==
  ASSUME TypeOK, NEW t \in Time
  PROVE  PutChunk(t) \in [Locations -> Directory]
BY ZenonT(60) DEF TypeOK, PutChunk, Directory, Content

\* The time offsets read from headers are integers.
LEMMA OffsetTypes ==
  ASSUME TypeOK, NEW t \in Time
  PROVE  /\ HeaderOffset(t) \in Int /\ FirstOffset(t) \in Int /\ NextOffset(t) \in Int
         /\ LastOffset(t) \in Int /\ OffsetRead(t) \in Int
<1>1. offsets.first \in Int /\ offsets.last \in Int /\ starttimeoffset \in Int
  BY DEF TypeOK
<1>2. HeaderOffset(t) \in Int
  BY OffsetAssumption DEF HeaderOffset, Time
<1>3. FirstOffset(t) \in Int /\ LastOffset(t) \in Int /\ OffsetRead(t) \in Int
  BY <1>1, <1>2 DEF FirstOffset, LastOffset, OffsetRead, HeaderRead
<1>4. NextOffset(t) \in Int
  BY <1>2, <1>3 DEF NextOffset, HeaderRead
<1>5. QED
  BY <1>2, <1>3, <1>4

\* What a chunk more does to the metadata.
LEMMA ListType ==
  ASSUME TInv, pc = "copy", NEW t \in left
  PROVE  LET o == OpenSegment(meta, t).start IN
         /\ ListChunk(t) \in Meta
         /\ ListChunk(t).listed = meta.listed \cup {t}
         /\ ListChunk(t).offset = meta.offset
         /\ o \in Int /\ o = IF meta.listed = {} THEN Min(found) - FirstOffset(t) ELSE meta.start
         /\ gap(t) \/ After(t) = {} =>
              /\ ListChunk(t).segments = meta.segments \cup {<<o, t + 1 - LastOffset(t)>>}
              /\ ListChunk(t).open = gap(t)
              /\ gap(t) => ListChunk(t).start = Min(After(t)) - NextOffset(t)
         /\ ~ (gap(t) \/ After(t) = {}) =>
              ListChunk(t).segments = meta.segments /\ ListChunk(t).start = o
<1> DEFINE n == OpenSegment(meta, t)
           m == [n EXCEPT !.listed = @ \cup {t}]
<1>1. meta \in Meta /\ found \in SUBSET Time /\ t \in found /\ found # {} /\ t \in Time
  BY DEF TInv, TypeOK, FoundSome
<1>2. Time \subseteq Nat /\ t \in Int
  BY <1>1, MaxTimeAssumption DEF Time
<1>3. Min(found) \in Int
  <2>1. found \in SUBSET Nat
    BY <1>1, <1>2
  <2>2. Min(found) \in found
    BY <1>1, <2>1, MinIsLeast
  <2>3. \A x \in found : x \in Int
    BY <2>1
  <2>4. QED
    BY <2>2, <2>3, Zenon
<1>4. After(t) # {} => Min(After(t)) \in Int
  <2>1. After(t) \in SUBSET Nat
    BY <1>1, <1>2 DEF After
  <2>2. After(t) # {} => Min(After(t)) \in After(t)
    BY <2>1, MinIsLeast
  <2>3. QED
    BY <2>1, <2>2
<1>5. FirstOffset(t) \in Int /\ NextOffset(t) \in Int /\ LastOffset(t) \in Int
  BY <1>1, OffsetTypes DEF TInv
<1>6. gap(t) \in BOOLEAN /\ (gap(t) => After(t) # {})
  BY DEF gap
<1>7. /\ n \in Meta /\ n.listed = meta.listed /\ n.segments = meta.segments
      /\ n.offset = meta.offset
      /\ n.start = IF meta.listed = {} THEN Min(found) - FirstOffset(t) ELSE meta.start
  <2>1. CASE meta.listed = {}
    <3> DEFINE st == Min(found) - FirstOffset(t)
    <3>1. st \in Int
      BY <1>3, <1>5
    <3>2. n = [meta EXCEPT !.start = st, !.open = TRUE]
      BY <2>1 DEF OpenSegment
    <3> HIDE DEF st
    <3>3. QED
      BY <1>1, <2>1, <3>1, <3>2 DEF Meta, st
  <2>2. CASE meta.listed # {}
    BY <1>1, <2>2 DEF OpenSegment
  <2>3. QED
    BY <2>1, <2>2
<1>8. ListChunk(t) = CloseSegment(m, t)
  BY DEF ListChunk
<1> HIDE DEF n
<1>9. /\ m \in Meta /\ m.listed = meta.listed \cup {t} /\ m.segments = meta.segments
      /\ m.start = n.start /\ m.offset = meta.offset
  BY <1>1, <1>7 DEF Meta
<1> HIDE DEF m
<1>10. m.start \in Int /\ n.start \in Int
  BY <1>9 DEF Meta
<1>11. CASE gap(t) \/ After(t) = {}
  <2> DEFINE seg == <<m.start, t + 1 - LastOffset(t)>>
             segs == m.segments \cup {seg}
             st == IF gap(t) THEN Min(After(t)) - NextOffset(t) ELSE m.start
  <2>1. CloseSegment(m, t) = [m EXCEPT !.segments = segs, !.start = st, !.open = gap(t)]
    BY <1>11 DEF CloseSegment
  <2>2. seg \in Int \X Int /\ st \in Int
    BY <1>2, <1>4, <1>5, <1>6, <1>10
  <2> HIDE DEF seg, st
  <2>3. segs \in SUBSET (Int \X Int)
    BY <1>9, <2>2 DEF Meta
  <2> HIDE DEF segs
  <2>4. CloseSegment(m, t) = [listed |-> m.listed, segments |-> segs, open |-> gap(t),
                              start |-> st, offset |-> m.offset]
    BY <1>9, <2>1 DEF Meta
  <2>5. m.listed \in SUBSET Time /\ m.offset \in Int
    BY <1>9 DEF Meta
  <2>6. CloseSegment(m, t) \in Meta
    BY <1>6, <2>2, <2>3, <2>4, <2>5 DEF Meta
  <2>7. /\ CloseSegment(m, t).segments = segs /\ CloseSegment(m, t).open = gap(t)
        /\ CloseSegment(m, t).start = st /\ CloseSegment(m, t).listed = m.listed
        /\ CloseSegment(m, t).offset = m.offset
    BY <2>4
  <2>8. QED
    BY <1>7, <1>8, <1>9, <1>10, <1>11, <2>6, <2>7 DEF n, seg, segs, st
<1>12. CASE ~ (gap(t) \/ After(t) = {})
  <2>1. CloseSegment(m, t) = m
    BY <1>12 DEF CloseSegment
  <2>2. QED
    BY <1>7, <1>8, <1>9, <1>10, <1>12, <2>1 DEF n
<1>13. QED
  BY <1>11, <1>12

\* The times of the video found are times.
LEMMA FoundRangeType ==
  ASSUME TInv, pc = "main"
  PROVE  FoundRange \in Time \X (1 .. MaxTime + 1)
<1>1. found \in SUBSET Time /\ found # {} /\ Time \subseteq Nat
  BY MaxTimeAssumption DEF TInv, TypeOK, FoundSome, Time
<1>2. Min(found) \in Time /\ Max(found) \in Time
  BY <1>1, MinIsLeast, MaxIsElement
<1>3. QED
  BY <1>2, MaxTimeAssumption DEF FoundRange, Time

\* The statuses of a failure.
FailureStatus == Statuses \ {"OK_FULL"}

\* A failed attempt is followed by one on the next drive or by the reply.
LEMMA TryNextStep ==
  ASSUME TInv, pc \notin {"idle", "reply"}, NEW s \in FailureStatus, TryNext(s),
         handles' = {}, dir' \in [Locations -> Directory],
         range' \in Time \X (1 .. MaxTime + 1), starttimeoffset' \in Int
  PROVE  TInv' /\ pc' \in {"validate", "reply"} /\ ~ Succeeded'
<1>1. TypeOK /\ HasDrive /\ FoundIsRecorded
  BY DEF TInv
<1>2. todo \in Seq(Drives) /\ todo # <<>> /\ todo' = Tail(todo)
  BY <1>1 DEF TypeOK, HasDrive, TryNext
<1>3. todo' \in Seq(Drives) /\ (Len(todo) > 1 => todo' # <<>>)
  <2>1. todo' \in Seq(Drives) /\ Len(todo) \in Nat /\ Len(todo') = Len(todo) - 1
    BY <1>2
  <2>. DEFINE n == Len(todo)  k == Len(todo')
  <2>2. n \in Nat /\ k = n - 1
    BY <2>1
  <2>3. n > 1 => k # 0
    <3>. HIDE DEF n, k
    <3>. QED
      BY <2>2
  <2>4. QED
    BY <2>1, <2>3
<1>4. UNCHANGED <<now, disk, loc>> /\ s \in Statuses /\ s # "OK_FULL"
  BY DEF TryNext, driveVars, FailureStatus
<1>5. CASE Len(todo) > 1
  <2>1. Begin
    BY <1>5 DEF TryNext
  <2>2. /\ pc' = "validate" /\ status' = "FAILURE" /\ found' = {} /\ left' = {} /\ meta' = NoMeta
        /\ offsets' = NoOffsets
    BY <2>1 DEF Begin
  <2>3. TypeOK'
    BY <1>1, <1>3, <1>4, <2>2, EmptyType DEF TypeOK, Statuses
  <2>4. QED
    BY <1>3, <1>5, <2>2, <2>3 DEF TInv, HasDrive, FoundIsRecorded, FoundSome, OpenWhileWriting,
       FreshMeta, Succeeded
<1>6. CASE ~ (Len(todo) > 1)
  <2>1. /\ pc' = "reply" /\ status' = s /\ found' = found /\ left' = left /\ meta' = meta
        /\ offsets' = offsets
    BY <1>6 DEF TryNext, attemptVars
  <2>2. TypeOK'
    BY <1>1, <1>3, <1>4, <2>1 DEF TypeOK
  <2>3. QED
    BY <1>1, <1>4, <2>1, <2>2 DEF TInv, HasDrive, FoundIsRecorded, FoundSome, OpenWhileWriting,
       FreshMeta, Succeeded
<1>7. QED
  BY <1>5, <1>6

\* The initial states.
LEMMA TInvInit == Init => TInv
<1> SUFFICES ASSUME Init PROVE TInv
  OBVIOUS
<1>1. dir \in [Locations -> Directory]
  <2>1. [EmptyDir EXCEPT !.here.files = {"foreign"}] \in Directory
    BY EmptyType DEF EmptyDir, Empty, Directory, Content, Names
  <2>2. QED
    BY <2>1, EmptyType DEF Init
<1>2. TypeOK
  <2>1. range \in Time \X (1 .. MaxTime + 1) /\ starttimeoffset \in Int
    BY MaxTimeAssumption DEF Init, Time
  <2>2. todo \in Seq(Drives)
    BY DEF Init
  <2>3. now \in Time /\ disk \in [Drives -> SUBSET (1 .. now)] /\ loc \in Locations
    BY DEF Init
  <2>4. found \in SUBSET Time /\ left \in SUBSET found /\ handles \in SUBSET {"meta", "hash"}
    BY DEF Init
  <2>5. /\ pc = "idle" /\ meta \in Meta /\ status \in Statuses
        /\ offsets \in [first : Int, last : Int]
    BY EmptyType DEF Init, Statuses
  <2>6. QED
    BY <1>1, <2>1, <2>2, <2>3, <2>4, <2>5 DEF TypeOK
<1>3. QED
  BY <1>2 DEF Init, TInv, HasDrive, FoundIsRecorded, FoundSome, OpenWhileWriting,
     FreshMeta, Succeeded

\* A failed attempt: the cases of Fail.
LEMMA FailStep ==
  ASSUME TInv, pc \notin {"idle", "reply"}, NEW s \in FailureStatus, Fail(s),
         dir' \in [Locations -> Directory],
         range' \in Time \X (1 .. MaxTime + 1), starttimeoffset' \in Int
  PROVE  TInv' /\ pc' \in {"validate", "reply"} /\ ~ Succeeded'
BY TryNextStep DEF Fail, cleanup

\* What every failing step of an attempt leads to.
Failed == pc' \in {"validate", "reply"} /\ ~ Succeeded'

\* The steps that end an attempt without success.
Failure ==
  \/ ValidateFails
  \/ \E s \in {"FAILURE", "RANGE_ERR"} : SearchFails(s)
  \/ InitMetaFails \/ SizeIsWrong
  \/ \E t \in Time : CopyFails(t)
  \/ NothingCopied \/ MainDataFails \/ ArchiveFails

\* They keep the types and lead to the next attempt or to the reply.
LEMMA FailureStep ==
  ASSUME TInv, Failure
  PROVE  TInv' /\ Failed
<1>1. /\ TypeOK /\ OpenWhileWriting /\ dir \in [Locations -> Directory]
      /\ range \in Time \X (1 .. MaxTime + 1) /\ starttimeoffset \in Int
  BY DEF TInv, TypeOK
<1>2. /\ "INTERNAL_ERR" \in FailureStatus /\ "FAILURE" \in FailureStatus
      /\ "RANGE_ERR" \in FailureStatus /\ "SIZE_ERR" \in FailureStatus
  BY DEF FailureStatus, Statuses
<1>3. ASSUME NEW t \in Time PROVE OffsetRead(t) \in Int
  BY <1>1, OffsetTypes
<1>4. CASE ValidateFails
  <2>1. handles' = {}
    BY <1>1, <1>4 DEF ValidateFails, OpenWhileWriting
  <2>2. dir' \in [Locations -> Directory]
    BY <1>1, <1>4, CleanType DEF ValidateFails
  <2>3. QED
    BY <1>1, <1>2, <1>4, <2>1, <2>2, TryNextStep DEF ValidateFails, Failed
<1>5. ASSUME NEW s \in {"FAILURE", "RANGE_ERR"}, SearchFails(s) PROVE TInv' /\ Failed
  <2>1. handles' = {}
    BY <1>1, <1>5 DEF SearchFails, OpenWhileWriting
  <2>2. QED
    BY <1>1, <1>2, <1>5, <2>1, TryNextStep DEF SearchFails, Failed
<1>6. CASE InitMetaFails
  <2>1. dir' \in [Locations -> Directory]
    BY <1>1, <1>6, CreateType DEF InitMetaFails, Names
  <2>2. QED
    BY <1>1, <1>2, <1>6, <2>1, FailStep DEF InitMetaFails, Failed
<1>7. CASE SizeIsWrong
  BY <1>1, <1>2, <1>7, FailStep DEF SizeIsWrong, Failed
<1>8. ASSUME NEW t \in Time, CopyFails(t) PROVE TInv' /\ Failed
  <2>1. dir' \in [Locations -> Directory] /\ starttimeoffset' \in Int
    BY <1>1, <1>3, <1>8, PutType DEF CopyFails, IsNext
  <2>2. QED
    BY <1>1, <1>2, <1>8, <2>1, FailStep DEF CopyFails, IsNext, Failed
<1>9. CASE NothingCopied
  BY <1>1, <1>2, <1>9, FailStep DEF NothingCopied, Failed
<1>10. CASE MainDataFails
  <2>1. dir' \in [Locations -> Directory]
    BY <1>1, <1>10, ZenonT(60) DEF MainDataFails, TypeOK, Directory, Content
  <2>2. range' \in Time \X (1 .. MaxTime + 1) /\ starttimeoffset' \in Int
    BY <1>10, FoundRangeType, MaxTimeAssumption DEF MainDataFails
  <2>3. QED
    BY <1>2, <1>10, <2>1, <2>2, FailStep DEF MainDataFails, Failed
<1>11. CASE ArchiveFails
  <2>1. dir' \in [Locations -> Directory]
    BY <1>1, <1>11, CleanType DEF ArchiveFails
  <2>2. pc \notin {"idle", "reply"}
    BY <1>11 DEF ArchiveFails
  <2>3. QED
    BY <1>1, <1>2, <1>11, <2>1, <2>2, FailStep DEF ArchiveFails, Failed
<1>12. QED
  BY <1>4, <1>5, <1>6, <1>7, <1>8, <1>9, <1>10, <1>11 DEF Failure

\* Every step keeps the types.
LEMMA TInvNext == TInv /\ [Next]_vars => TInv'
<1> SUFFICES ASSUME TInv, [Next]_vars PROVE TInv'
  OBVIOUS
<1> USE DEF driveVars, dirVars, attemptVars
<1>0. /\ TypeOK /\ HasDrive /\ FoundIsRecorded /\ FoundSome /\ OpenWhileWriting
      /\ FreshMeta
  BY DEF TInv
<1>1. ASSUME NEW l \in Locations, NEW r \in Ranges, NEW plan \in Plans, Request(l, r, plan)
      PROVE  TInv'
  <2>1. range' \in Time \X (1 .. MaxTime + 1)
    BY <1>1, MaxTimeAssumption DEF Request, Ranges, Time
  <2>2. todo' \in Seq(Drives) /\ todo' # <<>>
    <3>1. "SSD" \in Drives /\ "CHM" \in Drives
      BY DEF Drives
    <3>2. todo' = <<"SSD", "CHM">> \/ todo' = <<"SSD">> \/ todo' = <<"CHM">>
      BY <1>1 DEF Request, Plans
    <3>3. CASE todo' = <<"SSD", "CHM">>
      BY <3>1, <3>3
    <3>4. CASE todo' = <<"SSD">>
      BY <3>1, <3>4
    <3>5. CASE todo' = <<"CHM">>
      BY <3>1, <3>5
    <3>6. QED
      BY <3>2, <3>3, <3>4, <3>5
  <2>3. /\ pc' = "validate" /\ status' = "FAILURE" /\ found' = {} /\ left' = {} /\ meta' = NoMeta
        /\ offsets' = NoOffsets /\ loc' = l /\ UNCHANGED <<now, disk, dir, handles, starttimeoffset>> /\ pc = "idle"
    BY <1>1 DEF Request, Begin
  <2>4. TypeOK'
    BY <1>0, <1>1, <2>1, <2>2, <2>3, EmptyType DEF TypeOK, Statuses
  <2>5. QED
    BY <1>0, <2>2, <2>3, <2>4 DEF TInv, HasDrive, FoundIsRecorded, FoundSome, OpenWhileWriting,
       FreshMeta, Succeeded
<1>2. ASSUME NEW l \in Locations, get_snapshot(l) PROVE TInv'
  <2>1. dir' \in [Locations -> Directory]
    <3>1. dir' = [dir EXCEPT ![l].here.files = @ \cup {"snapshot"}]
      BY <1>2 DEF get_snapshot
    <3>2. {"snapshot"} \subseteq Names
      BY DEF Names
    <3>3. QED
      BY <1>0, <3>1, <3>2, ZenonT(60) DEF TypeOK, Directory, Content
  <2>2. TypeOK'
    BY <1>0, <1>2, <2>1 DEF get_snapshot, TypeOK
  <2>3. QED
    BY <1>0, <1>2, <2>2 DEF get_snapshot, TInv, HasDrive, FoundIsRecorded, FoundSome,
       OpenWhileWriting, FreshMeta, Succeeded
<1>3. CASE validate_destination
  <2>1. TypeOK'
    BY <1>0, <1>3, CleanType DEF validate_destination, TypeOK
  <2>2. QED
    BY <1>0, <1>3, <2>1 DEF validate_destination, TInv, HasDrive, FoundIsRecorded, FoundSome,
       OpenWhileWriting, FreshMeta, Succeeded
<1>4. CASE retrive_data
  <2>1. Head(todo) \in Drives
    BY <1>0, <1>4 DEF retrive_data, HasDrive, TypeOK
  <2>2. found' \subseteq 1 .. now
    BY <1>0, <1>4, <2>1 DEF retrive_data, InRange, TypeOK
  <2>3. found' \in SUBSET Time /\ left \subseteq found'
    <3>1. 1 .. now \subseteq Time
      BY <1>0, MaxTimeAssumption DEF TypeOK, Time
    <3>2. left = {}
      BY <1>0, <1>4 DEF retrive_data, FreshMeta
    <3>3. QED
      BY <2>2, <3>1, <3>2
  <2>4. TypeOK'
    BY <1>0, <1>4, <2>3 DEF retrive_data, TypeOK
  <2>5. QED
    BY <1>0, <1>4, <2>2, <2>4 DEF retrive_data, TInv, HasDrive, FoundIsRecorded, FoundSome,
       OpenWhileWriting, FreshMeta, Succeeded
<1>5. CASE init_meta_file
  <2>1. TypeOK'
    BY <1>0, <1>5, CreateType DEF init_meta_file, TypeOK, Names
  <2>2. QED
    BY <1>0, <1>5, <2>1 DEF init_meta_file, TInv, HasDrive, FoundIsRecorded, FoundSome,
       OpenWhileWriting, FreshMeta, Succeeded
<1>6. CASE SizeIsRight
  <2>1. TypeOK'
    BY <1>0, <1>6 DEF SizeIsRight, TypeOK
  <2>2. QED
    BY <1>0, <1>6, <2>1 DEF SizeIsRight, TInv, HasDrive, FoundIsRecorded, FoundSome,
       OpenWhileWriting, FreshMeta, NoMeta, Succeeded
<1>7. ASSUME NEW t \in Time, CopyChunk(t) \/ CopyHangs(t) PROVE TInv'
  <2>1. t \in left /\ pc = "copy" /\ found' = found
    BY <1>7 DEF CopyChunk, CopyHangs, IsNext
  <2>2. ListChunk(t) \in Meta
    BY <2>1, ListType
  <2>3. starttimeoffset' \in Int /\ offsets' \in [first : Int, last : Int]
    <3>1. OffsetRead(t) \in Int /\ NextOffset(t) \in Int /\ LastOffset(t) \in Int
      BY <1>0, OffsetTypes
    <3>2. QED
      BY <1>0, <1>7, <3>1 DEF CopyChunk, CopyHangs, TypeOK
  <2>4. TypeOK'
    BY <1>0, <1>7, <2>1, <2>2, <2>3, PutType DEF CopyChunk, CopyHangs, TypeOK
  <2>5. QED
    BY <1>0, <1>7, <2>1, <2>4 DEF CopyChunk, CopyHangs, TInv, HasDrive, FoundIsRecorded, FoundSome,
       OpenWhileWriting, FreshMeta, Succeeded
<1>8. ASSUME NEW t \in Time, SkipChunk(t) PROVE TInv'
  <2>1. TypeOK'
    BY <1>0, <1>8 DEF SkipChunk, IsNext, TypeOK
  <2>2. QED
    BY <1>0, <1>8, <2>1 DEF SkipChunk, IsNext, TInv, HasDrive, FoundIsRecorded, FoundSome,
       OpenWhileWriting, FreshMeta, Succeeded
<1>9. CASE CopyDone
  <2>1. TypeOK'
    BY <1>0, <1>9 DEF CopyDone, TypeOK
  <2>2. QED
    BY <1>0, <1>9, <2>1 DEF CopyDone, TInv, HasDrive, FoundIsRecorded, FoundSome,
       OpenWhileWriting, FreshMeta, Succeeded
<1>10. CASE insert_maindata
  <2> DEFINE m == [meta EXCEPT !.offset = starttimeoffset]
  <2>1. m \in Meta
    BY <1>0 DEF TypeOK, Meta
  <2>2. dir' = [dir EXCEPT
          ![loc].here.files = (@ \ {"metadata.xml", "temp_hash"}) \cup {"metadata.dat"},
          ![loc].here.meta = m]
    BY <1>10 DEF insert_maindata
  <2>3. meta' = m
    BY <1>10 DEF insert_maindata
  <2> HIDE DEF m
  <2>4. dir' \in [Locations -> Directory]
    <3> DEFINE f == (dir[loc].here.files \ {"metadata.xml", "temp_hash"}) \cup {"metadata.dat"}
               h == [dir[loc].here EXCEPT !.files = f]
               k == [h EXCEPT !.meta = m]
    <3>1. dir[loc] \in Directory /\ dir[loc].here \in Content /\ dir \in [Locations -> Directory]
      BY <1>0 DEF TypeOK, Directory
    <3>2. f \in SUBSET Names
      BY <3>1 DEF Content, Names
    <3> HIDE DEF f
    <3>3. h \in Content
      BY <3>1, <3>2 DEF Content
    <3> HIDE DEF h
    <3>4. k \in Content
      BY <2>1, <3>3 DEF Content
    <3>5. dir' = [dir EXCEPT ![loc].here = k]
      BY <2>2, <3>1 DEF Directory, f, h
    <3> HIDE DEF k
    <3>6. QED
      BY <3>1, <3>4, <3>5 DEF Directory
  <2>5. range' \in Time \X (1 .. MaxTime + 1)
    BY <1>10, FoundRangeType DEF insert_maindata
  <2>6. TypeOK'
    <3>1. starttimeoffset' \in Int /\ handles' \in SUBSET {"meta", "hash"} /\ pc' = "zip"
      BY <1>10, <1>0, MaxTimeAssumption DEF insert_maindata, TypeOK
    <3>2. UNCHANGED <<now, disk, loc, todo, found, left, offsets, status>>
      BY <1>10 DEF insert_maindata
    <3>3. QED
      BY <1>0, <2>1, <2>3, <2>4, <2>5, <3>1, <3>2 DEF TypeOK
  <2>7. handles' = {}
    BY <1>0, <1>10 DEF insert_maindata, TypeOK
  <2>8. QED
    BY <1>0, <1>10, <2>6, <2>7 DEF insert_maindata, TInv, HasDrive, FoundIsRecorded, FoundSome,
       OpenWhileWriting, FreshMeta, Succeeded
<1>11. CASE zip_files
  <2>1. Zipped(loc) \in Directory
    BY <1>0, EmptyType DEF TypeOK, Zipped, Directory, Content
  <2>2. TypeOK'
    BY <1>0, <1>11, <2>1 DEF zip_files, TypeOK
  <2>3. QED
    BY <1>0, <1>11, <2>2 DEF zip_files, TInv, HasDrive, FoundIsRecorded, FoundSome,
       OpenWhileWriting, FreshMeta, Succeeded
<1>12. CASE EncryptArchive
  <2>1. dir' \in [Locations -> Directory]
    BY <1>0, <1>12, EmptyType DEF EncryptArchive, TypeOK, Directory
  <2>2. TypeOK'
    BY <1>0, <1>12, <2>1 DEF EncryptArchive, TypeOK, Statuses, cleanup
  <2>3. QED
    BY <1>0, <1>12, <2>2 DEF EncryptArchive, TInv, HasDrive, FoundIsRecorded, FoundSome,
       OpenWhileWriting, FreshMeta, Succeeded, cleanup
<1>13. CASE Reply
  <2>1. range' \in Time \X (1 .. MaxTime + 1) /\ todo' \in Seq(Drives)
    BY <1>13, MaxTimeAssumption DEF Reply, Time
  <2>2. TypeOK'
    BY <1>0, <1>13, <2>1, EmptyType DEF Reply, TypeOK, Statuses
  <2>3. QED
    BY <1>0, <1>13, <2>2 DEF Reply, TInv, HasDrive, FoundIsRecorded, FoundSome,
       OpenWhileWriting, FreshMeta, Succeeded
<1>14. ASSUME NEW drives \in SUBSET Drives, Record(drives) PROVE TInv'
  <2>1. now' \in Time /\ 1 .. now \subseteq 1 .. now' /\ now' \in 1 .. now'
    BY <1>0, <1>14, MaxTimeAssumption DEF Record, TypeOK, Time
  <2>2. disk' \in [Drives -> SUBSET (1 .. now')]
    BY <1>0, <1>14, <2>1 DEF Record, TypeOK
  <2>3. TypeOK'
    BY <1>0, <1>14, <2>1, <2>2 DEF Record, Rest, TypeOK
  <2>4. QED
    BY <1>0, <1>14, <2>1, <2>3 DEF Record, Rest, TInv, HasDrive, FoundIsRecorded, FoundSome,
       OpenWhileWriting, FreshMeta, Succeeded
<1>15. ASSUME NEW d \in Drives, NEW t \in Time, Groom(d, t) PROVE TInv'
  <2>1. TypeOK'
    BY <1>0, <1>15 DEF Groom, Rest, TypeOK
  <2>2. QED
    BY <1>0, <1>15, <2>1 DEF Groom, Rest, TInv, HasDrive, FoundIsRecorded, FoundSome,
       OpenWhileWriting, FreshMeta, Succeeded
<1>16. CASE Failure
  BY <1>16, FailureStep
<1>17. CASE UNCHANGED vars
  BY <1>17 DEF vars, TInv, TypeOK, HasDrive, FoundIsRecorded, FoundSome, OpenWhileWriting,
     FreshMeta, Succeeded
<1>18. QED
  BY <1>1, <1>2, <1>3, <1>4, <1>5, <1>6, <1>7, <1>8, <1>9, <1>10, <1>11, <1>12, <1>13, <1>14,
     <1>15, <1>16, <1>17 DEF Next, Step, Failure, ReadAgain

\* The download keeps its types: no request, failure, recording or grooming,
\* in any order, puts a value out of range.
THEOREM DownloadTypeCorrect == Spec => []TypeOK
<1>1. TInv => TypeOK
  BY DEF TInv
<1>2. QED
  BY <1>1, TInvInit, TInvNext, PTL DEF Spec

\* No attempt leaves meta_fp or temp_hash_fp open, on any way it fails.
THEOREM FilesAreClosedAlways == Spec => []FilesAreClosed
<1>1. TInv => FilesAreClosed
  BY DEF TInv, OpenWhileWriting, FilesAreClosed
<1>2. QED
  BY <1>1, TInvInit, TInvNext, PTL DEF Spec

----------------------------------------------------------------------------
(* The archive.                                                            *)

\* A directory that was validated is empty.
StagedEmpty == pc \in {"search", "init"} => dir[loc] = EmptyDir

\* While chunks are copied it holds those listed, and the two open files.
StagedCopies ==
  pc \in {"size", "copy", "main"} =>
    /\ dir[loc].here.chunks = meta.listed
    /\ dir[loc].here.files = {"metadata.xml", "temp_hash"}
    /\ dir[loc].zip = Empty

\* What the archive has to be.
WholeContent(c) ==
  /\ c.chunks = meta.listed
  /\ c.meta.listed = meta.listed
  /\ c.files = {"metadata.dat"}

\* With the metadata finished the directory is what the archive has to be,
\* then the archive is, and at last the encrypted archive.
StagedWhole ==
  /\ pc = "zip" => WholeContent(dir[loc].here) /\ dir[loc].zip = Empty
  /\ pc = "encrypt" => WholeContent(dir[loc].zip)
  /\ Succeeded => WholeContent(dir[loc].lvdat)

\* No chunk that was found and is still there is missed.
NothingMissed ==
  /\ pc = "copy" => found \cap disk[Head(todo)] \subseteq meta.listed \cup left
  /\ pc \in {"main", "zip", "encrypt"} \/ Succeeded =>
       found \cap disk[Head(todo)] \subseteq meta.listed

AInv ==
  /\ loc \in StageLocations => StagedEmpty /\ StagedCopies /\ StagedWhole
  /\ NothingMissed

\* After a failure nothing is claimed.
LEMMA AInvFailed == Failed => AInv'
BY DEF Failed, AInv, StagedEmpty, StagedCopies, StagedWhole, NothingMissed

\* Nothing is claimed of the initial states.
LEMMA AInvInit == Init => AInv
BY DEF Init, AInv, StagedEmpty, StagedCopies, StagedWhole, NothingMissed, Succeeded

\* The empty contents hold nothing.
LEMMA EmptyHoldsNothing ==
  /\ Empty.chunks = {} /\ Empty.files = {}
  /\ EmptyDir.here = Empty /\ EmptyDir.zip = Empty
BY DEF Empty, EmptyDir

\* Every step keeps what is said of the staging directory.
LEMMA AInvNext == TInv /\ AInv /\ [Next]_vars => AInv'
<1> SUFFICES ASSUME TInv, AInv, [Next]_vars PROVE AInv'
  OBVIOUS
<1> USE DEF driveVars, dirVars, attemptVars
<1>0. /\ TypeOK /\ HasDrive /\ FoundIsRecorded /\ FreshMeta
      /\ dir \in [Locations -> Directory] /\ loc \in Locations /\ dir[loc] \in Directory
  BY DEF TInv, TypeOK
<1>1. ASSUME NEW l \in Locations, NEW r \in Ranges, NEW plan \in Plans, Request(l, r, plan)
      PROVE  AInv'
  BY <1>1 DEF Request, Begin, AInv, StagedEmpty, StagedCopies, StagedWhole, NothingMissed,
     Succeeded
<1>2. ASSUME NEW l \in Locations, get_snapshot(l) PROVE AInv'
  BY <1>2 DEF get_snapshot, AInv, StagedEmpty, StagedCopies, StagedWhole, NothingMissed,
     Succeeded
<1>3. CASE validate_destination
  <2>1. loc \in StageLocations => dir'[loc] = EmptyDir
    BY <1>0, <1>3 DEF validate_destination, clean_download_dir
  <2>2. QED
    BY <1>3, <2>1 DEF validate_destination, AInv, StagedEmpty, StagedCopies, StagedWhole,
       NothingMissed, Succeeded
<1>4. CASE retrive_data
  BY <1>4 DEF retrive_data, AInv, StagedEmpty, StagedCopies, StagedWhole, NothingMissed,
     Succeeded
<1>5. CASE init_meta_file
  <2>1. loc \in StageLocations => dir[loc] = EmptyDir
    BY <1>5 DEF init_meta_file, AInv, StagedEmpty
  <2>2. /\ dir'[loc].here.files = dir[loc].here.files \cup {"metadata.xml", "temp_hash"}
        /\ dir'[loc].here.chunks = dir[loc].here.chunks
        /\ dir'[loc].zip = dir[loc].zip
    BY <1>0, <1>5 DEF init_meta_file, Create, Directory, Content
  <2>3. loc' = loc /\ meta' = meta /\ meta.listed = {} /\ pc' = "size"
    BY <1>0, <1>5 DEF init_meta_file, FreshMeta, NoMeta
  <2>4. loc \in StageLocations => StagedCopies'
    BY <2>1, <2>2, <2>3, EmptyHoldsNothing DEF StagedCopies
  <2>5. QED
    BY <2>3, <2>4 DEF AInv, StagedEmpty, StagedWhole, NothingMissed, Succeeded
<1>6. CASE SizeIsRight
  BY <1>6 DEF SizeIsRight, AInv, StagedEmpty, StagedCopies, StagedWhole, NothingMissed,
     Succeeded
<1>7. ASSUME NEW t \in Time, CopyChunk(t) PROVE AInv'
  <2>1. /\ t \in left /\ pc = "copy" /\ meta' = ListChunk(t) /\ left' = left \ {t}
        /\ UNCHANGED <<found, disk, todo, loc, pc>>
    BY <1>7 DEF CopyChunk, IsNext
  <2>2. meta'.listed = meta.listed \cup {t}
    BY <2>1, ListType
  <2>3. /\ dir'[loc].here.files = dir[loc].here.files
        /\ dir'[loc].here.chunks = dir[loc].here.chunks \cup {t}
        /\ dir'[loc].zip = dir[loc].zip
    BY <1>0, <1>7 DEF CopyChunk, PutChunk, Directory, Content
  <2>4. loc \in StageLocations => StagedCopies'
    BY <2>1, <2>2, <2>3 DEF AInv, StagedCopies
  <2>5. NothingMissed'
    BY <2>1, <2>2 DEF AInv, NothingMissed, Succeeded
  <2>6. QED
    BY <2>1, <2>4, <2>5 DEF AInv, StagedEmpty, StagedWhole, Succeeded
<1>8. ASSUME NEW t \in Time, SkipChunk(t) \/ CopyHangs(t) PROVE AInv'
  BY <1>8 DEF SkipChunk, CopyHangs, IsNext, AInv, StagedEmpty, StagedCopies, StagedWhole, NothingMissed,
     Succeeded
<1>9. CASE CopyDone
  BY <1>9 DEF CopyDone, AInv, StagedEmpty, StagedCopies, StagedWhole, NothingMissed,
     Succeeded
<1>10. CASE insert_maindata
  <2> DEFINE m == [meta EXCEPT !.offset = starttimeoffset]
  <2>1. m.listed = meta.listed
    BY <1>0 DEF TypeOK, Meta
  <2>2. meta' = m /\ pc = "main" /\ pc' = "zip" /\ UNCHANGED <<disk, todo, found, loc>>
    BY <1>10 DEF insert_maindata
  <2>3. dir' = [dir EXCEPT
          ![loc].here.files = (@ \ {"metadata.xml", "temp_hash"}) \cup {"metadata.dat"},
          ![loc].here.meta = m]
    BY <1>10 DEF insert_maindata
  <2> HIDE DEF m
  <2>4. /\ dir'[loc].here.files
             = (dir[loc].here.files \ {"metadata.xml", "temp_hash"}) \cup {"metadata.dat"}
        /\ dir'[loc].here.meta = m
        /\ dir'[loc].here.chunks = dir[loc].here.chunks
        /\ dir'[loc].zip = dir[loc].zip
    BY <1>0, <2>3 DEF Directory, Content
  <2>5. loc \in StageLocations => StagedWhole'
    BY <2>1, <2>2, <2>4 DEF AInv, StagedCopies, StagedWhole, WholeContent, Succeeded
  <2>6. NothingMissed'
    BY <2>1, <2>2 DEF AInv, NothingMissed, Succeeded
  <2>7. QED
    BY <2>2, <2>5, <2>6 DEF AInv, StagedEmpty, StagedCopies
<1>11. CASE zip_files
  <2>1. dir'[loc] = Zipped(loc) /\ pc = "zip" /\ pc' = "encrypt"
    BY <1>0, <1>11 DEF zip_files
  <2>2. /\ dir'[loc].zip.chunks = dir[loc].zip.chunks \cup dir[loc].here.chunks
        /\ dir'[loc].zip.files = dir[loc].zip.files \cup dir[loc].here.files
        /\ dir'[loc].zip.meta = dir[loc].here.meta
    BY <2>1 DEF Zipped
  <2>3. loc \in StageLocations => StagedWhole'
    BY <1>11, <2>1, <2>2, EmptyHoldsNothing DEF zip_files, AInv, StagedWhole, WholeContent,
       Succeeded
  <2>4. QED
    BY <1>11, <2>3 DEF zip_files, AInv, StagedEmpty, StagedCopies, NothingMissed, Succeeded
<1>12. CASE EncryptArchive
  <2>1. dir'[loc].lvdat = dir[loc].zip
    BY <1>0, <1>12 DEF EncryptArchive, Directory
  <2>2. loc \in StageLocations => StagedWhole'
    BY <1>12, <2>1 DEF EncryptArchive, AInv, StagedWhole, WholeContent, Succeeded
  <2>3. QED
    BY <1>12, <2>2 DEF EncryptArchive, AInv, StagedEmpty, StagedCopies, NothingMissed, Succeeded
<1>13. CASE Reply
  BY <1>13 DEF Reply, AInv, StagedEmpty, StagedCopies, StagedWhole, NothingMissed, Succeeded
<1>14. ASSUME NEW drives \in SUBSET Drives, Record(drives) PROVE AInv'
  <2>1. now + 1 \notin found
    BY <1>0, MaxTimeAssumption DEF FoundIsRecorded, TypeOK, Time
  <2>2. todo # <<>> => found \cap disk'[Head(todo)] \subseteq found \cap disk[Head(todo)]
    BY <1>0, <1>14, <2>1 DEF Record, TypeOK
  <2>3. NothingMissed'
    BY <1>0, <1>14, <2>2 DEF Record, Rest, AInv, NothingMissed, HasDrive, Succeeded
  <2>4. QED
    BY <1>14, <2>3 DEF Record, Rest, AInv, StagedEmpty, StagedCopies, StagedWhole,
       WholeContent, Succeeded
<1>15. ASSUME NEW d \in Drives, NEW t \in Time, Groom(d, t) PROVE AInv'
  <2>1. todo # <<>> => disk'[Head(todo)] \subseteq disk[Head(todo)]
    BY <1>0, <1>15 DEF Groom, TypeOK
  <2>2. NothingMissed'
    BY <1>0, <1>15, <2>1 DEF Groom, Rest, AInv, NothingMissed, HasDrive, Succeeded
  <2>3. QED
    BY <1>15, <2>2 DEF Groom, Rest, AInv, StagedEmpty, StagedCopies, StagedWhole,
       WholeContent, Succeeded
<1>16. CASE Failure
  BY <1>16, FailureStep, AInvFailed
<1>17. CASE UNCHANGED vars
  BY <1>17 DEF vars, AInv, StagedEmpty, StagedCopies, StagedWhole, WholeContent, NothingMissed,
     Succeeded
<1>18. QED
  BY <1>1, <1>2, <1>3, <1>4, <1>5, <1>6, <1>7, <1>8, <1>9, <1>10, <1>11, <1>12, <1>13, <1>14,
     <1>15, <1>16, <1>17 DEF Next, Step, Failure, ReadAgain

\* A download reported as DOWNLOAD_OK_FULL from a staging directory left an
\* archive with exactly the chunks its metadata lists, among them every chunk
\* found that the drive still has, whatever earlier attempts left behind.
THEOREM ArchiveIsWholeAlways == Spec => []ArchiveIsWhole
<1>1. TInv /\ AInv => ArchiveIsWhole
  BY DEF AInv, StagedWhole, WholeContent, NothingMissed, ArchiveIsWhole
<1>2. QED
  BY <1>1, TInvInit, TInvNext, AInvInit, AInvNext, PTL DEF Spec

----------------------------------------------------------------------------
(* The start time offset.                                                  *)

\* The copying loop visits the chunks in the order of time.
ListedBeforeLeft == pc = "copy" => \A x \in meta.listed, y \in left : x < y

\* The offset o is that of the first chunk listed.
OffsetOfFirst(o) ==
  \E x \in meta.listed : (\A y \in meta.listed : x <= y) /\ (x \in Unreadable \/ o = HeaderOffset(x))

\* The global belongs to this attempt from its first chunk on, and then the
\* offset in the metadata does.
OffsetIsFirst ==
  /\ pc = "copy" /\ meta.listed # {} => OffsetOfFirst(starttimeoffset)
  /\ pc = "main" => OffsetOfFirst(starttimeoffset)
  /\ pc \in {"zip", "encrypt"} \/ Succeeded => OffsetOfFirst(meta.offset)

OInv == ListedBeforeLeft /\ OffsetIsFirst

\* After a failure nothing is claimed.
LEMMA OInvFailed == Failed => OInv'
BY DEF Failed, OInv, ListedBeforeLeft, OffsetIsFirst

\* Nor is it of the initial states.
LEMMA OInvInit == Init => OInv
BY DEF Init, OInv, ListedBeforeLeft, OffsetIsFirst, Succeeded

\* Every step keeps what is said of the offset.
LEMMA OInvNext == TInv /\ OInv /\ [Next]_vars => OInv'
<1> SUFFICES ASSUME TInv, OInv, [Next]_vars PROVE OInv'
  OBVIOUS
<1> USE DEF driveVars, dirVars, attemptVars
<1>0. TypeOK /\ FreshMeta /\ ListedBeforeLeft /\ OffsetIsFirst
  BY DEF TInv, OInv
<1>1. ASSUME NEW l \in Locations, NEW r \in Ranges, NEW plan \in Plans, Request(l, r, plan)
      PROVE  OInv'
  BY <1>1 DEF Request, Begin, OInv, ListedBeforeLeft, OffsetIsFirst, Succeeded
<1>2. ASSUME NEW l \in Locations, get_snapshot(l) PROVE OInv'
  BY <1>2 DEF get_snapshot, OInv, ListedBeforeLeft, OffsetIsFirst, Succeeded
<1>3. CASE validate_destination \/ retrive_data \/ init_meta_file
  BY <1>3 DEF validate_destination, retrive_data, init_meta_file, OInv, ListedBeforeLeft,
     OffsetIsFirst, Succeeded
<1>4. CASE SizeIsRight
  <2>1. meta'.listed = {} /\ pc' = "copy"
    BY <1>0, <1>4 DEF SizeIsRight, FreshMeta, NoMeta
  <2>2. QED
    BY <2>1 DEF OInv, ListedBeforeLeft, OffsetIsFirst, Succeeded
<1>5. ASSUME NEW t \in Time, CopyChunk(t) PROVE OInv'
  <2>1. /\ t \in left /\ pc = "copy" /\ pc' = "copy" /\ left' = left \ {t}
        /\ starttimeoffset' = OffsetRead(t) /\ \A u \in left : t <= u
    BY <1>5 DEF CopyChunk, IsNext
  <2>2. meta'.listed = meta.listed \cup {t}
    BY <1>5, <2>1, ListType DEF CopyChunk
  <2>3. left \subseteq Int /\ meta.listed \subseteq Int /\ t \in Int
    BY <1>0, <1>5, MaxTimeAssumption DEF TypeOK, Meta, Time
  <2>4. \A x \in meta.listed : x < t
    BY <1>0, <2>1 DEF ListedBeforeLeft
  <2>5. ListedBeforeLeft'
    <3> SUFFICES ASSUME NEW x \in meta.listed \cup {t}, NEW y \in left \ {t} PROVE x < y
      BY <2>1, <2>2 DEF ListedBeforeLeft
    <3>1. x <= t /\ t <= y /\ y # t /\ x \in Int /\ y \in Int
      BY <2>1, <2>3, <2>4
    <3>2. QED
      BY <2>3, <3>1
  <2>6. OffsetOfFirst(starttimeoffset)'
    <3>1. CASE meta.listed = {}
      <4>1. meta'.listed = {t} /\ t \in meta'.listed
        BY <2>2, <3>1
      <4>2. t \in Unreadable \/ starttimeoffset' = HeaderOffset(t)
        BY <2>1, <3>1 DEF OffsetRead, HeaderRead
      <4>3. \A y \in meta'.listed : t <= y
        BY <2>3, <4>1
      <4>4. QED
        BY <4>1, <4>2, <4>3 DEF OffsetOfFirst
    <3>2. CASE meta.listed # {}
      <4>1. starttimeoffset' = starttimeoffset
        BY <2>1, <3>2 DEF OffsetRead
      <4>2. PICK x \in meta.listed : /\ \A y \in meta.listed : x <= y
                                     /\ x \in Unreadable \/ starttimeoffset = HeaderOffset(x)
        BY <1>0, <2>1, <3>2 DEF OffsetIsFirst, OffsetOfFirst
      <4>3. x <= t
        BY <2>3, <2>4
      <4>4. x \in meta'.listed /\ \A y \in meta'.listed : x <= y
        BY <2>2, <4>2, <4>3
      <4>5. QED
        BY <4>1, <4>2, <4>4 DEF OffsetOfFirst
    <3>3. QED
      BY <3>1, <3>2
  <2>7. QED
    BY <2>1, <2>5, <2>6 DEF OInv, OffsetIsFirst, Succeeded
<1>6. ASSUME NEW t \in Time, SkipChunk(t) \/ CopyHangs(t) PROVE OInv'
  BY <1>0, <1>6 DEF SkipChunk, CopyHangs, IsNext, OInv, ListedBeforeLeft, OffsetIsFirst, OffsetOfFirst, Succeeded
<1>7. CASE CopyDone
  BY <1>0, <1>7 DEF CopyDone, OInv, ListedBeforeLeft, OffsetIsFirst, OffsetOfFirst, Succeeded
<1>8. CASE insert_maindata
  <2>1. meta'.listed = meta.listed /\ meta'.offset = starttimeoffset
    BY <1>0, <1>8 DEF insert_maindata, TypeOK, Meta
  <2>2. OffsetOfFirst(starttimeoffset)
    BY <1>0, <1>8 DEF insert_maindata, OffsetIsFirst
  <2>3. OffsetOfFirst(meta.offset)'
    BY <2>1, <2>2 DEF OffsetOfFirst
  <2>4. QED
    BY <1>8, <2>3 DEF insert_maindata, OInv, ListedBeforeLeft, OffsetIsFirst, Succeeded
<1>9. CASE zip_files
  BY <1>0, <1>9 DEF zip_files, OInv, ListedBeforeLeft, OffsetIsFirst, OffsetOfFirst, Succeeded
<1>10. CASE EncryptArchive
  BY <1>0, <1>10 DEF EncryptArchive, OInv, ListedBeforeLeft, OffsetIsFirst, OffsetOfFirst,
     Succeeded
<1>11. CASE Reply
  BY <1>11 DEF Reply, OInv, ListedBeforeLeft, OffsetIsFirst, Succeeded
<1>12. ASSUME NEW drives \in SUBSET Drives, Record(drives) PROVE OInv'
  BY <1>0, <1>12 DEF Record, Rest, OInv, ListedBeforeLeft, OffsetIsFirst, OffsetOfFirst,
     Succeeded
<1>13. ASSUME NEW d \in Drives, NEW t \in Time, Groom(d, t) PROVE OInv'
  BY <1>0, <1>13 DEF Groom, Rest, OInv, ListedBeforeLeft, OffsetIsFirst, OffsetOfFirst, Succeeded
<1>14. CASE Failure
  BY <1>14, FailureStep, OInvFailed
<1>15. CASE UNCHANGED vars
  BY <1>0, <1>15 DEF vars, OInv, ListedBeforeLeft, OffsetIsFirst, OffsetOfFirst, Succeeded
<1>16. QED
  BY <1>1, <1>2, <1>3, <1>4, <1>5, <1>6, <1>7, <1>8, <1>9, <1>10, <1>11, <1>12, <1>13, <1>14,
     <1>15 DEF Next, Step, Failure, ReadAgain

\* The start time offset of a successful download is that of its own first
\* chunk, whichever attempts failed before, unless its header is unreadable.
THEOREM OffsetIsOwnAlways == Spec => []OffsetIsOwn
<1>1. TInv /\ OInv => OffsetIsOwn
  <2> SUFFICES ASSUME TInv, OInv, Succeeded
               PROVE  \/ meta.offset = HeaderOffset(Min(meta.listed))
                      \/ Min(meta.listed) \in Unreadable
    BY DEF OffsetIsOwn
  <2>1. PICK x \in meta.listed : /\ \A y \in meta.listed : x <= y
                                 /\ x \in Unreadable \/ meta.offset = HeaderOffset(x)
    BY DEF OInv, OffsetIsFirst, OffsetOfFirst
  <2>2. meta.listed \in SUBSET Nat
    BY MaxTimeAssumption DEF TInv, TypeOK, Meta, Time
  <2>3. Min(meta.listed) = x
    BY <2>1, <2>2, LeastIsMin
  <2>4. QED
    BY <2>1, <2>3
<1>2. QED
  BY <1>1, TInvInit, TInvNext, OInvInit, OInvNext, PTL DEF Spec

----------------------------------------------------------------------------
(* The segments.                                                           *)

\* The times from a to t are found without a gap, and the one before a is not.
RunFrom(a, t) == a \in found /\ a <= t /\ a .. t \subseteq found /\ a - 1 \notin found

\* The runs of chunks found that end at one of S.
RunsTo(S) == {r \in Runs(found) : r[2] \in S}

\* s is the time at which the run of chunk t begins, by its own offset.
StartsRunOf(s, t) == \E a \in found : RunFrom(a, t) /\ s = a - HeaderOffset(a)

\* As long as nothing was skipped the closed segments are the runs that end at
\* a chunk listed, and the open one has begun the run of the next chunk.
SegmentsSoFar ==
  pc = "copy" /\ meta.listed \cup left = found /\ OffsetsSuffice =>
    /\ meta.segments = {SegmentOf(r) : r \in RunsTo(meta.listed)}
    /\ meta.listed # {} /\ left # {} =>
         \E t \in left : (\A u \in left : t <= u) /\ StartsRunOf(meta.start, t)
    /\ meta.listed # {} /\ left = {} => ~ meta.open

\* At the end they are all the runs.
SegmentsDone ==
  pc \in {"main", "zip", "encrypt"} \/ Succeeded =>
    (meta.listed = found /\ OffsetsSuffice =>
       meta.segments = {SegmentOf(r) : r \in Runs(found)} /\ ~ meta.open)

SInv == SegmentsSoFar /\ SegmentsDone

\* After a failure nothing is claimed.
LEMMA SInvFailed == Failed => SInv'
BY DEF Failed, SInv, SegmentsSoFar, SegmentsDone

\* Nor is it of the initial states.
LEMMA SInvInit == Init => SInv
BY DEF Init, SInv, SegmentsSoFar, SegmentsDone, Succeeded

\* Two runs that end at the same time begin at the same time.
LEMMA RunIsUnique ==
  ASSUME found \in SUBSET Time, NEW a \in found, NEW b \in found, NEW t \in found,
         RunFrom(a, t), RunFrom(b, t)
  PROVE  a = b
<1>1. a \in Int /\ b \in Int /\ t \in Int
  BY MaxTimeAssumption DEF Time
<1>2. ~ (a < b)
  <2> SUFFICES ASSUME a < b PROVE FALSE
    OBVIOUS
  <2>1. b - 1 \in a .. t
    BY <1>1 DEF RunFrom
  <2>2. QED
    BY <2>1 DEF RunFrom
<1>3. ~ (b < a)
  <2> SUFFICES ASSUME b < a PROVE FALSE
    OBVIOUS
  <2>1. a - 1 \in b .. t
    BY <1>1 DEF RunFrom
  <2>2. QED
    BY <2>1 DEF RunFrom
<1>4. QED
  BY <1>1, <1>2, <1>3

\* A run in Runs(found) is a run from its first time to its last.
LEMMA RunsAreRuns ==
  ASSUME found \in SUBSET Time, NEW a \in found, NEW t \in found
  PROVE  <<a, t>> \in Runs(found) <=> RunFrom(a, t) /\ t + 1 \notin found
BY DEF Runs, RunFrom

\* These depend on the chunks found only.
LEMMA SameFound ==
  ASSUME found' = found
  PROVE  /\ OffsetsSuffice' <=> OffsetsSuffice
         /\ \A S : RunsTo(S)' = RunsTo(S)
         /\ \A s, t : StartsRunOf(s, t)' <=> StartsRunOf(s, t)
<1>1. OffsetsSuffice' <=> OffsetsSuffice
  BY DEF OffsetsSuffice, gap, After
<1>2. \A S : RunsTo(S)' = RunsTo(S)
  BY DEF RunsTo
<1>3. \A s, t : StartsRunOf(s, t)' <=> StartsRunOf(s, t)
  BY DEF StartsRunOf, RunFrom
<1>4. QED
  BY <1>1, <1>2, <1>3

\* A chunk more keeps the segments right.
LEMMA SegmentsCopy ==
  ASSUME TInv, OInv, SInv, NEW t \in Time, CopyChunk(t)
  PROVE  SegmentsSoFar'
<1>1. /\ t \in left /\ pc = "copy" /\ pc' = "copy" /\ left' = left \ {t} /\ found' = found
      /\ meta' = ListChunk(t) /\ \A u \in left : t <= u
  BY DEF CopyChunk, IsNext
<1>2. meta'.listed = meta.listed \cup {t}
  BY <1>1, ListType
<1> SUFFICES ASSUME meta.listed \cup left = found, OffsetsSuffice
             PROVE  /\ meta'.segments = {SegmentOf(r) : r \in RunsTo(meta.listed \cup {t})}
                    /\ left' # {} => \E n \in left' : /\ \A u \in left' : n <= u
                                                      /\ StartsRunOf(meta'.start, n)
                    /\ left' = {} => ~ meta'.open
  BY <1>1, <1>2, SameFound DEF SegmentsSoFar
<1>3. found \in SUBSET Time /\ t \in found /\ found # {} /\ Time \subseteq Nat /\ t \in Nat
      /\ left \in SUBSET found /\ found \subseteq Int
  BY <1>1, MaxTimeAssumption DEF TInv, TypeOK, Time
<1>4. \A x \in meta.listed : x < t
  BY <1>1 DEF OInv, ListedBeforeLeft
<1>5. left' = After(t)
  <2>1. ASSUME NEW u \in left' PROVE u \in After(t)
    <3>1. u \in found /\ t <= u /\ u # t /\ u \in Int /\ t \in Int
      BY <1>1, <1>3
    <3>2. QED
      BY <3>1 DEF After
  <2>2. ASSUME NEW u \in After(t) PROVE u \in left'
    <3>1. u \in found /\ u > t /\ u \in Int /\ t \in Int
      BY <1>3 DEF After
    <3>2. u \notin meta.listed
      BY <1>4, <3>1
    <3>3. QED
      BY <1>1, <3>1, <3>2
  <2>3. QED
    BY <2>1, <2>2
<1>6. /\ t = Min(found) \/ t + 1 \notin found => t \notin Unreadable
      /\ gap(t) => HeaderOffset(Min(After(t))) = HeaderOffset(t)
  BY <1>3 DEF OffsetsSuffice
<1> DEFINE o == OpenSegment(meta, t).start
<1>7. StartsRunOf(o, t)
  <2>1. CASE meta.listed = {}
    <3>1. \A u \in found : t <= u
      BY <1>1, <2>1
    <3>2. Min(found) = t
      BY <1>3, <3>1, LeastIsMin
    <3>3. o = t - HeaderOffset(t)
      BY <1>1, <1>6, <2>1, <3>2, ListType DEF FirstOffset, HeaderRead
    <3>4. t .. t = {t} /\ t - 1 \notin found
      BY <1>3, <3>1
    <3>5. RunFrom(t, t)
      BY <1>3, <3>4 DEF RunFrom
    <3>6. QED
      BY <1>3, <3>3, <3>5 DEF StartsRunOf
  <2>2. CASE meta.listed # {}
    <3>1. PICK n \in left : (\A u \in left : n <= u) /\ StartsRunOf(meta.start, n)
      BY <1>1, <2>2 DEF SInv, SegmentsSoFar
    <3>2. n <= t /\ t <= n /\ n \in Nat
      BY <1>1, <1>3, <3>1
    <3>3. n = t
      BY <1>3, <3>2
    <3>4. o = meta.start
      BY <1>1, <2>2, ListType
    <3>5. QED
      BY <3>1, <3>3, <3>4
  <2>3. QED
    BY <2>1, <2>2
<1>8. PICK a \in found : RunFrom(a, t) /\ o = a - HeaderOffset(a)
  BY <1>7 DEF StartsRunOf
<1>9. meta.segments = {SegmentOf(r) : r \in RunsTo(meta.listed)}
  BY <1>1 DEF SInv, SegmentsSoFar
<1>10. /\ gap(t) \/ After(t) = {} =>
            /\ meta'.segments = meta.segments \cup {<<o, t + 1 - LastOffset(t)>>}
            /\ meta'.open = gap(t)
            /\ gap(t) => meta'.start = Min(After(t)) - NextOffset(t)
       /\ ~ (gap(t) \/ After(t) = {}) => meta'.segments = meta.segments /\ meta'.start = o
  BY <1>1, ListType
<1> HIDE DEF o
<1>11. CASE gap(t) \/ After(t) = {}
  <2>1. t + 1 \notin found
    <3>1. CASE gap(t)
      BY <3>1 DEF gap
    <3>2. CASE After(t) = {}
      BY <1>3, <3>2 DEF After
    <3>3. QED
      BY <1>11, <3>1, <3>2
  <2>2. <<a, t>> \in Runs(found)
    BY <1>3, <1>8, <2>1, RunsAreRuns
  <2>3. ASSUME NEW r \in Runs(found), r[2] = t PROVE r = <<a, t>>
    <3>1. r \in found \X found
      BY DEF Runs
    <3>2. r = <<r[1], t>> /\ r[1] \in found
      BY <2>3, <3>1
    <3>3. RunFrom(r[1], t)
      BY <1>3, <3>2, RunsAreRuns
    <3>4. r[1] = a
      BY <1>3, <1>8, <3>2, <3>3, RunIsUnique
    <3>5. QED
      BY <3>2, <3>4
  <2>4. RunsTo(meta.listed \cup {t}) = RunsTo(meta.listed) \cup {<<a, t>>}
    BY <2>2, <2>3 DEF RunsTo
  <2>5. SegmentOf(<<a, t>>) = <<o, t + 1 - LastOffset(t)>>
    <3>1. LastOffset(t) = HeaderOffset(t)
      BY <1>6, <1>11, <2>1 DEF LastOffset, HeaderRead
    <3>2. QED
      BY <1>8, <3>1 DEF SegmentOf
  <2>6. meta'.segments = {SegmentOf(r) : r \in RunsTo(meta.listed \cup {t})}
    BY <1>9, <1>10, <1>11, <2>4, <2>5
  <2>7. ASSUME left' # {}
        PROVE  \E n \in left' : (\A u \in left' : n <= u) /\ StartsRunOf(meta'.start, n)
    <3> DEFINE n == Min(After(t))
    <3>1. After(t) # {} /\ After(t) \in SUBSET Nat /\ gap(t)
      BY <1>3, <1>5, <1>11, <2>7 DEF After
    <3>2. n \in After(t) /\ \A u \in After(t) : n <= u
      BY <3>1, MinIsLeast
    <3>3. meta'.start = n - HeaderOffset(n)
      <4>1. NextOffset(t) = HeaderOffset(t)
        BY <1>6, <2>1, <3>1 DEF NextOffset, HeaderRead
      <4>2. QED
        BY <1>6, <1>10, <3>1, <4>1
    <3> HIDE DEF n
    <3>4. n \in found /\ n > t /\ n \in Int /\ t \in Int
      BY <1>3, <3>2 DEF After
    <3>5. n - 1 \notin found
      <4> SUFFICES ASSUME n - 1 \in found PROVE FALSE
        OBVIOUS
      <4>1. n - 1 # t
        BY <2>1, <3>4
      <4>2. n - 1 > t
        BY <3>4, <4>1
      <4>3. n - 1 \in After(t)
        BY <4>2 DEF After
      <4>4. QED
        BY <3>2, <3>4, <4>3
    <3>6. n .. n = {n}
      BY <3>4
    <3>7. RunFrom(n, n)
      BY <3>4, <3>5, <3>6 DEF RunFrom
    <3>8. StartsRunOf(meta'.start, n)
      BY <3>3, <3>4, <3>7 DEF StartsRunOf
    <3>9. QED
      BY <1>5, <3>2, <3>8
  <2>8. left' = {} => ~ meta'.open
    BY <1>5, <1>10, <1>11 DEF gap
  <2>9. QED
    BY <2>6, <2>7, <2>8
<1>12. CASE ~ (gap(t) \/ After(t) = {})
  <2>1. t + 1 \in found /\ After(t) # {}
    BY <1>12 DEF gap
  <2>2. RunsTo(meta.listed \cup {t}) = RunsTo(meta.listed)
    BY <2>1 DEF RunsTo, Runs
  <2>3. t + 1 \in left' /\ \A u \in left' : t + 1 <= u
    BY <1>3, <1>5, <2>1 DEF After
  <2>4. RunFrom(a, t + 1)
    <3>1. a <= t /\ a .. t \subseteq found /\ a - 1 \notin found /\ a \in Int
      BY <1>3, <1>8 DEF RunFrom
    <3>2. a .. t + 1 \subseteq (a .. t) \cup {t + 1}
      BY <1>3, <3>1
    <3>3. a <= t + 1
      BY <1>3, <3>1
    <3>4. QED
      BY <1>8, <2>1, <3>1, <3>2, <3>3 DEF RunFrom
  <2>5. StartsRunOf(meta'.start, t + 1)
    BY <1>8, <1>10, <1>12, <2>4 DEF StartsRunOf
  <2>6. QED
    BY <1>9, <1>10, <1>12, <2>2, <2>3, <2>5
<1>13. QED
  BY <1>11, <1>12

\* Every step keeps what is said of the segments.
LEMMA SInvNext == TInv /\ OInv /\ SInv /\ [Next]_vars => SInv'
<1> SUFFICES ASSUME TInv, OInv, SInv, [Next]_vars PROVE SInv'
  OBVIOUS
<1> USE DEF driveVars, dirVars, attemptVars
<1>0. TypeOK /\ FreshMeta /\ FoundSome /\ SegmentsSoFar /\ SegmentsDone
  BY DEF TInv, SInv
<1>1. ASSUME NEW l \in Locations, NEW r \in Ranges, NEW plan \in Plans, Request(l, r, plan)
      PROVE  SInv'
  BY <1>1 DEF Request, Begin, SInv, SegmentsSoFar, SegmentsDone, Succeeded
<1>2. ASSUME NEW l \in Locations, get_snapshot(l) PROVE SInv'
  BY <1>2 DEF get_snapshot, SInv, SegmentsSoFar, SegmentsDone, Succeeded
<1>3. CASE validate_destination \/ retrive_data \/ init_meta_file
  BY <1>3 DEF validate_destination, retrive_data, init_meta_file, SInv, SegmentsSoFar,
     SegmentsDone, Succeeded
<1>4. CASE SizeIsRight
  <2>1. meta'.listed = {} /\ meta'.segments = {} /\ pc' = "copy" /\ left' = found /\ found # {}
    BY <1>0, <1>4 DEF SizeIsRight, FreshMeta, NoMeta, FoundSome
  <2>2. RunsTo({})' = {}
    BY DEF RunsTo
  <2>3. QED
    BY <2>1, <2>2 DEF SInv, SegmentsSoFar, SegmentsDone, Succeeded
<1>5. ASSUME NEW t \in Time, CopyChunk(t) PROVE SInv'
  <2>1. pc' = "copy"
    BY <1>5 DEF CopyChunk, IsNext
  <2>2. QED
    BY <1>5, <2>1, SegmentsCopy DEF SInv, SegmentsDone, Succeeded
<1>6. ASSUME NEW t \in Time, SkipChunk(t) PROVE SInv'
  <2>1. /\ t \in left /\ pc = "copy" /\ pc' = "copy" /\ left' = left \ {t}
        /\ found' = found /\ meta' = meta
    BY <1>6 DEF SkipChunk, IsNext
  <2>2. t \in found /\ t \notin meta.listed \cup left'
    <3>1. t \notin meta.listed
      BY <1>6, <2>1, MaxTimeAssumption DEF OInv, ListedBeforeLeft, Time
    <3>2. QED
      BY <1>0, <2>1, <3>1 DEF TypeOK
  <2>3. QED
    BY <2>1, <2>2 DEF SInv, SegmentsSoFar, SegmentsDone, Succeeded
<1>7. CASE CopyDone
  <2>1. /\ left = {} /\ pc = "copy" /\ pc' = "main" /\ found' = found /\ meta' = meta
        /\ meta.listed # {}
    BY <1>7 DEF CopyDone
  <2>2. ASSUME meta.listed = found, OffsetsSuffice
        PROVE  meta.segments = {SegmentOf(r) : r \in Runs(found)} /\ ~ meta.open
    <3>1. RunsTo(found) = Runs(found)
      BY DEF RunsTo, Runs
    <3>2. QED
      BY <1>0, <2>1, <2>2, <3>1 DEF SegmentsSoFar
  <2>3. QED
    BY <2>1, <2>2, SameFound DEF SInv, SegmentsSoFar, SegmentsDone, Succeeded
<1>8. CASE insert_maindata
  <2>1. /\ meta'.listed = meta.listed /\ meta'.segments = meta.segments
        /\ meta'.open = meta.open
    BY <1>0, <1>8 DEF insert_maindata, TypeOK, Meta
  <2>2. QED
    BY <1>0, <1>8, <2>1, SameFound DEF insert_maindata, SInv, SegmentsSoFar, SegmentsDone, Succeeded
<1>9. CASE zip_files
  BY <1>0, <1>9, SameFound DEF zip_files, SInv, SegmentsSoFar, SegmentsDone, Succeeded
<1>10. CASE EncryptArchive
  BY <1>0, <1>10, SameFound DEF EncryptArchive, SInv, SegmentsSoFar, SegmentsDone, Succeeded
<1>11. CASE Reply
  BY <1>11 DEF Reply, SInv, SegmentsSoFar, SegmentsDone, Succeeded
<1>12. ASSUME NEW drives \in SUBSET Drives, Record(drives) PROVE SInv'
  BY <1>0, <1>12, SameFound DEF Record, Rest, SInv, SegmentsSoFar, SegmentsDone, Succeeded
<1>13. ASSUME NEW d \in Drives, NEW t \in Time, Groom(d, t) PROVE SInv'
  BY <1>0, <1>13, SameFound DEF Groom, Rest, SInv, SegmentsSoFar, SegmentsDone, Succeeded
<1>14. CASE Failure \/ \E t \in Time : CopyHangs(t)
  BY <1>14, FailureStep, SInvFailed DEF CopyHangs, SInv, SegmentsSoFar, SegmentsDone, Succeeded
<1>15. CASE UNCHANGED vars
  BY <1>0, <1>15, SameFound DEF vars, SInv, SegmentsSoFar, SegmentsDone, Succeeded
<1>16. QED
  BY <1>1, <1>2, <1>3, <1>4, <1>5, <1>6, <1>7, <1>8, <1>9, <1>10, <1>11, <1>12, <1>13, <1>14,
     <1>15 DEF Next, Step, Failure, ReadAgain

\* The segments in the metadata of a successful download from which no chunk
\* vanished are the runs of video without a gap, in the times that the headers of
\* their first and last chunks give, as long as these headers can be read and no
\* offset changes across a gap.
THEOREM SegmentsMatchAlways == Spec => []SegmentsMatch
<1>1. SInv => SegmentsMatch
  BY DEF SInv, SegmentsDone, SegmentsMatch
<1>2. QED
  BY <1>1, TInvInit, TInvNext, OInvInit, OInvNext, SInvInit, SInvNext, PTL DEF Spec


----------------------------------------------------------------------------
(* Old archives.                                                           *)

\* From the moment the directory of a request was validated there is no archive
\* in it until the new one is complete, and none is left when the request fails
\* for want of video, of time or of room: what an earlier request left is never
\* taken for the answer to this one (clean_download_dir, ra_download.c:632).
\* INTERNAL_ERR is left out: the directory itself may have failed.
NoStaleArchive ==
  \/ pc \in {"search", "init", "size", "copy", "main", "zip", "encrypt"}
  \/ pc = "reply" /\ status \in {"FAILURE", "RANGE_ERR", "SIZE_ERR"}
  => dir[loc].lvdat = Empty

\* What a failing step does to the rest of the request.
LEMMA FailureTries ==
  ASSUME TInv, Failure
  PROVE  /\ pc \notin {"idle", "spin", "reply"} /\ loc' = loc /\ todo' = Tail(todo)
         /\ pc' = IF Len(todo) > 1 THEN "validate" ELSE "reply"
<1>1. ASSUME NEW s, TryNext(s)
      PROVE  loc' = loc /\ todo' = Tail(todo) /\ pc' = IF Len(todo) > 1 THEN "validate" ELSE "reply"
  BY <1>1 DEF TryNext, Begin
<1>2. pc \notin {"idle", "spin", "reply"} /\ \E s : TryNext(s)
  BY DEF Failure, ValidateFails, SearchFails, InitMetaFails, SizeIsWrong, CopyFails, IsNext, NothingCopied,
         MainDataFails, ArchiveFails, Fail
<1>3. QED
  BY <1>1, <1>2

\* A step that fails for want of video, of time or of room leaves the archives alone.
LEMMA FailureKeepsArchives ==
  ASSUME TInv, NoStaleArchive, Failure, pc' = "reply", status' # "INTERNAL_ERR"
  PROVE  dir'[loc].lvdat = Empty
<1>1. ASSUME NEW s, TryNext(s) PROVE status' = s
  <2>1. Len(todo) <= 1
    BY <1>1 DEF TryNext, Begin
  <2>2. QED
    BY <1>1 DEF TryNext, Begin
<1>2. \/ \E s \in {"FAILURE", "RANGE_ERR"} : SearchFails(s)
      \/ SizeIsWrong \/ NothingCopied
  BY <1>1 DEF Failure, ValidateFails, InitMetaFails, CopyFails, MainDataFails, ArchiveFails, Fail
<1>3. pc \in {"search", "size", "copy"} /\ UNCHANGED dir
  BY <1>2 DEF SearchFails, SizeIsWrong, NothingCopied
<1>4. QED
  BY <1>3 DEF NoStaleArchive

\* Every step keeps old archives away.
LEMMA NoStaleStep == TInv /\ NoStaleArchive /\ [Next]_vars => NoStaleArchive'
<1> SUFFICES ASSUME TInv, NoStaleArchive, [Next]_vars PROVE NoStaleArchive'
  OBVIOUS
<1> USE DEF driveVars, dirVars, attemptVars
<1>0. dir \in [Locations -> Directory] /\ loc \in Locations /\ dir[loc] \in Directory
  BY DEF TInv, TypeOK
<1>1. ASSUME NEW l \in Locations, NEW r \in Ranges, NEW plan \in Plans, Request(l, r, plan)
      PROVE  NoStaleArchive'
  BY <1>1 DEF Request, Begin, NoStaleArchive
<1>2. ASSUME NEW l \in Locations, get_snapshot(l) PROVE NoStaleArchive'
  BY <1>2 DEF get_snapshot, NoStaleArchive
<1>3. CASE validate_destination
  <2>1. clean_download_dir(loc).lvdat = Empty
    BY <1>0 DEF clean_download_dir, EmptyDir, Directory
  <2>2. dir'[loc].lvdat = Empty /\ loc' = loc
    BY <1>0, <1>3, <2>1 DEF validate_destination
  <2>3. QED
    BY <2>2 DEF NoStaleArchive
<1>4. CASE retrive_data \/ SizeIsRight \/ CopyDone \/ \E t \in Time : SkipChunk(t) \/ CopyHangs(t)
  BY <1>4 DEF retrive_data, SizeIsRight, CopyDone, SkipChunk, CopyHangs, IsNext, NoStaleArchive
<1>5. CASE \/ init_meta_file \/ insert_maindata \/ zip_files \/ \E t \in Time : CopyChunk(t)
  <2>1. dir'[loc].lvdat = dir[loc].lvdat /\ loc' = loc
    BY <1>0, <1>5 DEF init_meta_file, Create, insert_maindata, zip_files, Zipped, CopyChunk, PutChunk,
       Directory
  <2>2. pc \in {"init", "main", "zip", "copy"}
    BY <1>5 DEF init_meta_file, insert_maindata, zip_files, CopyChunk, IsNext
  <2>3. QED
    BY <2>1, <2>2 DEF NoStaleArchive
<1>6. CASE EncryptArchive
  BY <1>6 DEF EncryptArchive, NoStaleArchive
<1>7. CASE Reply
  BY <1>7 DEF Reply, NoStaleArchive
<1>8. CASE (\E drives \in SUBSET Drives : Record(drives)) \/ \E d \in Drives, t \in Time : Groom(d, t)
  BY <1>8 DEF Record, Groom, Rest, NoStaleArchive
<1>9. CASE Failure
  BY <1>9, FailureTries, FailureKeepsArchives DEF NoStaleArchive
<1>10. CASE UNCHANGED vars
  BY <1>10 DEF vars, NoStaleArchive
<1>11. QED
  BY <1>1, <1>2, <1>3, <1>4, <1>5, <1>6, <1>7, <1>8, <1>9, <1>10 DEF Next, Step, Failure, ReadAgain

\* While a request is handled its directory holds no archive of another one, and
\* none after it failed for want of video, of time or of room.
THEOREM NoStaleArchiveAlways == Spec => []NoStaleArchive
<1>1. Init => NoStaleArchive
  BY DEF Init, NoStaleArchive
<1>2. QED
  BY <1>1, TInvInit, TInvNext, NoStaleStep, PTL DEF Spec

----------------------------------------------------------------------------
(* The steps a request takes.                                              *)

\* Steps from each place of an attempt to the end of the request, on one drive.
Stage ==
  [idle |-> 0, spin |-> 0, reply |-> 1, encrypt |-> 2, zip |-> 3, main |-> 4, copy |-> 5 + Cardinality(left),
   size |-> MaxTime + 6, init |-> MaxTime + 7, search |-> MaxTime + 8, validate |-> MaxTime + 9]

\* The drives not yet tried may each take an attempt of their own.
StepsLeft ==
  IF pc \in {"idle", "spin", "reply"} THEN Stage[pc] ELSE (Len(todo) - 1) * (MaxTime + 8) + Stage[pc]

\* Every step of a request is one of a bounded number of steps, whichever fail on
\* whichever drive and whatever is recorded and groomed meanwhile: the copying
\* loop and the attempts on the drives end, unless a chunk cannot be read while it
\* is copied and copy_file loops (ra_data_search.c:102).
EveryStepCounts ==
  [][pc \notin {"idle", "spin"} =>
       /\ StepsLeft \in 1 .. 2 * MaxTime + 17
       /\ StepsLeft' <= StepsLeft
       /\ Step => StepsLeft' < StepsLeft]_vars

\* No request has more than the two drives to try.
TwoDrives == Len(todo) <= 2

\* No step adds one.
LEMMA TwoDrivesStep == TInv /\ TwoDrives /\ [Next]_vars => TwoDrives'
<1> SUFFICES ASSUME TInv, TwoDrives, [Next]_vars PROVE TwoDrives'
  OBVIOUS
<1> USE DEF driveVars, dirVars, attemptVars
<1>0. todo \in Seq(Drives) /\ (pc \notin {"idle", "spin", "reply"} => todo # <<>>)
  BY DEF TInv, TypeOK, HasDrive
<1>1. ASSUME NEW l \in Locations, NEW r \in Ranges, NEW plan \in Plans, Request(l, r, plan)
      PROVE  TwoDrives'
  <2>1. Len(<<"SSD", "CHM">>) = 2 /\ Len(<<"SSD">>) = 1 /\ Len(<<"CHM">>) = 1 /\ 1 <= 2 /\ 2 <= 2
    OBVIOUS
  <2>2. todo' = plan /\ plan \in {<<"SSD", "CHM">>, <<"SSD">>, <<"CHM">>}
    BY <1>1 DEF Request, Plans
  <2>3. Len(todo') = 1 \/ Len(todo') = 2
    BY <2>1, <2>2, Zenon
  <2>4. QED
    BY <2>1, <2>3, Zenon DEF TwoDrives
<1>2. CASE Failure
  <2>1. todo' = Tail(todo) /\ todo # <<>>
    BY <1>0, <1>2, FailureTries
  <2>2. Len(todo') = Len(todo) - 1 /\ Len(todo) \in Nat
    BY <1>0, <2>1
  <2>3. QED
    BY <2>2 DEF TwoDrives
<1>3. CASE UNCHANGED todo \/ todo' = <<>>
  BY <1>3 DEF TwoDrives
<1>4. QED
  BY <1>1, <1>2, <1>3
     DEF Next, Step, Failure, get_snapshot, validate_destination, retrive_data, init_meta_file,
         SizeIsRight, CopyChunk, SkipChunk, CopyDone, insert_maindata, zip_files, EncryptArchive,
         CopyHangs, Reply, ReadAgain, Record, Groom, Rest, vars

\* The chunks left are at most as many as there are times.
LEMMA LeftCounts ==
  ASSUME NEW S, S \subseteq Time
  PROVE  IsFiniteSet(S) /\ Cardinality(S) \in 0 .. MaxTime
<1>1. IsFiniteSet(Time) /\ Cardinality(Time) = MaxTime
  BY FS_Interval, MaxTimeAssumption DEF Time
<1>2. IsFiniteSet(S) /\ Cardinality(S) <= MaxTime
  BY <1>1, FS_Subset
<1>3. Cardinality(S) \in Nat
  BY <1>2, FS_CardinalityType
<1>4. QED
  BY <1>2, <1>3, MaxTimeAssumption

\* The steps left, by the place of the request.
LEMMA StepsByPlace ==
  ASSUME TInv, TwoDrives
  PROVE  /\ Cardinality(left) \in 0 .. MaxTime /\ MaxTime \in Nat
         /\ pc \notin {"idle", "spin", "reply"} => Len(todo) \in {1, 2}
         /\ pc = "reply" => StepsLeft = 1
         /\ pc \notin {"idle", "spin", "reply"} =>
              StepsLeft = (IF Len(todo) = 2 THEN MaxTime + 8 ELSE 0) + Stage[pc]
<1>1. left \subseteq Time /\ todo \in Seq(Drives) /\ (pc \notin {"idle", "spin", "reply"} => todo # <<>>)
  BY DEF TInv, TypeOK, HasDrive
<1>2. Cardinality(left) \in 0 .. MaxTime /\ MaxTime \in Nat
  BY <1>1, LeftCounts, MaxTimeAssumption
<1>3. ASSUME pc \notin {"idle", "spin", "reply"} PROVE Len(todo) \in {1, 2}
  <2>1. Len(todo) \in Nat /\ Len(todo) # 0
    BY <1>1, <1>3, EmptySeq
  <2>2. \A n \in Nat : n # 0 /\ n <= 2 => n \in {1, 2}
    OBVIOUS
  <2>3. QED
    BY <2>1, <2>2, Zenon DEF TwoDrives
<1>4. pc = "reply" => StepsLeft = 1
  BY DEF StepsLeft, Stage
<1>5. ASSUME pc \notin {"idle", "spin", "reply"}
      PROVE  StepsLeft = (IF Len(todo) = 2 THEN MaxTime + 8 ELSE 0) + Stage[pc]
  <2>1. StepsLeft = (Len(todo) - 1) * (MaxTime + 8) + Stage[pc]
    BY <1>5 DEF StepsLeft
  <2>2. (1 - 1) * (MaxTime + 8) = 0 /\ (2 - 1) * (MaxTime + 8) = MaxTime + 8
    BY <1>2
  <2>3. QED
    BY <1>3, <1>5, <2>1, <2>2
<1>6. QED
  BY <1>2, <1>3, <1>4, <1>5

\* How far each place is from the end.
LEMMA StageBounds ==
  ASSUME TInv, pc \notin {"idle", "spin", "reply"}
  PROVE  Stage[pc] \in 2 .. MaxTime + 9
<1>1. left \subseteq Time
  BY DEF TInv, TypeOK
<1>2. Cardinality(left) \in 0 .. MaxTime /\ MaxTime \in Nat
  BY <1>1, LeftCounts, MaxTimeAssumption
<1>3. pc \in {"validate", "search", "init", "size", "copy", "main", "zip", "encrypt"}
  BY DEF TInv, TypeOK
<1>4. QED
  BY <1>2, <1>3 DEF Stage

\* A step within an attempt brings it closer to its end.
LEMMA AttemptAdvances ==
  ASSUME TInv, TInv', TwoDrives, TwoDrives', Step, ~Failure, pc # "reply"
  PROVE  StepsLeft' \in Int /\ StepsLeft' < StepsLeft
<1> USE DEF driveVars, dirVars, attemptVars
<1>1. /\ Cardinality(left) \in 0 .. MaxTime /\ Cardinality(left') \in 0 .. MaxTime
      /\ MaxTime \in Nat
  <2>1. left \subseteq Time /\ left' \subseteq Time
    BY DEF TInv, TypeOK
  <2>2. QED
    BY <2>1, LeftCounts, MaxTimeAssumption
<1>2. pc \notin {"idle", "spin", "reply"}
  BY DEF Step, Failure, validate_destination, retrive_data, init_meta_file, SizeIsRight, CopyChunk,
         SkipChunk, CopyHangs, IsNext, CopyDone, insert_maindata, zip_files, EncryptArchive, Reply
<1>3. StepsLeft = (IF Len(todo) = 2 THEN MaxTime + 8 ELSE 0) + Stage[pc]
  BY <1>2, StepsByPlace
<1> DEFINE Ends == EncryptArchive \/ \E t \in Time : CopyHangs(t)
<1>4. CASE Ends
  <2>1. StepsLeft' \in {0, 1}
    <3>1. pc' = "reply" \/ pc' = "spin"
      BY <1>4 DEF EncryptArchive, CopyHangs
    <3>2. QED
      BY <3>1 DEF StepsLeft, Stage
  <2>2. Stage[pc] \in 2 .. MaxTime + 9
    BY <1>2, StageBounds
  <2>3. QED
    BY <1>1, <1>3, <2>1, <2>2
<1>5. CASE ~Ends
  <2>1. todo' = todo /\ pc' \notin {"idle", "spin", "reply"}
    BY <1>5 DEF Step, Failure, validate_destination, retrive_data, init_meta_file, SizeIsRight,
       CopyChunk, SkipChunk, IsNext, CopyDone, insert_maindata, zip_files, Reply
  <2>2. StepsLeft' = (Len(todo) - 1) * (MaxTime + 8) + Stage'[pc']
    BY <2>1 DEF StepsLeft
  <2>3. StepsLeft = (Len(todo) - 1) * (MaxTime + 8) + Stage[pc]
    BY <1>2 DEF StepsLeft
  <2>4. Stage'[pc'] < Stage[pc]
    <3>1. ASSUME NEW t \in Time, CopyChunk(t) \/ SkipChunk(t) PROVE Stage'[pc'] < Stage[pc]
      <4>1. t \in left /\ left' = left \ {t} /\ pc = "copy" /\ pc' = "copy"
        BY <3>1 DEF CopyChunk, SkipChunk, IsNext
      <4>2. IsFiniteSet(left)
        BY LeftCounts DEF TInv, TypeOK
      <4>3. Cardinality(left') = Cardinality(left) - 1
        BY <4>1, <4>2, FS_RemoveElement
      <4>4. QED
        BY <1>1, <4>1, <4>3 DEF Stage
    <3>2. CASE validate_destination \/ retrive_data \/ init_meta_file
      BY <1>1, <3>2 DEF validate_destination, retrive_data, init_meta_file, Stage
    <3>3. CASE SizeIsRight \/ CopyDone
      BY <1>1, <3>3 DEF SizeIsRight, CopyDone, Stage
    <3>4. CASE insert_maindata \/ zip_files
      BY <1>1, <3>4 DEF insert_maindata, zip_files, Stage
    <3>5. QED
      BY <1>5, <3>1, <3>2, <3>3, <3>4 DEF Step, Failure, Reply
  <2>5. Stage'[pc'] \in Int /\ Stage[pc] \in Int /\ (Len(todo) - 1) * (MaxTime + 8) \in Int
    <3>1. Stage[pc] \in Int
      BY <1>2, StageBounds
    <3>2. Stage'[pc'] \in Int
      <4>1. pc' \in {"validate", "search", "init", "size", "copy", "main", "zip", "encrypt"}
        BY <2>1 DEF TInv, TypeOK
      <4>2. QED
        BY <1>1, <4>1 DEF Stage
    <3>3. Len(todo) \in Int
      BY DEF TInv, TypeOK
    <3>4. QED
      BY <1>1, <3>1, <3>2, <3>3
  <2> HIDE DEF driveVars
  <2>6. QED
    BY <2>2, <2>3, <2>4, <2>5
<1>6. QED
  BY <1>4, <1>5

\* A failing step gives up a drive, which was worth an attempt.
LEMMA FailureAdvances ==
  ASSUME TInv, TwoDrives, Failure
  PROVE  StepsLeft' \in Int /\ StepsLeft' < StepsLeft
<1>1. /\ pc \notin {"idle", "spin", "reply"} /\ todo' = Tail(todo)
      /\ pc' = IF Len(todo) > 1 THEN "validate" ELSE "reply"
  BY FailureTries
<1>2. /\ MaxTime \in Nat /\ Len(todo) \in {1, 2} /\ Stage[pc] \in 2 .. MaxTime + 9
      /\ StepsLeft = (IF Len(todo) = 2 THEN MaxTime + 8 ELSE 0) + Stage[pc]
  BY <1>1, StepsByPlace, StageBounds
<1>3. CASE Len(todo) = 1
  <2>1. StepsLeft' = 1
    BY <1>1, <1>3 DEF StepsLeft, Stage
  <2>2. QED
    BY <1>2, <1>3, <2>1
<1>4. CASE Len(todo) = 2
  <2>1. todo \in Seq(Drives) /\ todo # <<>>
    BY <1>1 DEF TInv, TypeOK, HasDrive
  <2>2. Len(todo') = 1 /\ pc' = "validate"
    BY <1>1, <1>4, <2>1
  <2>3. StepsLeft' = (Len(todo') - 1) * (MaxTime + 8) + (MaxTime + 9)
    BY <2>2 DEF StepsLeft, Stage
  <2>4. (1 - 1) * (MaxTime + 8) = 0
    BY <1>2
  <2>5. QED
    BY <1>2, <1>4, <2>2, <2>3, <2>4
<1>5. QED
  BY <1>2, <1>3, <1>4

\* A request ends, or hangs in copy_file, after at most 2 * MaxTime + 17 steps of
\* its own.
THEOREM EveryStepCountsAlways == Spec => EveryStepCounts
<1>1. ASSUME TInv, TInv', TwoDrives, TwoDrives', [Next]_vars, pc \notin {"idle", "spin"}
      PROVE  /\ StepsLeft \in 1 .. 2 * MaxTime + 17
             /\ StepsLeft' <= StepsLeft
             /\ Step => StepsLeft' < StepsLeft
  <2>1. MaxTime \in Nat /\ StepsLeft \in 1 .. 2 * MaxTime + 17
    <3>1. CASE pc = "reply"
      BY <1>1, <3>1, StepsByPlace
    <3>2. CASE pc # "reply"
      BY <1>1, <3>2, StepsByPlace, StageBounds
    <3>3. QED
      BY <3>1, <3>2
  <2>2. Step => StepsLeft' \in Int /\ StepsLeft' < StepsLeft
    <3>1. CASE Reply
      <4>1. StepsLeft = 1 /\ StepsLeft' = 0
        BY <3>1 DEF Reply, StepsLeft, Stage
      <4>2. QED
        BY <4>1
    <3>2. CASE pc = "reply" /\ ~Reply
      <4>1. ~Failure
        BY <1>1, <3>2, FailureTries
      <4>2. ~Step
        BY <3>2, <4>1 DEF Step, Failure, validate_destination, retrive_data, init_meta_file,
           SizeIsRight, CopyChunk, SkipChunk, CopyHangs, IsNext, CopyDone, insert_maindata,
           zip_files, EncryptArchive
      <4>3. QED
        BY <4>2
    <3>3. CASE pc # "reply"
      BY <1>1, <3>3, FailureAdvances, AttemptAdvances
    <3>4. QED
      BY <3>1, <3>2, <3>3
  <2>3. ~Step => StepsLeft' = StepsLeft
    <3>1. ~Step => UNCHANGED <<pc, todo, left>>
      BY <1>1 DEF Next, Request, get_snapshot, ReadAgain, Record, Groom, Rest, attemptVars,
         vars
    <3>2. QED
      BY <3>1 DEF StepsLeft, Stage
  <2>4. StepsLeft' <= StepsLeft
    <3>1. CASE Step
      BY <2>1, <2>2, <3>1
    <3>2. CASE ~Step
      BY <2>1, <2>3, <3>2
    <3>3. QED
      BY <3>1, <3>2
  <2>5. QED
    BY <2>1, <2>2, <2>4
<1>2. TInv /\ TInv' /\ TwoDrives /\ TwoDrives' /\ [Next]_vars =>
        [pc \notin {"idle", "spin"} =>
           /\ StepsLeft \in 1 .. 2 * MaxTime + 17
           /\ StepsLeft' <= StepsLeft
           /\ Step => StepsLeft' < StepsLeft]_vars
  BY <1>1
<1>3. Init => TwoDrives
  BY DEF Init, TwoDrives
<1>4. QED
  BY TInvInit, TInvNext, TwoDrivesStep, <1>2, <1>3, PTL DEF Spec, EveryStepCounts
=============================================================================
