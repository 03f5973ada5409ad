-------------------------- MODULE MetaQueueProofs --------------------------
(***************************************************************************)
(* The hand-over of metadata records, for every capacity and every number  *)
(* of records: types, the two races of get_metadata_descriptor, and that   *)
(* the ring of metaqueue.c implements a bounded FIFO.                      *)
(***************************************************************************)
EXTENDS MetaQueue, SequenceTheorems, TLAPS

\* The two flags tell the full ring from the empty one.
RingInv ==
  /\ full => head = tail /\ ~empty /\ initialized
  /\ initialized => (empty <=> (head = tail /\ ~full))
  /\ ~initialized => head = 0 /\ tail = 0
  /\ worker \in {"start", "init"} <=> ~initialized

\* What is in the ring, and what was taken out, is older than the record the
\* main thread waits with.
OlderInv ==
  /\ offered <= MaxRecords
  /\ main = "wait" => initialized /\ 0 < offered /\ took < offered
  /\ took <= offered
  /\ \A s \in Slots : buf[s] <= offered /\ (main = "wait" => buf[s] < offered)

\* While the recording thread copies, its slot is the one just behind the head.
CopyInv ==
  worker = "copy" => head = Advance(slot) /\ (buf[slot] = took \/ full)

IInv == TypeOK /\ RingInv /\ OlderInv /\ CopyInv /\ TestedDataIsThere

-----------------------------------------------------------------------------

\* An index advanced stays in the ring (the wrap of meta_q_enq and meta_q_deq).
LEMMA AdvanceInRing ==
  \A i \in Slots : Advance(i) \in Slots
BY SizeAssumption DEF Slots, Advance

\* meta_q_enq of a record newer than every other keeps the invariant's parts
\* about the ring, and a slot being copied is overwritten only as it fills.
LEMMA EnqEffect ==
  ASSUME TypeOK, RingInv, CopyInv, initialized, NEW r \in Nat, Enq(r)
  PROVE  /\ buf' \in [Slots -> Nat] /\ head' \in Slots /\ tail' \in Slots
         /\ full' \in BOOLEAN /\ empty' \in BOOLEAN
         /\ initialized' = initialized /\ head' = head
         /\ \A s \in Slots : buf'[s] = buf[s] \/ buf'[s] = r
         /\ full' => head' = tail' /\ ~empty'
         /\ empty' <=> (head' = tail' /\ ~full')
         /\ empty' => empty
         /\ worker = "copy" => (buf'[slot] = took \/ full')
<1>1. CASE full
  BY <1>1 DEF TypeOK, RingInv, CopyInv, Enq, ring
<1>2. CASE ~full
  <2>1. Advance(tail) \in Slots
    BY AdvanceInRing DEF TypeOK
  <2>2. /\ buf' = [buf EXCEPT ![tail] = r] /\ tail' = Advance(tail)
        /\ full' = (Advance(tail) = head) /\ empty' = FALSE
        /\ head' = head /\ initialized' = initialized
    BY <1>2 DEF Enq
  <2>3. worker = "copy" => (buf'[slot] = took \/ full')
    <3>1. CASE slot = tail
      BY <3>1, <2>2 DEF CopyInv
    <3>2. CASE slot # tail
      BY <3>2, <2>2, <1>2 DEF CopyInv, TypeOK
    <3> QED BY <3>1, <3>2
  <2> QED BY <2>1, <2>2, <2>3 DEF TypeOK
<1> QED BY <1>1, <1>2

\* The end of enq_metadata_descriptor keeps the invariant.
LEMMA AcceptPreserves ==
  ASSUME IInv, initialized, NEW r \in Nat, Accept(r),
         r <= MaxRecords, offered' = r, offered <= r,
         main' = "run",
         UNCHANGED <<active, worker, slot, got, took, taken>>
  PROVE  IInv'
<1> USE DEF IInv
<1>1. Enq(r) /\ accepted' = accepted \cup {r}
  BY DEF Accept
<1>2. TypeOK'
  BY <1>1, EnqEffect DEF TypeOK
<1>3. RingInv'
  BY <1>1, EnqEffect DEF RingInv
<1>4. OlderInv'
  <2>1. ASSUME NEW s \in Slots PROVE buf'[s] <= r
    <3>1. buf[s] \in Nat /\ buf[s] <= offered /\ offered \in Nat
      BY DEF TypeOK, OlderInv
    <3>2. buf'[s] = buf[s] \/ buf'[s] = r
      BY <1>1, EnqEffect
    <3> QED BY <3>1, <3>2
  <2>2. took <= r
    BY DEF TypeOK, OlderInv
  <2> QED BY <2>1, <2>2 DEF OlderInv
<1>5. CopyInv'
  BY <1>1, EnqEffect DEF CopyInv, Advance
<1>6. TestedDataIsThere'
  BY <1>1, EnqEffect DEF TestedDataIsThere
<1> QED BY <1>2, <1>3, <1>4, <1>5, <1>6

\* The invariant holds at the start.
LEMMA InitIInv == Init => IInv
<1> SUFFICES ASSUME Init PROVE IInv
  OBVIOUS
<1> USE SizeAssumption, BoundAssumption DEF Init
<1>0. 0 \in Slots
  BY DEF Slots
<1>1. TypeOK
  BY <1>0 DEF TypeOK
<1>2. RingInv /\ CopyInv /\ TestedDataIsThere
  BY DEF RingInv, CopyInv, TestedDataIsThere
<1>3. OlderInv
  BY DEF OlderInv
<1> QED BY <1>1, <1>2, <1>3 DEF IInv

\* Every step of the main thread keeps the invariant.
LEMMA MainPreserves ==
  ASSUME IInv, MainStep PROVE IInv'
<1> USE BoundAssumption DEF IInv
<1>1. CASE Offer
  <2>1. CASE ~initialized \/ MustWait
    <3>1. /\ UNCHANGED <<ring, active, worker, slot, got, took, taken, accepted>>
          /\ offered' = offered + 1 /\ offered < MaxRecords
          /\ main = "run"
          /\ main' = main \/ (initialized /\ main' = "wait")
      BY <1>1, <2>1 DEF Offer
    <3> QED
      BY <1>1, <3>1
      DEF Offer, ring, TypeOK, RingInv, OlderInv, CopyInv, TestedDataIsThere, Advance
  <2>2. CASE initialized /\ ~MustWait
    BY <1>1, <2>2, AcceptPreserves DEF Offer, TypeOK
  <2> QED BY <2>1, <2>2
<1>2. CASE Woken
  BY <1>2, AcceptPreserves DEF Woken, TypeOK, OlderInv
<1>3. CASE TimedOut \/ Stop \/ Joined
  <2>1. /\ UNCHANGED <<ring, offered, worker, slot, got, took, taken, accepted>>
        /\ active' \in BOOLEAN /\ main' \in {"run", "join", "done"}
    BY <1>3 DEF TimedOut, Stop, Joined, TypeOK
  <2>2. TypeOK'
    BY <2>1 DEF TypeOK, ring
  <2>3. RingInv' /\ CopyInv' /\ TestedDataIsThere'
    BY <2>1 DEF RingInv, CopyInv, TestedDataIsThere, Advance, ring
  <2>4. OlderInv'
    BY <2>1 DEF OlderInv, ring
  <2> QED BY <2>2, <2>3, <2>4
<1> QED BY <1>1, <1>2, <1>3 DEF MainStep

\* Every step of the recording thread keeps the invariant.
LEMMA WorkerPreserves ==
  ASSUME IInv, WorkerStep PROVE IInv'
<1> USE SizeAssumption, BoundAssumption DEF IInv
<1>1. CASE InitQueue
  <2>0. 0 \in Slots
    BY DEF Slots
  <2>1. TypeOK'
    BY <1>1, <2>0 DEF InitQueue, TypeOK
  <2>2. RingInv' /\ CopyInv' /\ TestedDataIsThere'
    BY <1>1 DEF InitQueue, RingInv, CopyInv, TestedDataIsThere
  <2>3. OlderInv'
    BY <1>1 DEF InitQueue, OlderInv, TypeOK, RingInv
  <2> QED BY <2>1, <2>2, <2>3
<1>2. CASE Dequeue
  <2>1. ~empty /\ initialized /\ Deq /\ worker' = "copy"
        /\ UNCHANGED <<active, main, offered, got, accepted>>
    BY <1>2 DEF Dequeue, TestedDataIsThere
  <2>2. Advance(head) \in Slots
    BY AdvanceInRing DEF TypeOK
  <2>3. buf[head] \in Nat
    BY DEF TypeOK
  <2>4. TypeOK'
    BY <2>1, <2>2, <2>3 DEF TypeOK, Deq
  <2>5. RingInv'
    BY <1>2, <2>1 DEF RingInv, Deq, Dequeue
  <2>6. OlderInv'
    BY <2>1 DEF OlderInv, Deq, TypeOK
  <2>7. CopyInv' /\ TestedDataIsThere'
    BY <2>1 DEF CopyInv, Deq, TestedDataIsThere, Advance
  <2> QED BY <2>4, <2>5, <2>6, <2>7
<1>3. CASE WorkerStart \/ Poll \/ Write \/ Finish
  <2>1. /\ UNCHANGED <<ring, main, offered, slot, got, took, taken, accepted>>
        /\ active' \in BOOLEAN
        /\ worker' \in {"init", "loop", "deq", "done"}
        /\ worker' = "deq" => worker = "loop" /\ ~empty
        /\ worker \in {"start", "init"} <=> worker' \in {"start", "init"}
    BY <1>3 DEF WorkerStart, Poll, Write, Finish, HasData, TypeOK
  <2>2. TypeOK'
    BY <2>1 DEF TypeOK, ring
  <2>3. RingInv' /\ CopyInv' /\ TestedDataIsThere'
    BY <2>1 DEF RingInv, CopyInv, TestedDataIsThere, ring
  <2>4. OlderInv'
    BY <2>1 DEF OlderInv, ring
  <2> QED BY <2>2, <2>3, <2>4
<1>4. CASE CopyOut
  <2>1. got' \in Nat \X Nat
    BY <1>4 DEF CopyOut, TypeOK
  <2> QED
    BY <1>4, <2>1 DEF CopyOut, ring, TypeOK, RingInv, OlderInv, CopyInv,
                      TestedDataIsThere
<1> QED BY <1>1, <1>2, <1>3, <1>4 DEF WorkerStep

\* Every step of the metadata recorder keeps the invariant.
LEMMA NextPreserves == IInv /\ [Next]_vars => IInv'
<1> SUFFICES ASSUME IInv, [Next]_vars PROVE IInv'
  OBVIOUS
<1>1. CASE MainStep
  BY <1>1, MainPreserves
<1>2. CASE WorkerStep
  BY <1>2, WorkerPreserves
<1>3. CASE UNCHANGED vars
  BY <1>3 DEF vars, ring, IInv, TypeOK, RingInv, OlderInv, CopyInv,
              TestedDataIsThere, Advance
<1> QED BY <1>1, <1>2, <1>3 DEF Next, Exited

\* The inductive invariant holds in every state of the metadata recorder.
THEOREM QueueInvariance == Spec => []IInv
<1> QED BY InitIInv, NextPreserves, PTL DEF Spec

\* The indices, flags and records of the queue always have their types.
THEOREM QueueTypeCorrect == Spec => []TypeOK
<1>1. IInv => TypeOK
  BY DEF IInv
<1> QED BY <1>1, QueueInvariance, PTL

\* The slot whose address meta_q_deq returned is overwritten before it is
\* copied only by the record that fills the ring again.
THEOREM OverwrittenOnlyWhenFullAlways == Spec => []OverwrittenOnlyWhenFull
<1>1. IInv => OverwrittenOnlyWhenFull
  BY DEF IInv, CopyInv, OverwrittenOnlyWhenFull
<1> QED BY <1>1, QueueInvariance, PTL

\* The unlocked test of get_metadata_descriptor is still true under the mutex.
THEOREM TestedDataIsThereAlways == Spec => []TestedDataIsThere
<1>1. IInv => TestedDataIsThere
  BY DEF IInv
<1> QED BY <1>1, QueueInvariance, PTL

-----------------------------------------------------------------------------
(* The refinement                                                          *)

\* The number of records lies between 0 and the capacity, which the flag full
\* tells, and the records lie in different slots, starting at the head.
LEMMA CountAndPlaces ==
  ASSUME TypeOK, RingInv
  PROVE  /\ Count \in 0..N
         /\ Count = N <=> full
         /\ Count = 0 <=> (head = tail /\ ~full)
         /\ \A k \in 1..N : At(k) \in Slots
         /\ At(1) = head
         /\ ~full => At(Count + 1) = tail
         /\ \A k \in 1..Count : ~full => At(k) # tail
<1>1. N \in Nat /\ N > 0 /\ head \in 0..(N - 1) /\ tail \in 0..(N - 1) /\ full \in BOOLEAN
  BY SizeAssumption DEF TypeOK, Slots
<1>2. full => head = tail
  BY DEF RingInv
<1>3. CASE full
  BY <1>1, <1>2, <1>3 DEF Count, At, Slots
<1>4. CASE ~full /\ head <= tail
  BY <1>1, <1>4 DEF Count, At, Slots
<1>5. CASE ~full /\ ~(head <= tail)
  BY <1>1, <1>5 DEF Count, At, Slots
<1> QED BY <1>1, <1>3, <1>4, <1>5

\* The contents are a sequence of records.
LEMMA ContentsSeq ==
  ASSUME TypeOK, RingInv
  PROVE  /\ Contents \in Seq(Nat) /\ Len(Contents) = Count
         /\ \A k \in 1..Count : Contents[k] = buf[At(k)]
<1>1. Count \in Nat /\ \A k \in 1..Count : At(k) \in Slots
  BY CountAndPlaces, SizeAssumption
<1>2. \A k \in 1..Count : buf[At(k)] \in Nat
  BY <1>1 DEF TypeOK
<1>3. Contents \in [1..Count -> Nat]
  BY <1>2 DEF Contents
<1> QED BY <1>1, <1>3 DEF Contents

\* A function on 1..n is a sequence of length n.
LEMMA FunctionIsSeq ==
  ASSUME NEW n \in Nat, NEW f \in [1..n -> Nat]
  PROVE  f \in Seq(Nat) /\ Len(f) = n
OBVIOUS

\* meta_q_enq on a ring with room puts the record at the end.
LEMMA EnqPuts ==
  ASSUME IInv, IInv', ~full, NEW r \in Nat, Enq(r)
  PROVE  /\ Count \in Nat /\ Count < N /\ Count' = Count + 1
         /\ \A k \in 1..Count : buf'[At(k)'] = buf[At(k)]
         /\ \A k \in 1..N : k = Count + 1 => buf'[At(k)'] = r
         /\ Contents' = Append(Contents, r)
<1> USE DEF IInv
<1>1. /\ buf' = [buf EXCEPT ![tail] = r] /\ tail' = Advance(tail)
      /\ full' = (Advance(tail) = head) /\ head' = head
  BY DEF Enq
<1>2. N \in Nat /\ N > 0 /\ head \in 0..(N - 1) /\ tail \in 0..(N - 1)
  BY SizeAssumption DEF TypeOK, Slots
<1>3. Count \in 0..N /\ Count # N
  BY CountAndPlaces
<1>4. Count' = Count + 1
  <2>1. CASE Advance(tail) = head
    <3>1. full' /\ Count' = N
      BY <2>1, <1>1 DEF Count
    <3>2. Count = N - 1
      BY <2>1, <1>2 DEF Count, Advance
    <3> QED BY <3>1, <3>2, <1>2
  <2>2. CASE Advance(tail) # head
    <3>1. Count' = IF head <= Advance(tail) THEN Advance(tail) - head
                                            ELSE Advance(tail) + N - head
      BY <2>2, <1>1 DEF Count
    <3> QED BY <2>2, <3>1, <1>2 DEF Count, Advance
  <2> QED BY <2>1, <2>2
<1>5. \A k \in 1..N : At(k)' = At(k)
  BY <1>1 DEF At
<1>6. \A k \in 1..Count : buf'[At(k)'] = buf[At(k)]
  <2> TAKE k \in 1..Count
  <2>1. At(k) \in Slots /\ At(k) # tail /\ At(k)' = At(k)
    BY <1>2, <1>3, <1>5, CountAndPlaces
  <2> QED BY <2>1, <1>1 DEF TypeOK
<1>7. \A k \in 1..N : k = Count + 1 => buf'[At(k)'] = r
  <2> SUFFICES ASSUME NEW k \in 1..N, k = Count + 1 PROVE buf'[At(k)'] = r
    OBVIOUS
  <2>1. At(k)' = tail
    BY <1>5, CountAndPlaces
  <2> QED BY <2>1, <1>1 DEF TypeOK
<1>8. /\ Contents \in Seq(Nat) /\ Len(Contents) = Count
      /\ \A k \in 1..Count : Contents[k] = buf[At(k)]
  BY ContentsSeq
<1>9. Contents' = [k \in 1..(Count + 1) |-> buf'[At(k)']]
  BY <1>4 DEF Contents
<1>10. /\ Append(Contents, r) \in Seq(Nat) /\ Len(Append(Contents, r)) = Count + 1
       /\ \A k \in 1..Count : Append(Contents, r)[k] = Contents[k]
       /\ Append(Contents, r)[Count + 1] = r
  BY <1>8, AppendProperties
<1>11. \A k \in 1..(Count + 1) : buf'[At(k)'] = Append(Contents, r)[k] /\ buf'[At(k)'] \in Nat
  <2> TAKE k \in 1..(Count + 1)
  <2>1. CASE k = Count + 1
    <3>1. k \in 1..N
      BY <2>1, <1>2, <1>3
    <3> QED BY <2>1, <3>1, <1>7, <1>10
  <2>2. CASE k # Count + 1
    <3>1. k \in 1..Count
      BY <2>2, <1>2, <1>3
    <3> QED BY <3>1, <1>6, <1>8, <1>10, ElementOfSeq
  <2> QED BY <2>1, <2>2
<1>12. Contents' \in [1..(Count + 1) -> Nat]
  BY <1>9, <1>11
<1>13. Contents' \in Seq(Nat) /\ Len(Contents') = Count + 1
  BY <1>12, <1>2, <1>3, FunctionIsSeq
<1>14. \A k \in 1..Len(Contents') : Contents'[k] = Append(Contents, r)[k]
  BY <1>9, <1>11, <1>13
<1>15. Contents' = Append(Contents, r)
  BY <1>10, <1>13, <1>14, SeqEqual
<1> QED BY <1>2, <1>3, <1>4, <1>6, <1>7, <1>15

\* meta_q_deq takes the oldest record out.
LEMMA DeqGets ==
  ASSUME IInv, IInv', initialized, ~empty, Deq
  PROVE  /\ Count \in Nat /\ Count > 0 /\ Count' = Count - 1
         /\ At(1) = head
         /\ \A k \in 1..(Count - 1) : buf'[At(k)'] = buf[At(k + 1)]
         /\ Contents # <<>>
         /\ took' = Head(Contents)
         /\ Contents' = Tail(Contents)
<1> USE DEF IInv
<1>1. /\ took' = buf[head] /\ head' = Advance(head) /\ full' = FALSE
      /\ buf' = buf /\ tail' = tail
  BY DEF Deq
<1>2. N \in Nat /\ N > 0 /\ head \in 0..(N - 1) /\ tail \in 0..(N - 1) /\ full \in BOOLEAN
  BY SizeAssumption DEF TypeOK, Slots
<1>3. Count \in 0..N /\ Count # 0 /\ At(1) = head
  BY CountAndPlaces DEF RingInv
<1>4. Count' = Count - 1
  BY <1>1, <1>2 DEF Count, Advance, RingInv
<1>5. \A k \in 1..(N - 1) : At(k)' = At(k + 1)
  BY <1>1, <1>2 DEF At, Advance
<1>6. \A k \in 1..(Count - 1) : buf'[At(k)'] = buf[At(k + 1)]
  BY <1>1, <1>2, <1>3, <1>5
<1>7. /\ Contents \in Seq(Nat) /\ Len(Contents) = Count
      /\ \A k \in 1..Count : Contents[k] = buf[At(k)]
  BY ContentsSeq
<1>8. Contents # <<>> /\ took' = Head(Contents)
  BY <1>1, <1>2, <1>3, <1>7
<1>9. Contents' = [k \in 1..(Count - 1) |-> buf'[At(k)']]
  BY <1>4 DEF Contents
<1>10. /\ Tail(Contents) \in Seq(Nat) /\ Len(Tail(Contents)) = Count - 1
       /\ \A k \in 1..(Count - 1) : Tail(Contents)[k] = Contents[k + 1]
  BY <1>7, <1>8, HeadTailProperties
<1>11. \A k \in 1..(Count - 1) : buf'[At(k)'] = Tail(Contents)[k] /\ buf'[At(k)'] \in Nat
  <2> TAKE k \in 1..(Count - 1)
  <2>1. k + 1 \in 1..Count
    BY <1>2, <1>3
  <2> QED BY <2>1, <1>6, <1>7, <1>10, ElementOfSeq, ZenonT(60)
<1>12. Contents' \in [1..(Count - 1) -> Nat]
  BY <1>9, <1>11
<1>13. Contents' \in Seq(Nat) /\ Len(Contents') = Count - 1
  BY <1>12, <1>2, <1>3, FunctionIsSeq
<1>14. \A k \in 1..Len(Contents') : Contents'[k] = Tail(Contents)[k]
  BY <1>9, <1>11, <1>13
<1>15. Contents' = Tail(Contents)
  BY <1>10, <1>13, <1>14, SeqEqual
<1> QED BY <1>2, <1>3, <1>4, <1>6, <1>8, <1>15

\* A step that leaves the ring alone leaves its contents alone.
LEMMA ContentsKept ==
  ASSUME UNCHANGED <<buf, head, tail, full>>
  PROVE  Contents' = Contents /\ Count' = Count /\ \A k : At(k)' = At(k)
BY DEF Contents, Count, At

\* Every step of the queue is a step of the bounded FIFO or leaves it alone.
LEMMA FifoStep ==
  ASSUME IInv, IInv', [Next]_vars
  PROVE  [FIFO!Next]_<<Contents, took>>
<1> USE DEF IInv
<1>1. ASSUME initialized, NEW r \in 1..MaxRecords, Enq(r), took' = took, took < r,
             \A s \in Slots : buf[s] < r
      PROVE  [FIFO!Next]_<<Contents, took>>
  <2>1. CASE full
    BY <1>1, <2>1, ContentsKept DEF Enq, ring
  <2>2. CASE ~full
    <3>1. r \in Nat
      BY BoundAssumption
    <3>2. Contents' = Append(Contents, r) /\ Count < N /\ Count \in Nat
      BY <1>1, <2>2, <3>1, EnqPuts
    <3>3. Len(Contents) = Count /\ \A k \in 1..Count : Contents[k] = buf[At(k)]
      BY ContentsSeq
    <3>4. \A k \in 1..Count : At(k) \in Slots
      BY <3>2, CountAndPlaces, SizeAssumption
    <3>5. \A k \in 1..Len(Contents) : Contents[k] < r
      BY <1>1, <3>3, <3>4
    <3>6. FIFO!Put(r)
      BY <1>1, <3>2, <3>3, <3>5 DEF FIFO!Put
    <3> QED BY <3>6 DEF FIFO!Next
  <2> QED BY <2>1, <2>2
<1>2. CASE Offer
  <2>1. CASE ~initialized \/ MustWait
    BY <1>2, <2>1, ContentsKept DEF Offer, ring
  <2>2. CASE initialized /\ ~MustWait
    <3>1. Enq(offered + 1) /\ took' = took /\ offered + 1 \in 1..MaxRecords
      BY <1>2, <2>2, BoundAssumption DEF Offer, Accept, TypeOK
    <3>2. took < offered + 1 /\ \A s \in Slots : buf[s] < offered + 1
      BY DEF OlderInv, TypeOK
    <3> QED BY <1>1, <2>2, <3>1, <3>2
  <2> QED BY <2>1, <2>2
<1>3. CASE Woken
  <2>1. /\ Enq(offered) /\ took' = took /\ offered \in 1..MaxRecords
        /\ initialized /\ took < offered /\ \A s \in Slots : buf[s] < offered
    BY <1>3, BoundAssumption DEF Woken, Accept, OlderInv, TypeOK
  <2> QED BY <1>1, <2>1
<1>4. CASE Dequeue
  <2>1. initialized /\ ~empty /\ Deq
    BY <1>4 DEF Dequeue, TestedDataIsThere
  <2>2. FIFO!Get
    BY <2>1, DeqGets DEF FIFO!Get
  <2> QED BY <2>2 DEF FIFO!Next
<1>5. CASE InitQueue
  <2>1. head = 0 /\ tail = 0 /\ ~full /\ head' = 0 /\ tail' = 0 /\ ~full' /\ took' = took
    BY <1>5 DEF InitQueue, RingInv
  <2>2. Count = 0 /\ Count' = 0
    BY <2>1 DEF Count
  <2>3. Contents = [k \in 1..0 |-> buf[At(k)]] /\ Contents' = [k \in 1..0 |-> buf'[At(k)']]
    BY <2>2 DEF Contents
  <2>4. Contents' = Contents
    BY <2>3
  <2> QED BY <2>1, <2>4
<1>6. CASE TimedOut \/ Stop \/ Joined \/ WorkerStart \/ Poll \/ CopyOut \/ Write
           \/ Finish \/ UNCHANGED vars
  BY <1>6, ContentsKept
  DEF TimedOut, Stop, Joined, WorkerStart, Poll, CopyOut, Write, Finish, vars, ring
<1> QED BY <1>2, <1>3, <1>4, <1>5, <1>6 DEF Next, MainStep, WorkerStep, Exited

\* The ring starts as the empty FIFO.
LEMMA FifoInit == Init => FIFO!Init
<1> SUFFICES ASSUME Init PROVE FIFO!Init
  OBVIOUS
<1>1. Count = 0 /\ took = 0
  BY DEF Init, Count
<1>2. Contents = [k \in 1..0 |-> buf[At(k)]]
  BY <1>1 DEF Contents
<1>3. Contents = <<>>
  BY <1>2
<1> QED BY <1>1, <1>3 DEF FIFO!Init

\* The ring buffer with its two flags implements the bounded FIFO: records come
\* out once each and in order, whatever the timed waits return.
THEOREM ImplementsFifo == Spec => FifoSpec
<1>1. IInv /\ IInv' /\ [Next]_vars => [FIFO!Next]_<<Contents, took>>
  BY FifoStep
<1> QED BY <1>1, FifoInit, QueueInvariance, PTL DEF Spec, FifoSpec, FIFO!Spec, FIFO!vars

-----------------------------------------------------------------------------
(* Nothing accepted is lost, as long as no wake-up is spurious             *)

\* The main thread enqueues only into a ring with room, so that an accepted
\* record is put; it leaves the ring only when it is dequeued.
LEMMA KeptStep ==
  ASSUME "spurious" \notin Faults, IInv, IInv', AcceptedIsKept, [Next]_vars
  PROVE  AcceptedIsKept'
<1> USE DEF IInv
<1>1. ASSUME initialized, ~full, NEW r \in Nat, Accept(r), taken' = taken
      PROVE  AcceptedIsKept'
  <2>1. /\ Count \in Nat /\ Count < N /\ Count' = Count + 1
        /\ \A k \in 1..Count : buf'[At(k)'] = buf[At(k)]
        /\ \A k \in 1..N : k = Count + 1 => buf'[At(k)'] = r
    BY <1>1, EnqPuts DEF Accept
  <2>2. ASSUME NEW x \in accepted' PROVE x \in taken' \/ \E k \in 1..Count' : buf'[At(k)'] = x
    <3>1. CASE x = r
      <4>1. Count + 1 \in 1..N /\ Count + 1 \in 1..Count'
        BY <2>1, SizeAssumption
      <4> QED BY <3>1, <4>1, <2>1
    <3>2. CASE x # r
      <4>1. x \in accepted
        BY <3>2, <1>1 DEF Accept
      <4>2. x \in taken \/ \E k \in 1..Count : buf[At(k)] = x
        BY <4>1 DEF AcceptedIsKept
      <4>3. \A k \in 1..Count : k \in 1..Count'
        BY <2>1
      <4> QED BY <4>2, <4>3, <2>1, <1>1
    <3> QED BY <3>1, <3>2
  <2> QED BY <2>2 DEF AcceptedIsKept
<1>2. CASE Dequeue
  <2>1. initialized /\ ~empty /\ Deq /\ accepted' = accepted
    BY <1>2 DEF Dequeue, TestedDataIsThere
  <2>2. /\ Count \in Nat /\ Count > 0 /\ Count' = Count - 1 /\ At(1) = head
        /\ \A k \in 1..(Count - 1) : buf'[At(k)'] = buf[At(k + 1)]
    BY <2>1, DeqGets
  <2>3. taken' = taken \cup {buf[head]}
    BY <2>1 DEF Deq
  <2>4. ASSUME NEW x \in accepted' PROVE x \in taken' \/ \E k \in 1..Count' : buf'[At(k)'] = x
    <3>1. CASE x \in taken
      BY <3>1, <2>3
    <3>2. CASE x \notin taken
      <4>1. PICK k \in 1..Count : buf[At(k)] = x
        BY <3>2, <2>1 DEF AcceptedIsKept
      <4>2. CASE k = 1
        BY <4>1, <4>2, <2>2, <2>3
      <4>3. CASE k # 1
        <5>1. k - 1 \in 1..(Count - 1) /\ (k - 1) + 1 = k
          BY <4>3, <2>2
        <5>2. buf'[At(k - 1)'] = x
          BY <5>1, <4>1, <2>2
        <5> QED BY <5>1, <5>2, <2>2
      <4> QED BY <4>2, <4>3
    <3> QED BY <3>1, <3>2
  <2> QED BY <2>4 DEF AcceptedIsKept
<1>3. CASE InitQueue
  <2>1. head = 0 /\ tail = 0 /\ ~full /\ UNCHANGED <<accepted, taken>>
    BY <1>3 DEF InitQueue, RingInv
  <2>2. Count = 0
    BY <2>1 DEF Count
  <2>3. \A x \in accepted : x \in taken
    BY <2>2 DEF AcceptedIsKept
  <2> QED BY <2>1, <2>3 DEF AcceptedIsKept
<1>4. CASE Offer
  <2>1. CASE ~initialized \/ MustWait
    BY <1>4, <2>1, ContentsKept DEF Offer, ring, AcceptedIsKept
  <2>2. CASE initialized /\ ~MustWait
    BY <1>1, <1>4, <2>2 DEF Offer, MustWait, TypeOK
  <2> QED BY <2>1, <2>2
<1>5. CASE Woken
  BY <1>1, <1>5 DEF Woken, OlderInv, TypeOK
<1>6. CASE TimedOut \/ Stop \/ Joined \/ WorkerStart \/ Poll \/ CopyOut \/ Write
           \/ Finish \/ UNCHANGED vars
  BY <1>6, ContentsKept
  DEF TimedOut, Stop, Joined, WorkerStart, Poll, CopyOut, Write, Finish, vars, ring,
      AcceptedIsKept
<1> QED BY <1>2, <1>3, <1>4, <1>5, <1>6 DEF Next, MainStep, WorkerStep, Exited

\* Without spurious wake-ups a record for which enq_metadata_descriptor answered
\* 1 is in the ring until it is dequeued.
THEOREM AcceptedIsKeptAlways ==
  ASSUME "spurious" \notin Faults
  PROVE  Spec => []AcceptedIsKept
<1>1. Init => AcceptedIsKept
  BY DEF Init, AcceptedIsKept
<1>2. IInv /\ IInv' /\ AcceptedIsKept /\ [Next]_vars => AcceptedIsKept'
  BY KeptStep
<1> QED BY <1>1, <1>2, QueueInvariance, PTL DEF Spec
=============================================================================
