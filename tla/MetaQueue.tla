----------------------------- MODULE MetaQueue -----------------------------
(***************************************************************************)
(* The hand-over of metadata records inside the metadata recorder.  The    *)
(* main thread (metarec/src/main.c) turns PTC messages into records and    *)
(* enqueues them (metarec/src/metaintf.c); the recording thread            *)
(* (metarec/src/metaio.c) dequeues them and writes them to the chunk       *)
(* files.  Between them is the ring of metarec/src/metaqueue.c, with one   *)
(* mutex and two condition variables.                                      *)
(*                                                                         *)
(* A critical section is one step, split where the code gives up the mutex *)
(* (the timed wait for room).  What the code does outside the mutex is a   *)
(* step of its own: the test for data, and the copy of the slot whose      *)
(* address the dequeue returned.  A record is its number in the order of   *)
(* the offers; 0 is a slot that was never written.                         *)
(***************************************************************************)
EXTENDS Integers, Sequences

CONSTANTS
  N,            \* METADATA_DESC_QUEUE_SIZE
  MaxRecords,   \* bound: records offered in a behaviour
  Faults        \* "spurious": the wait for room may return without a signal
                \* "slowStart": one second is not enough to start the thread

ASSUME SizeAssumption == N \in Nat \ {0}
ASSUME BoundAssumption == MaxRecords \in Nat
ASSUME FaultsAssumption == Faults \subseteq {"spurious", "slowStart"}

VARIABLES
  buf, head, tail, full, empty, initialized,   \* meta_desc_q_t
  active,     \* pchan->is_active
  main,       \* where the main thread is
  offered,    \* the number of the last record given to enq_metadata_descriptor
  worker,     \* where the recording thread is
  slot,       \* the slot whose address meta_q_deq returned
  got,        \* the two halves of the descriptor the recording thread copied
  took,       \* history: what the slot held when it was dequeued
  taken,      \* history: every record dequeued
  accepted    \* history: the records for which the enqueue returned 1

ring == <<buf, head, tail, full, empty, initialized>>
vars == <<ring, active, main, offered, worker, slot, got, took, taken, accepted>>

Slots == 0..(N - 1)

-----------------------------------------------------------------------------
(* The ring                                                                *)

Advance(i) == IF i + 1 = N THEN 0 ELSE i + 1

\* The ring is never marked full.
Enq_NeverFull(r) ==
  /\ buf' = [buf EXCEPT ![tail] = r]
  /\ tail' = Advance(tail)
  /\ full' = FALSE
  /\ empty' = FALSE
  /\ UNCHANGED <<head, initialized>>

\* meta_q_enq: nothing happens when the ring is full.
Enq(r) ==
  IF full
  THEN UNCHANGED ring
  ELSE /\ buf' = [buf EXCEPT ![tail] = r]
       /\ tail' = Advance(tail)
       /\ full' = (Advance(tail) = head)
       /\ empty' = FALSE
       /\ UNCHANGED <<head, initialized>>

\* The address returned is taken after the head was advanced.
Deq_AddressLate ==
  /\ slot' = Advance(head)
  /\ took' = buf[head]
  /\ taken' = taken \cup {buf[head]}
  /\ head' = Advance(head)
  /\ empty' = (Advance(head) = tail)
  /\ full' = FALSE
  /\ UNCHANGED <<buf, tail, initialized>>

\* meta_q_deq: the record stays in its slot, whose address is the result.
Deq ==
  /\ slot' = head
  /\ took' = buf[head]
  /\ taken' = taken \cup {buf[head]}
  /\ head' = Advance(head)
  /\ empty' = (Advance(head) = tail)
  /\ full' = FALSE
  /\ UNCHANGED <<buf, tail, initialized>>

\* There is no wait for room; the test for data is missing, or of the wrong flag.
MustWait_Never == FALSE
HasData_Always == TRUE
HasData_Full == full

\* meta_q_wait_for_room has to wait, meta_q_isempty answers no.
MustWait == full
HasData == ~empty

-----------------------------------------------------------------------------
(* The main thread                                                         *)

\* The sleep(1) before the first record; afterwards the thread is expected to
\* have created the queue.
Started == initialized \/ "slowStart" \in Faults

\* The end of enq_metadata_descriptor once there was no need to wait any more:
\* it answers 1 whatever meta_q_enq did.
Accept(r) ==
  /\ Enq(r)
  /\ accepted' = accepted \cup {r}

\* A set_... function: enq_metadata_descriptor up to its end or to its wait.
\* Without a queue the lock fails and the record is dropped.
Offer ==
  /\ main = "run" /\ Started
  /\ offered < MaxRecords
  /\ offered' = offered + 1
  /\ \/ /\ ~initialized
        /\ UNCHANGED <<ring, accepted, main>>
     \/ /\ initialized /\ MustWait
        /\ main' = "wait"
        /\ UNCHANGED <<ring, accepted>>
     \/ /\ initialized /\ ~MustWait
        /\ Accept(offered + 1)
        /\ UNCHANGED main
  /\ UNCHANGED <<active, worker, slot, got, took, taken>>

\* pthread_cond_timedwait returns 0.  Only a dequeue from a full ring signals,
\* and only the main thread fills it again, so a signalled wait finds room.
Woken ==
  /\ main = "wait"
  /\ ~full \/ "spurious" \in Faults
  /\ Accept(offered)
  /\ main' = "run"
  /\ UNCHANGED <<active, offered, worker, slot, got, took, taken>>

\* It returns ETIMEDOUT, which may happen although there is room by now: the
\* record is dropped.
TimedOut ==
  /\ main = "wait"
  /\ main' = "run"
  /\ UNCHANGED <<ring, active, offered, worker, slot, got, took, taken, accepted>>

\* The thread is joined without being told to end.
Stop_JoinOnly ==
  /\ main = "run" /\ Started
  /\ main' = "join"
  /\ UNCHANGED <<ring, active, offered, worker, slot, got, took, taken, accepted>>

\* keep_running was cleared: metadata_recording_stop up to pthread_join.
Stop ==
  /\ main = "run" /\ Started
  /\ active' = FALSE
  /\ main' = "join"
  /\ UNCHANGED <<ring, offered, worker, slot, got, took, taken, accepted>>

Joined ==
  /\ main = "join" /\ worker = "done"
  /\ main' = "done"
  /\ UNCHANGED <<ring, active, offered, worker, slot, got, took, taken, accepted>>

-----------------------------------------------------------------------------
(* The recording thread                                                    *)

\* The thread sets is_active itself, as metadata_recording_init already did.
WorkerStart ==
  /\ worker = "start"
  /\ active' = TRUE
  /\ worker' = "init"
  /\ UNCHANGED <<ring, main, offered, slot, got, took, taken, accepted>>

\* init_metadata_recording_queue.
InitQueue ==
  /\ worker = "init"
  /\ buf' = [s \in Slots |-> 0]
  /\ head' = 0 /\ tail' = 0
  /\ full' = FALSE /\ empty' = TRUE
  /\ initialized' = TRUE
  /\ worker' = "loop"
  /\ UNCHANGED <<active, main, offered, slot, got, took, taken, accepted>>

\* The head of the loop and the test of get_metadata_descriptor, without the
\* mutex.  When the ring is empty the thread naps and comes back here.
Poll ==
  /\ worker = "loop" /\ active
  /\ worker' = IF HasData THEN "deq" ELSE "loop"
  /\ UNCHANGED <<ring, active, main, offered, slot, got, took, taken, accepted>>

\* deq_metadata_descriptor.  On an empty ring it waits for a second; without a
\* record get_metadata_descriptor answers 0.
Dequeue ==
  /\ worker = "deq"
  /\ IF empty
     THEN worker' = "loop" /\ UNCHANGED <<ring, slot, took, taken>>
     ELSE worker' = "copy" /\ Deq
  /\ UNCHANGED <<active, main, offered, got, accepted>>

\* The memcpy out of the slot, after the mutex was released.  The main thread
\* may write the slot meanwhile: each half is the old or the new content.
CopyOut ==
  /\ worker = "copy"
  /\ got' \in {took, buf[slot]} \X {took, buf[slot]}
  /\ worker' = "write"
  /\ UNCHANGED <<ring, active, main, offered, slot, took, taken, accepted>>

\* The record is written to the chunk files and its payload freed.
Write ==
  /\ worker = "write"
  /\ worker' = "loop"
  /\ UNCHANGED <<ring, active, main, offered, slot, got, took, taken, accepted>>

\* The loop ends; what is still queued is left there.
Finish ==
  /\ worker = "loop" /\ ~active
  /\ worker' = "done"
  /\ UNCHANGED <<ring, active, main, offered, slot, got, took, taken, accepted>>

\* The process has ended.
Exited ==
  /\ main = "done"
  /\ UNCHANGED vars

-----------------------------------------------------------------------------
\* The queue is static memory: zeroes, and not initialized.
Init ==
  /\ buf = [s \in Slots |-> 0]
  /\ head = 0 /\ tail = 0
  /\ full = FALSE /\ empty = FALSE /\ initialized = FALSE
  /\ active = TRUE
  /\ main = "run" /\ offered = 0
  /\ worker = "start" /\ slot = 0 /\ got = <<0, 0>>
  /\ took = 0 /\ taken = {} /\ accepted = {}

MainStep == Offer \/ Woken \/ TimedOut \/ Stop \/ Joined

WorkerStep ==
  WorkerStart \/ InitQueue \/ Poll \/ Dequeue \/ CopyOut \/ Write \/ Finish

Next == MainStep \/ WorkerStep \/ Exited

Spec == Init /\ [][Next]_vars

\* Both threads are scheduled; the wait and the join return when they can.
\* Messages and the signal that ends the program may never come.
Fairness ==
  /\ WF_vars(WorkerStep)
  /\ WF_vars(Woken \/ TimedOut)
  /\ WF_vars(Joined)

FairSpec == Spec /\ Fairness

-----------------------------------------------------------------------------
(* Properties                                                              *)

TypeOK ==
  /\ buf \in [Slots -> Nat] /\ head \in Slots /\ tail \in Slots
  /\ full \in BOOLEAN /\ empty \in BOOLEAN /\ initialized \in BOOLEAN
  /\ active \in BOOLEAN
  /\ main \in {"run", "wait", "join", "done"}
  /\ offered \in Nat
  /\ worker \in {"start", "init", "loop", "deq", "copy", "write", "done"}
  /\ slot \in Slots /\ got \in Nat \X Nat
  /\ took \in Nat /\ taken \subseteq Nat /\ accepted \subseteq Nat

\* The records held, oldest first.
Count == IF full THEN N ELSE IF head <= tail THEN tail - head ELSE tail + N - head
At(k) == IF head + k - 1 < N THEN head + k - 1 ELSE head + k - 1 - N
Contents == [k \in 1..Count |-> buf[At(k)]]

\* The ring with its two flags is a bounded FIFO: every step puts one newer
\* record at the end, takes the oldest one out, or leaves the contents alone,
\* whatever the waits of enq_metadata_descriptor return.
FIFO == INSTANCE BoundedFIFO WITH queue <- Contents, out <- took, Records <- 1..MaxRecords
FifoSpec == FIFO!Spec

\* meta_q_deq returns the address of a slot it has just released, and the copy
\* of get_metadata_descriptor is made without the mutex.  The slot can be
\* written before the copy only by the record that fills the ring again.
OverwrittenOnlyWhenFull ==
  worker = "copy" /\ buf[slot] # took => full

\* The test for data is made without the mutex and used under it: since only
\* the recording thread removes records the answer is still true then, and
\* meta_q_wait_for_data never blocks while the main thread needs the mutex.
TestedDataIsThere ==
  worker = "deq" => initialized /\ ~empty

\* A record for which enq_metadata_descriptor answered 1 is in the ring or was
\* dequeued (as long as the wait for room has no spurious wake-up: it tests
\* the ring with an if, not with a loop).
AcceptedIsKept ==
  \A r \in accepted : r \in taken \/ \E k \in 1..Count : buf[At(k)] = r

\* Every accepted record is dequeued unless the recorder is told to stop: the
\* loop of metadata_recording_thread polls and is never signalled.
AcceptedIsTaken ==
  \A r \in 1..MaxRecords : r \in accepted ~> r \in taken \/ ~active

\* metadata_recording_stop returns when it is called after the recording thread
\* has set is_active: neither the main thread's join nor the recording thread
\* waits for the other for ever.
StopReturns ==
  [](main = "run" /\ worker # "start" => [](main = "join" => <>(main = "done")))
=============================================================================
