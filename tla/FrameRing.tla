------------------------------ MODULE FrameRing -------------------------------
(***************************************************************************)
(* FrameRing (src/audio/ring/frame_ring.h): the carrier of audio frames    *)
(* from the capture thread to the DSP thread.  A fixed population of       *)
(* chunks circulates between two single-producer single-consumer queues:   *)
(* free_list_ -> push() -> queue_ -> pop() -> process -> recycle() ->      *)
(* free_list_.  A chunk is a pointer: whoever holds it may write to it, so *)
(* what matters is that it is always in exactly one place.                 *)
(*                                                                         *)
(* One queue operation is one step (the queues are a library); filling,    *)
(* processing and clearing a chunk are steps of their own.                 *)
(***************************************************************************)
EXTENDS Naturals, Sequences

CONSTANTS
  Capacity,       (* capacity_chunks                                     *)
  QueueCapacity,  (* elements a queue built for Capacity really holds    *)
  MaxPush         (* bound: calls of push() in a behaviour               *)

ASSUME CapacityAssumption == Capacity \in Nat \ {0}
(* The library promises room for at least what it was constructed with.   *)
ASSUME QueueAssumption == QueueCapacity \in Nat /\ QueueCapacity >= Capacity

Chunks == 1 .. Capacity
None == 0           (* a null unique_ptr, or a chunk without samples *)

VARIABLES
  freeList,   (* free_list_                                              *)
  queue,      (* queue_                                                  *)
  samples,    (* per chunk: the number of the frame it carries           *)
  pushed,     (* calls of push() that have returned                      *)
  filling,    (* the chunk push() took from the free list                *)
  filled,     (* whether push() has copied the samples into it           *)
  chunk,      (* the DSP thread's local chunk                            *)
  frame,      (* the frame it popped last: AnalysisFrame spans its chunk *)
  clearing,   (* whether the DSP thread is in recycle()                  *)
  analysed    (* the last frame that pipeline_.process() got through     *)

producerVars == <<pushed, filling, filled>>
consumerVars == <<chunk, frame, clearing, analysed>>
vars == <<freeList, queue, samples, producerVars, consumerVars>>

Room(q) == Len(q) < QueueCapacity

(* try_enqueue: refuses when the queue is full; the caller's unique_ptr   *)
(* then dies with the chunk.                                              *)
TryEnqueue(q, c) == IF Room(q) THEN Append(q, c) ELSE q

Init ==
  /\ freeList = [i \in 1 .. Capacity |-> i]
  /\ queue = <<>>
  /\ samples = [c \in Chunks |-> None]
  /\ pushed = 0
  /\ filling = None
  /\ filled = FALSE
  /\ chunk = None
  /\ frame = 0
  /\ clearing = FALSE
  /\ analysed = 0

-------------------------------------------------------------------------------
(* The capture thread: push().                                            *)

(* free_list_.try_dequeue finds nothing: the frame is dropped.            *)
PushRefused ==
  /\ pushed < MaxPush
  /\ filling = None
  /\ freeList = <<>>
  /\ pushed' = pushed + 1
  /\ UNCHANGED <<freeList, queue, samples, filling, filled, consumerVars>>

PushTakeFree ==
  /\ pushed < MaxPush
  /\ filling = None
  /\ freeList # <<>>
  /\ filling' = Head(freeList)
  /\ freeList' = Tail(freeList)
  /\ filled' = FALSE
  /\ UNCHANGED <<queue, samples, pushed, consumerVars>>

(* samples.assign and format.                                             *)
PushFill ==
  /\ filling # None
  /\ ~filled
  /\ samples' = [samples EXCEPT ![filling] = pushed + 1]
  /\ filled' = TRUE
  /\ UNCHANGED <<freeList, queue, pushed, filling, consumerVars>>

(* A mutant of PushEnqueue: enqueued before the samples are in.           *)
PushEnqueueUnfilled ==
  /\ filling # None
  /\ queue' = TryEnqueue(queue, filling)
  /\ pushed' = pushed + 1
  /\ filling' = None
  /\ filled' = FALSE
  /\ UNCHANGED <<freeList, samples, consumerVars>>

PushEnqueue ==
  /\ filling # None
  /\ filled
  /\ queue' = TryEnqueue(queue, filling)
  /\ pushed' = pushed + 1
  /\ filling' = None
  /\ filled' = FALSE
  /\ UNCHANGED <<freeList, samples, consumerVars>>

-------------------------------------------------------------------------------
(* The DSP thread: pop(), the pipeline, recycle().                        *)

(* A mutant of Pop: an off-by-one in the test for an empty queue.         *)
PopLeavesLast ==
  /\ chunk = None
  /\ Len(queue) > 1
  /\ chunk' = Head(queue)
  /\ frame' = samples[Head(queue)]
  /\ queue' = Tail(queue)
  /\ UNCHANGED <<freeList, samples, producerVars, clearing, analysed>>

Pop ==
  /\ chunk = None
  /\ queue # <<>>
  /\ chunk' = Head(queue)
  /\ frame' = samples[Head(queue)]
  /\ queue' = Tail(queue)
  /\ UNCHANGED <<freeList, samples, producerVars, clearing, analysed>>

(* The pipeline got through the frame, and its snapshot is published.     *)
ProcessOk ==
  /\ chunk # None
  /\ ~clearing
  /\ analysed' = samples[chunk]
  /\ clearing' = TRUE
  /\ UNCHANGED <<freeList, queue, samples, producerVars, chunk, frame>>

(* A mutant of ProcessThrows: the handler forgets to recycle the chunk.   *)
ProcessThrowsAway ==
  /\ chunk # None
  /\ ~clearing
  /\ chunk' = None
  /\ UNCHANGED <<freeList, queue, samples, producerVars, frame, clearing,
                 analysed>>

(* A stage threw: "swallow any stage exception, recycle and continue".    *)
ProcessThrows ==
  /\ chunk # None
  /\ ~clearing
  /\ clearing' = TRUE
  /\ UNCHANGED <<freeList, queue, samples, producerVars, chunk, frame,
                 analysed>>

(* recycle(), first half: samples.clear() and the default format.         *)
RecycleClear ==
  /\ clearing
  /\ samples[chunk] # None
  /\ samples' = [samples EXCEPT ![chunk] = None]
  /\ UNCHANGED <<freeList, queue, producerVars, consumerVars>>

(* A mutant of RecycleEnqueue: the DSP thread keeps the pointer it gave   *)
(* back, and recycles it again.                                           *)
RecycleCopy ==
  /\ clearing
  /\ samples[chunk] = None
  /\ Len(freeList) < Capacity
  /\ freeList' = TryEnqueue(freeList, chunk)
  /\ \/ chunk' = None /\ clearing' = FALSE
     \/ UNCHANGED <<chunk, clearing>>
  /\ UNCHANGED <<queue, samples, producerVars, frame, analysed>>

(* recycle(), second half.                                                *)
RecycleEnqueue ==
  /\ clearing
  /\ samples[chunk] = None
  /\ freeList' = TryEnqueue(freeList, chunk)
  /\ chunk' = None
  /\ clearing' = FALSE
  /\ UNCHANGED <<queue, samples, producerVars, frame, analysed>>

-------------------------------------------------------------------------------
Capture == PushRefused \/ PushTakeFree \/ PushFill \/ PushEnqueue

Dsp == Pop \/ ProcessOk \/ ProcessThrows \/ RecycleClear \/ RecycleEnqueue

Next == Capture \/ Dsp

(* The DSP loop polls for ever (every 2 ms when the ring is empty); the   *)
(* capture thread may stop at any point, even inside push().              *)
Fairness == WF_vars(Dsp)

Spec == Init /\ [][Next]_vars /\ Fairness

-------------------------------------------------------------------------------
(* Properties                                                             *)

TypeOK ==
  /\ freeList \in Seq(Chunks)
  /\ queue \in Seq(Chunks)
  /\ samples \in [Chunks -> Nat]
  /\ pushed \in Nat
  /\ filling \in Chunks \cup {None}
  /\ filled \in BOOLEAN
  /\ chunk \in Chunks \cup {None}
  /\ frame \in Nat
  /\ clearing \in BOOLEAN
  /\ analysed \in Nat

Held(c) == IF c = None THEN 0 ELSE 1

(* No chunk is ever destroyed by a refused try_enqueue or left behind by  *)
(* an early exit: all Capacity of them are always in circulation, hence   *)
(* both queues always have room for the chunk a thread puts back.         *)
AllChunksCirculate ==
  Len(freeList) + Len(queue) + Held(filling) + Held(chunk) = Capacity

NoRepeats(q) == \A i, j \in 1 .. Len(q) : q[i] = q[j] => i = j

Absent(c, q) == \A i \in 1 .. Len(q) : q[i] # c

(* A chunk is in one place at a time: nobody writes into a chunk that     *)
(* waits in a queue or that the other thread works on.                    *)
OneOwner ==
  /\ NoRepeats(freeList)
  /\ NoRepeats(queue)
  /\ \A i \in 1 .. Len(queue) : Absent(queue[i], freeList)
  /\ Absent(filling, freeList) /\ Absent(filling, queue)
  /\ Absent(chunk, freeList) /\ Absent(chunk, queue)
  /\ filling = chunk => filling = None

(* Every chunk in the queue still carries the frame it was pushed for,    *)
(* oldest first; the chunk being processed is older than all of them and  *)
(* is not written to while it is processed.                               *)
FramesInOrder ==
  /\ \A i \in 1 .. Len(queue) : samples[queue[i]] \in (frame + 1) .. pushed
  /\ \A i, j \in 1 .. Len(queue) :
        i < j => samples[queue[i]] < samples[queue[j]]
  /\ chunk # None /\ ~clearing => samples[chunk] = frame /\ analysed < frame
  /\ analysed <= frame
  /\ frame <= pushed
  /\ clearing => chunk # None
  /\ filled => filling # None /\ samples[filling] = pushed + 1

RingInv == TypeOK /\ AllChunksCirculate /\ OneOwner /\ FramesInOrder

(* The numbers of the frames that wait in queue_.                         *)
FramesQueued == [i \in 1 .. Len(queue) |-> samples[queue[i]]]

Channel == INSTANCE FrameChannel WITH
  offered <- pushed, inFlight <- FramesQueued,
  busy <- chunk # None, delivered <- frame

(* The two queues and the recycled chunks implement a bounded FIFO channel*)
(* of Capacity frames: nothing accepted is lost, reordered or overwritten,*)
(* and push() refuses only when Capacity frames are really in flight.     *)
ImplementsChannel == Channel!ChanSpec

(* The snapshots come from ever newer frames: no frame is analysed twice, *)
(* even when some frames in between made a stage throw.                   *)
AnalysisAdvances == [][analysed' = analysed \/ analysed' > analysed]_vars

(* Every frame the ring accepted is taken up by the DSP thread, even if   *)
(* the capture thread goes silent afterwards or hangs inside push().      *)
AcceptedFramesAreTaken ==
  \A n \in 1 .. MaxPush :
    (\E i \in 1 .. Len(queue) : samples[queue[i]] = n) ~> (frame >= n)

(* Back-pressure ends: a capture thread that finds the free list empty    *)
(* finds a chunk in it later on.                                          *)
BackPressureEnds ==
  (freeList = <<>> /\ filling = None) ~> (freeList # <<>> \/ filling # None)
===============================================================================
