--------------------------- MODULE FrameRing_proofs ---------------------------
(***************************************************************************)
(* Proofs about FrameRing for any capacity and any number of pushes.       *)
(***************************************************************************)
EXTENDS FrameRing, SequenceTheorems, TLAPS

(* Appending to a queue that has room adds its element at the end.        *)
LEMMA EnqueueWithRoom ==
  ASSUME NEW q \in Seq(Chunks), NEW c \in Chunks, Len(q) < Capacity
  PROVE  /\ TryEnqueue(q, c) \in Seq(Chunks)
         /\ Len(TryEnqueue(q, c)) = Len(q) + 1
         /\ \A i \in 1 .. Len(q) : TryEnqueue(q, c)[i] = q[i]
         /\ TryEnqueue(q, c)[Len(q) + 1] = c
<1>1. Room(q)
  BY CapacityAssumption, QueueAssumption DEF Room
<1> QED
  BY <1>1 DEF TryEnqueue

(* Removing the head of a queue shifts the others.                        *)
LEMMA Dequeue ==
  ASSUME NEW q \in Seq(Chunks), q # <<>>
  PROVE  /\ Head(q) = q[1] /\ Head(q) \in Chunks
         /\ Tail(q) \in Seq(Chunks)
         /\ Len(q) \in Nat \ {0}
         /\ Len(Tail(q)) = Len(q) - 1
         /\ \A i \in 1 .. Len(Tail(q)) : Tail(q)[i] = q[i + 1]
  OBVIOUS

LEMMA InitRingInv == Init => RingInv
<1> SUFFICES ASSUME Init PROVE RingInv
  OBVIOUS
<1> USE CapacityAssumption DEF Chunks, None
<1>1. freeList \in Seq(Chunks) /\ Len(freeList) = Capacity
  BY DEF Init
<1>2. TypeOK
  <2>1. queue \in Seq(Chunks)
    BY DEF Init
  <2>2. samples \in [Chunks -> Nat]
    BY DEF Init
  <2> QED
    BY <1>1, <2>1, <2>2 DEF Init, TypeOK
<1>3. AllChunksCirculate
  BY <1>1 DEF Init, AllChunksCirculate, Held
<1>4. OneOwner
  BY <1>1 DEF Init, OneOwner, NoRepeats, Absent
<1>5. FramesInOrder
  BY DEF Init, FramesInOrder
<1> QED
  BY <1>2, <1>3, <1>4, <1>5 DEF RingInv

(* Every step of the two threads preserves the invariant.                 *)
LEMMA NextRingInv == RingInv /\ [Next]_vars => RingInv'
<1> SUFFICES ASSUME RingInv, [Next]_vars PROVE RingInv'
  OBVIOUS
<1> USE CapacityAssumption DEF RingInv, None
<1>0. /\ freeList \in Seq(Chunks) /\ Len(freeList) \in Nat
      /\ queue \in Seq(Chunks) /\ Len(queue) \in Nat
      /\ \A i \in 1 .. Len(queue) : queue[i] \in Chunks
      /\ \A i \in 1 .. Len(freeList) : freeList[i] \in Chunks
      /\ None \notin Chunks
  <2>1. freeList \in Seq(Chunks) /\ queue \in Seq(Chunks)
    BY DEF TypeOK
  <2>2. None \notin Chunks
    BY DEF Chunks
  <2> QED BY ONLY <2>1, <2>2
<1>1. CASE PushRefused
  <2>1. TypeOK'
    BY <1>1 DEF PushRefused, TypeOK, consumerVars
  <2>2. AllChunksCirculate'
    BY <1>1 DEF PushRefused, AllChunksCirculate, consumerVars
  <2>3. OneOwner'
    BY <1>1 DEF PushRefused, OneOwner, NoRepeats, Absent, consumerVars
  <2>4. FramesInOrder'
    BY <1>0, <1>1 DEF PushRefused, FramesInOrder, TypeOK, consumerVars
  <2> QED
    BY <2>1, <2>2, <2>3, <2>4
<1>2. CASE PushTakeFree
  <2> DEFINE q == freeList'
  <2>0. /\ filling' = freeList[1] /\ freeList[1] \in Chunks
        /\ q \in Seq(Chunks) /\ Len(freeList) # 0
        /\ Len(q) = Len(freeList) - 1
        /\ \A i \in 1 .. Len(q) : q[i] = freeList[i + 1]
    BY <1>0, <1>2, Dequeue DEF PushTakeFree
  <2>1. TypeOK'
    BY <1>2, <2>0 DEF PushTakeFree, TypeOK, consumerVars
  <2>2. AllChunksCirculate'
    BY <1>0, <1>2, <2>0 DEF PushTakeFree, AllChunksCirculate, Held, consumerVars
  <2>3. OneOwner'
    <3> HIDE DEF q
    <3>1. 1 \in 1 .. Len(freeList)
          /\ \A i \in 1 .. Len(q) : i + 1 \in 1 .. Len(freeList)
      BY <1>0, <2>0
    <3>2. NoRepeats(q) /\ Absent(freeList[1], q)
      <4>1. \A i, j \in 1 .. Len(freeList) : freeList[i] = freeList[j] => i = j
        BY DEF OneOwner, NoRepeats
      <4>2. \A i, j \in 1 .. Len(q) : q[i] = q[j] => i + 1 = j + 1
        BY <2>0, <3>1, <4>1
      <4>3. \A i \in 1 .. Len(q) : freeList[1] = q[i] => 1 = i + 1
        BY <2>0, <3>1, <4>1
      <4>4. \A i \in 1 .. Len(q) : i \in Nat /\ 1 # i + 1
        BY <1>0, <2>0
      <4> QED
        BY <4>2, <4>3, <4>4 DEF NoRepeats, Absent
    <3>3. Absent(freeList[1], queue) /\ Absent(chunk, q)
      BY <1>0, <2>0, <3>1 DEF OneOwner, Absent
    <3>4. \A i \in 1 .. Len(queue) : Absent(queue[i], q)
      BY <1>0, <2>0, <3>1 DEF OneOwner, Absent
    <3>5. freeList[1] # chunk
      BY <3>1 DEF OneOwner, Absent
    <3>6. freeList' = q /\ filling' = freeList[1] /\ queue' = queue
          /\ chunk' = chunk
      BY <1>2, <2>0 DEF PushTakeFree, consumerVars, q
    <3>7. NoRepeats(queue) /\ Absent(chunk, queue)
      BY DEF OneOwner
    <3> QED
      BY <3>2, <3>3, <3>4, <3>5, <3>6, <3>7 DEF OneOwner, NoRepeats, Absent
  <2>4. FramesInOrder'
    BY <1>2, <2>0 DEF PushTakeFree, FramesInOrder, consumerVars
  <2> QED
    BY <2>1, <2>2, <2>3, <2>4
<1>3. CASE PushFill
  <2>0. \A i \in 1 .. Len(queue) : queue[i] # filling
    BY DEF OneOwner, Absent
  <2>1. TypeOK'
    BY <1>3 DEF PushFill, TypeOK, consumerVars
  <2>2. AllChunksCirculate'
    BY <1>3 DEF PushFill, AllChunksCirculate, consumerVars
  <2>3. OneOwner'
    BY <1>3 DEF PushFill, OneOwner, NoRepeats, Absent, consumerVars
  <2>4. FramesInOrder'
    BY <1>0, <1>3, <2>0
       DEF PushFill, FramesInOrder, OneOwner, TypeOK, consumerVars
  <2> QED
    BY <2>1, <2>2, <2>3, <2>4
<1>4. CASE PushEnqueue
  <2> DEFINE q == queue'
  <2>a. filling \in Chunks /\ Len(queue) < Capacity
    BY <1>0, <1>4 DEF PushEnqueue, AllChunksCirculate, Held, TypeOK
  <2>0. /\ q \in Seq(Chunks)
        /\ Len(q) = Len(queue) + 1
        /\ \A i \in 1 .. Len(queue) : q[i] = queue[i]
        /\ q[Len(queue) + 1] = filling
    BY <1>0, <1>4, <2>a, EnqueueWithRoom DEF PushEnqueue
  <2>b. \A i \in 1 .. Len(q) : i \in 1 .. Len(queue) \/ i = Len(queue) + 1
    BY <1>0, <2>0
  <2>1. TypeOK'
    <3>1. queue' \in Seq(Chunks) /\ (pushed + 1) \in Nat
      BY <2>0 DEF TypeOK
    <3> QED
      BY <1>4, <3>1 DEF PushEnqueue, TypeOK, consumerVars
  <2>2. AllChunksCirculate'
    BY <1>0, <1>4, <2>0, <2>a
       DEF PushEnqueue, AllChunksCirculate, Held, consumerVars, TypeOK, Chunks
  <2>3. OneOwner'
    <3> HIDE DEF q
    <3>1. NoRepeats(q)
      BY <1>0, <2>0, <2>b DEF OneOwner, NoRepeats, Absent
    <3>2. \A i \in 1 .. Len(q) : Absent(q[i], freeList)
      BY <1>0, <2>0, <2>b DEF OneOwner, Absent
    <3>3. Absent(chunk, q) /\ Absent(None, q) /\ Absent(None, freeList)
      BY <1>0, <2>0, <2>a, <2>b DEF OneOwner, Absent
    <3>4. queue' = q /\ filling' = None /\ freeList' = freeList
          /\ chunk' = chunk
      BY <1>4 DEF PushEnqueue, consumerVars, q
    <3>5. NoRepeats(freeList) /\ Absent(chunk, freeList)
      BY DEF OneOwner
    <3> QED
      BY <3>1, <3>2, <3>3, <3>4, <3>5 DEF OneOwner, NoRepeats, Absent
  <2>4. FramesInOrder'
    <3>1. samples[filling] = pushed + 1 /\ frame <= pushed
      BY <1>4 DEF PushEnqueue, FramesInOrder
    <3>2. \A i \in 1 .. Len(q) : samples[q[i]] \in (frame + 1) .. (pushed + 1)
      <4> TAKE i \in 1 .. Len(q)
      <4>1. frame \in Nat /\ pushed \in Nat
        BY DEF TypeOK
      <4>2. CASE i \in 1 .. Len(queue)
        <5>1. samples[queue[i]] \in (frame + 1) .. pushed
          BY <4>2 DEF FramesInOrder
        <5> QED
          BY <2>0, <4>1, <4>2, <5>1
      <4>3. CASE i = Len(queue) + 1
        BY <2>0, <3>1, <4>1, <4>3
      <4> QED
        BY <2>b, <4>2, <4>3
    <3>3. \A i, j \in 1 .. Len(q) : i < j => samples[q[i]] < samples[q[j]]
      <4> SUFFICES ASSUME NEW i \in 1 .. Len(q), NEW j \in 1 .. Len(q), i < j
                   PROVE  samples[q[i]] < samples[q[j]]
        OBVIOUS
      <4>1. i \in 1 .. Len(queue) /\ q[i] = queue[i]
        BY <1>0, <2>0
      <4>2. CASE j \in 1 .. Len(queue)
        BY <2>0, <4>1, <4>2 DEF FramesInOrder
      <4>3. CASE j = Len(queue) + 1
        BY <2>0, <3>1, <4>1, <4>3 DEF FramesInOrder, TypeOK
      <4> QED
        BY <2>b, <4>2, <4>3
    <3> QED
      BY <1>4, <3>1, <3>2, <3>3 DEF PushEnqueue, FramesInOrder, consumerVars, TypeOK
  <2> QED
    BY <2>1, <2>2, <2>3, <2>4
<1>5. CASE Pop
  <2> DEFINE q == queue'
  <2>0. /\ chunk' = queue[1] /\ frame' = samples[queue[1]]
        /\ queue[1] \in Chunks
        /\ q \in Seq(Chunks) /\ Len(queue) # 0
        /\ Len(q) = Len(queue) - 1
        /\ \A i \in 1 .. Len(q) : q[i] = queue[i + 1]
    BY <1>0, <1>5, Dequeue DEF Pop
  <2>a. 1 \in 1 .. Len(queue)
        /\ \A i \in 1 .. Len(q) : i + 1 \in 1 .. Len(queue) /\ 1 < i + 1
    BY <1>0, <2>0
  <2>1. TypeOK'
    BY <1>5, <2>0 DEF Pop, TypeOK, producerVars
  <2>2. AllChunksCirculate'
    <3>1. /\ Held(chunk) = 0 /\ Held(queue[1]) = 1
          /\ Held(filling) \in Nat
      BY <1>0, <1>5, <2>0 DEF Pop, Held
    <3>2. filling' = filling /\ freeList' = freeList /\ chunk' = queue[1]
      BY <1>5, <2>0 DEF Pop, producerVars
    <3>3. Len(queue') = Len(queue) - 1 /\ Len(freeList) \in Nat /\ Len(queue) \in Nat
      BY <1>0, <2>0
    <3>4. Capacity \in Nat /\ AllChunksCirculate
      OBVIOUS
    <3> HIDE DEF q
    <3> QED
      BY ONLY <3>1, <3>2, <3>3, <3>4 DEF AllChunksCirculate
  <2>3. OneOwner'
    <3> HIDE DEF q
    <3>1. NoRepeats(q) /\ Absent(queue[1], q)
      BY <1>0, <2>0, <2>a DEF OneOwner, NoRepeats, Absent
    <3>2. Absent(queue[1], freeList) /\ Absent(filling, q)
      BY <1>0, <2>0, <2>a DEF OneOwner, Absent
    <3>3. \A i \in 1 .. Len(q) : Absent(q[i], freeList)
      BY <1>0, <2>0, <2>a DEF OneOwner, Absent
    <3>4. queue[1] # filling
      BY <2>a DEF OneOwner, Absent
    <3>5. queue' = q /\ chunk' = queue[1] /\ freeList' = freeList
          /\ filling' = filling
      BY <1>5, <2>0 DEF Pop, producerVars, q
    <3>6. NoRepeats(freeList) /\ Absent(filling, freeList)
      BY DEF OneOwner
    <3> QED
      BY <3>1, <3>2, <3>3, <3>4, <3>5, <3>6 DEF OneOwner, NoRepeats, Absent
  <2>4. FramesInOrder'
    <3> HIDE DEF q
    <3>1. samples[queue[1]] \in (frame + 1) .. pushed
      BY <2>a DEF FramesInOrder
    <3>2. \A i \in 1 .. Len(q) :
            samples[q[i]] \in (samples[queue[1]] + 1) .. pushed
      <4> TAKE i \in 1 .. Len(q)
      <4>1. samples[queue[1]] < samples[queue[i + 1]]
        BY <2>a DEF FramesInOrder
      <4>2. samples[queue[i + 1]] \in (frame + 1) .. pushed
        BY <2>a DEF FramesInOrder
      <4>3. frame \in Nat /\ pushed \in Nat
        BY DEF TypeOK
      <4>4. q[i] = queue[i + 1]
        BY <2>0
      <4> QED
        BY ONLY <3>1, <4>1, <4>2, <4>3, <4>4
    <3>3. \A i, j \in 1 .. Len(q) : i < j => samples[q[i]] < samples[q[j]]
      BY <1>0, <2>0, <2>a DEF FramesInOrder
    <3>4. ~clearing
      BY <1>5 DEF Pop, FramesInOrder
    <3> QED
      BY <1>5, <2>0, <3>1, <3>2, <3>3, <3>4
         DEF Pop, FramesInOrder, producerVars, TypeOK, q
  <2> QED
    BY <2>1, <2>2, <2>3, <2>4
<1>6. CASE ProcessOk \/ ProcessThrows
  <2>1. TypeOK'
    BY <1>6 DEF ProcessOk, ProcessThrows, TypeOK, producerVars
  <2>2. AllChunksCirculate'
    BY <1>6 DEF ProcessOk, ProcessThrows, AllChunksCirculate, producerVars
  <2>3. OneOwner'
    BY <1>6 DEF ProcessOk, ProcessThrows, OneOwner, NoRepeats, Absent, producerVars
  <2>4. FramesInOrder'
    BY <1>6 DEF ProcessOk, ProcessThrows, FramesInOrder, TypeOK, producerVars
  <2> QED
    BY <2>1, <2>2, <2>3, <2>4
<1>7. CASE RecycleClear
  <2>0. /\ \A i \in 1 .. Len(queue) : queue[i] # chunk
        /\ chunk # None /\ chunk # filling
    BY <1>7 DEF RecycleClear, FramesInOrder, OneOwner, Absent
  <2>1. TypeOK'
    BY <1>7 DEF RecycleClear, TypeOK, producerVars, consumerVars
  <2>2. AllChunksCirculate'
    BY <1>7 DEF RecycleClear, AllChunksCirculate, producerVars, consumerVars
  <2>3. OneOwner'
    BY <1>7 DEF RecycleClear, OneOwner, NoRepeats, Absent, producerVars,
                consumerVars
  <2>4. FramesInOrder'
    BY <1>0, <1>7, <2>0 DEF RecycleClear, FramesInOrder, TypeOK, producerVars,
                            consumerVars
  <2> QED
    BY <2>1, <2>2, <2>3, <2>4
<1>8. CASE RecycleEnqueue
  <2> DEFINE q == freeList'
  <2>a. chunk \in Chunks /\ Len(freeList) < Capacity
    BY <1>0, <1>8
       DEF RecycleEnqueue, AllChunksCirculate, Held, TypeOK, FramesInOrder
  <2>0. /\ q \in Seq(Chunks)
        /\ Len(q) = Len(freeList) + 1
        /\ \A i \in 1 .. Len(freeList) : q[i] = freeList[i]
        /\ q[Len(freeList) + 1] = chunk
    BY <1>0, <1>8, <2>a, EnqueueWithRoom DEF RecycleEnqueue
  <2>b. \A i \in 1 .. Len(q) :
          i \in 1 .. Len(freeList) \/ i = Len(freeList) + 1
    BY <1>0, <2>0
  <2>1. TypeOK'
    BY <1>8, <2>0 DEF RecycleEnqueue, TypeOK, producerVars
  <2>2. AllChunksCirculate'
    <3>1. /\ Len(freeList') = Len(freeList) + 1
          /\ Held(chunk) = 1 /\ Held(chunk') = 0
          /\ queue' = queue /\ filling' = filling
      BY <1>0, <1>8, <2>0, <2>a DEF RecycleEnqueue, Held, producerVars
    <3>2. Held(filling) \in Nat
      BY DEF Held
    <3> QED
      BY <1>0, <3>1, <3>2 DEF AllChunksCirculate, Held
  <2>3. OneOwner'
    <3> HIDE DEF q
    <3>1. NoRepeats(q)
      BY <1>0, <2>0, <2>b DEF OneOwner, NoRepeats, Absent
    <3>2. \A i \in 1 .. Len(queue) : Absent(queue[i], q)
      BY <1>0, <2>0, <2>b DEF OneOwner, Absent
    <3>3. filling # chunk
      BY <2>a DEF OneOwner, Chunks
    <3>4. Absent(filling, q) /\ Absent(None, q) /\ Absent(None, queue)
      BY <1>0, <2>0, <2>a, <2>b, <3>3 DEF OneOwner, Absent
    <3>5. freeList' = q /\ chunk' = None /\ queue' = queue
          /\ filling' = filling
      BY <1>8 DEF RecycleEnqueue, producerVars, q
    <3>6. NoRepeats(queue) /\ Absent(filling, queue)
      BY DEF OneOwner
    <3> QED
      BY <3>1, <3>2, <3>4, <3>5, <3>6 DEF OneOwner, NoRepeats, Absent
  <2>4. FramesInOrder'
    BY <1>8 DEF RecycleEnqueue, FramesInOrder, producerVars
  <2> QED
    BY <2>1, <2>2, <2>3, <2>4
<1>9. CASE UNCHANGED vars
  BY <1>9 DEF vars, producerVars, consumerVars, TypeOK, AllChunksCirculate,
              OneOwner, NoRepeats, Absent, FramesInOrder
<1> QED
  BY <1>1, <1>2, <1>3, <1>4, <1>5, <1>6, <1>7, <1>8, <1>9
     DEF Next, Capture, Dsp

(* The ring invariant holds for every capacity: no chunk is lost, each is *)
(* in one place, and the frames stay in order.                            *)
THEOREM RingInvariant == Spec => []RingInv
<1>1. Init => RingInv
  BY InitRingInv
<1>2. RingInv /\ [Next]_vars => RingInv'
  BY NextRingInv
<1> QED
  BY <1>1, <1>2, PTL DEF Spec

(* The numbers of the queued frames form a sequence as long as the queue. *)
LEMMA FramesOfIsSeq ==
  ASSUME NEW q \in Seq(Chunks), NEW s \in [Chunks -> Nat]
  PROVE  /\ [i \in 1 .. Len(q) |-> s[q[i]]] \in Seq(Nat)
         /\ Len([i \in 1 .. Len(q) |-> s[q[i]]]) = Len(q)
<1>1. Len(q) \in Nat /\ \A i \in 1 .. Len(q) : s[q[i]] \in Nat
  OBVIOUS
<1> QED
  BY <1>1

(* Every step of the ring is a step of the channel or leaves it alone:    *)
(* PushEnqueue accepts, PushRefused refuses, Pop takes, RecycleEnqueue    *)
(* finishes.  The places count up because no chunk is ever lost.          *)
LEMMA RingStepRefines ==
  RingInv /\ RingInv' /\ [Next]_vars => [Channel!ChanNext]_(Channel!chanVars)
<1> SUFFICES ASSUME RingInv, RingInv', [Next]_vars
             PROVE  [Channel!ChanNext]_(Channel!chanVars)
  OBVIOUS
<1> USE CapacityAssumption DEF Channel!ChanNext, Channel!chanVars, None
<1> DEFINE f == FramesQueued
<1>0. /\ TypeOK /\ TypeOK' /\ Len(queue) \in Nat /\ Len(queue') \in Nat
      /\ f \in Seq(Nat) /\ Len(f) = Len(queue)
      /\ f' \in Seq(Nat) /\ Len(f') = Len(queue')
      /\ \A i \in 1 .. Len(queue) : f[i] = samples[queue[i]]
      /\ \A i \in 1 .. Len(queue') : f'[i] = samples'[queue'[i]]
  <2>1. f \in Seq(Nat) /\ Len(f) = Len(queue)
    BY FramesOfIsSeq DEF RingInv, TypeOK, FramesQueued
  <2>2. f' \in Seq(Nat) /\ Len(f') = Len(queue')
    BY FramesOfIsSeq DEF RingInv, TypeOK, FramesQueued
  <2> QED
    BY <2>1, <2>2 DEF RingInv, TypeOK, FramesQueued
<1>e. ASSUME queue' = queue,
             \A i \in 1 .. Len(queue) : samples'[queue[i]] = samples[queue[i]]
      PROVE  f' = f
  BY <1>0, <1>e, SeqEqual
<1>p. Channel!Occupied = Len(queue) + Held(chunk)
  BY <1>0 DEF Channel!Occupied, Held
<1> HIDE DEF f
<1>1. CASE PushRefused
  <2>1. Channel!Occupied = Capacity
    BY <1>0, <1>1, <1>p
       DEF RingInv, AllChunksCirculate, PushRefused, Held
  <2>2. f' = f
    BY <1>1, <1>e DEF PushRefused
  <2> QED
    BY <1>1, <2>1, <2>2 DEF PushRefused, consumerVars, Channel!Refuse, f
<1>2. CASE PushTakeFree
  <2>1. f' = f
    BY <1>2, <1>e DEF PushTakeFree
  <2> QED
    BY <1>2, <2>1 DEF PushTakeFree, consumerVars, f
<1>3. CASE PushFill
  <2>1. \A i \in 1 .. Len(queue) : queue[i] # filling /\ queue[i] \in Chunks
    BY <1>0 DEF RingInv, OneOwner, Absent, TypeOK
  <2>2. f' = f
    BY <1>0, <1>3, <1>e, <2>1 DEF PushFill, TypeOK
  <2> QED
    BY <1>3, <2>2 DEF PushFill, consumerVars, f
<1>4. CASE PushEnqueue
  <2>0. filling \in Chunks /\ Len(queue) + Held(chunk) < Capacity
    BY <1>0, <1>4
       DEF PushEnqueue, RingInv, AllChunksCirculate, Held, TypeOK
  <2>1. Len(queue) < Capacity
    BY <1>0, <2>0 DEF Held
  <2>2. /\ Len(queue') = Len(queue) + 1
        /\ \A i \in 1 .. Len(queue) : queue'[i] = queue[i]
        /\ queue'[Len(queue) + 1] = filling
    BY <1>0, <1>4, <2>0, <2>1, EnqueueWithRoom DEF PushEnqueue, TypeOK
  <2>3. samples' = samples /\ samples[filling] = pushed + 1
    BY <1>4 DEF PushEnqueue, RingInv, FramesInOrder
  <2>4. pushed + 1 \in Nat
    BY <1>0 DEF TypeOK
  <2>5. f' = Append(f, pushed + 1)
    <3>1. /\ Append(f, pushed + 1) \in Seq(Nat)
          /\ Len(Append(f, pushed + 1)) = Len(f) + 1
          /\ \A i \in 1 .. Len(f) : Append(f, pushed + 1)[i] = f[i]
          /\ Append(f, pushed + 1)[Len(f) + 1] = pushed + 1
      BY <1>0, <2>4, AppendProperties
    <3>2. ASSUME NEW i \in 1 .. Len(f')
          PROVE  f'[i] = Append(f, pushed + 1)[i]
      <4>1. CASE i \in 1 .. Len(queue)
        <5>1. i \in 1 .. Len(queue') /\ i \in 1 .. Len(f)
          BY <1>0, <2>2, <4>1
        <5>2. f'[i] = samples[queue[i]] /\ f[i] = samples[queue[i]]
          BY <1>0, <2>2, <2>3, <4>1, <5>1
        <5> QED
          BY <3>1, <5>1, <5>2
      <4>2. CASE i = Len(queue) + 1
        <5>1. i \in 1 .. Len(queue')
          BY <1>0, <2>2, <4>2
        <5>2. f'[i] = samples[filling]
          BY <1>0, <2>2, <2>3, <4>2, <5>1
        <5> QED
          BY <1>0, <2>3, <3>1, <4>2, <5>2
      <4> QED
        BY <1>0, <2>2, <4>1, <4>2
    <3> QED
      BY <1>0, <2>2, <3>1, <3>2, SeqEqual
  <2> QED
    BY <1>4, <1>p, <2>0, <2>5 DEF PushEnqueue, consumerVars, Channel!Accept, f
<1>5. CASE Pop
  <2>1. /\ Head(queue) = queue[1] /\ Len(queue) \in Nat \ {0}
        /\ Len(queue') = Len(queue) - 1
        /\ \A i \in 1 .. Len(queue') : queue'[i] = queue[i + 1]
        /\ queue[1] \in Chunks
    BY <1>0, <1>5, Dequeue DEF Pop, TypeOK
  <2>2. f # <<>> /\ Head(f) = samples[queue[1]]
    BY <1>0, <2>1
  <2>3. f' = Tail(f)
    <3>1. /\ Tail(f) \in Seq(Nat)
          /\ Len(Tail(f)) = Len(f) - 1
          /\ \A i \in 1 .. Len(Tail(f)) : Tail(f)[i] = f[i + 1]
      BY <1>0, <2>2, HeadTailProperties
    <3>2. ASSUME NEW i \in 1 .. Len(f') PROVE f'[i] = Tail(f)[i]
      <4>1. i \in 1 .. Len(queue') /\ i + 1 \in 1 .. Len(queue)
        BY <1>0, <2>1
      <4>2. f'[i] = samples[queue[i + 1]]
        BY <1>0, <1>5, <2>1, <4>1 DEF Pop
      <4> QED
        BY <1>0, <2>1, <3>1, <4>1, <4>2
    <3> QED
      BY <1>0, <2>1, <3>1, <3>2, SeqEqual
  <2> QED
    <3>1. chunk = None /\ chunk' # None /\ frame' = samples[queue[1]]
          /\ pushed' = pushed
      BY <1>5, <2>1 DEF Pop, producerVars, Chunks
    <3> QED
      BY <2>2, <2>3, <3>1 DEF Channel!Take, f
<1>6. CASE ProcessOk \/ ProcessThrows
  <2>1. f' = f
    BY <1>6, <1>e DEF ProcessOk, ProcessThrows
  <2> QED
    BY <1>6, <2>1 DEF ProcessOk, ProcessThrows, producerVars, f
<1>7. CASE RecycleClear
  <2>1. \A i \in 1 .. Len(queue) : queue[i] # chunk /\ queue[i] \in Chunks
    BY <1>0 DEF RingInv, OneOwner, Absent, TypeOK
  <2>2. f' = f
    BY <1>0, <1>7, <1>e, <2>1 DEF RecycleClear, TypeOK
  <2> QED
    BY <1>7, <2>2 DEF RecycleClear, producerVars, consumerVars, f
<1>8. CASE RecycleEnqueue
  <2>1. f' = f
    BY <1>8, <1>e DEF RecycleEnqueue
  <2>2. chunk # None
    BY <1>8 DEF RecycleEnqueue, RingInv, FramesInOrder
  <2> QED
    BY <1>8, <2>1, <2>2 DEF RecycleEnqueue, producerVars, Channel!Finish, f
<1>9. CASE UNCHANGED vars
  <2>1. f' = f
    BY <1>9, <1>e DEF vars
  <2> QED
    BY <1>9, <2>1 DEF vars, producerVars, consumerVars, f
<1> QED
  BY <1>1, <1>2, <1>3, <1>4, <1>5, <1>6, <1>7, <1>8, <1>9
     DEF Next, Capture, Dsp

(* The ring implements the bounded FIFO channel for every capacity.       *)
THEOREM RingRefinesChannel == Spec => ImplementsChannel
<1>1. Init => Channel!ChanInit
  <2> SUFFICES ASSUME Init PROVE Channel!ChanInit
    OBVIOUS
  <2>1. FramesQueued = <<>>
    BY DEF Init, FramesQueued
  <2> QED
    BY <2>1 DEF Init, Channel!ChanInit, None
<1>2. RingInv /\ RingInv' /\ [Next]_vars
        => [Channel!ChanNext]_(Channel!chanVars)
  BY RingStepRefines
<1> QED
  BY <1>1, <1>2, RingInvariant, PTL
     DEF Spec, ImplementsChannel, Channel!ChanSpec

(* Snapshots are made from ever newer frames.                             *)
THEOREM RingAnalysisAdvances == Spec => AnalysisAdvances
<1>1. RingInv /\ [Next]_vars
        => [analysed' = analysed \/ analysed' > analysed]_vars
  <2> SUFFICES ASSUME RingInv, [Next]_vars
               PROVE  [analysed' = analysed \/ analysed' > analysed]_vars
    OBVIOUS
  <2>1. CASE ProcessOk
    BY <2>1 DEF ProcessOk, RingInv, FramesInOrder, TypeOK
  <2>2. CASE ~ProcessOk
    BY <2>2 DEF Next, Capture, Dsp, PushRefused, PushTakeFree, PushFill,
                PushEnqueue, Pop, ProcessThrows, RecycleClear, RecycleEnqueue,
                consumerVars, vars
  <2> QED
    BY <2>1, <2>2
<1> QED
  BY <1>1, RingInvariant, PTL DEF Spec, AnalysisAdvances
===============================================================================
