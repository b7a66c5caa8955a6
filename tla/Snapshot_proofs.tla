----------------------------- MODULE Snapshot_proofs ---------------------------
(***************************************************************************)
(* From the DSP thread to the shader and to the lights.  First the         *)
(* seqlock: the sequence counter, not the order of the words, makes a      *)
(* successful read whole, and so the seqlock implements a register; no     *)
(* bound on readers, words, attempts or publishes is used.  Then the       *)
(* histories of the publisher, for any lengths of the rings: where a frame *)
(* lies in a ring follows from its age, and unrolling shows each age once. *)
(* Then what the OpenRGB worker paints, for any devices and zones: slices  *)
(* of a device lie apart, so a zone keeps the picture of its snapshot and  *)
(* of the state it left, and the waterfall's ring is its past.             *)
(***************************************************************************)
EXTENDS SeqlockSnapshot, UniformPublisher, LedPainter, FiniteSetTheorems, TLAPS

(* Arithmetic of the counter: what one step of seq_ does to its parity    *)
(* and to the snapshot number it stands for.                              *)
LEMMA CounterStep ==
  ASSUME NEW s \in Nat
  PROVE  /\ s + 1 \in Nat
         /\ SnapshotNumber(s) \in Nat
         /\ Odd(s + 1) <=> ~Odd(s)
         /\ ~Odd(s) => SnapshotNumber(s + 1) = SnapshotNumber(s)
         /\ Odd(s) => SnapshotNumber(s + 1) = SnapshotNumber(s) + 1
  BY DEF Odd, SnapshotNumber

(* A freshly returned copy is whole when the reader saw no change of the  *)
(* counter: this is where the second comparison of s1 is needed.          *)
LEMMA ConfirmedCopyIsWhole ==
  ASSUME SeqlockInv, NEW r \in Readers, Confirm(r)
  PROVE  \A w \in Words : out[r][w] = SnapshotNumber(seq)
  BY DEF SeqlockInv, CopyMatchesCounter, Confirm

(* The initial state satisfies the invariant.                             *)
LEMMA InitSeqlockInv == Init => SeqlockInv
<1> SUFFICES ASSUME Init PROVE SeqlockInv
  OBVIOUS
<1>1. SnapshotNumber(0) = 0 /\ ~Odd(0)
  BY DEF SnapshotNumber, Odd
<1>2. TypeOK
  BY MaxSpinAssumption DEF Init, TypeOK, Payload
<1>3. CounterDescribesPayload
  BY <1>1 DEF Init, CounterDescribesPayload, Payload
<1>4. CopyMatchesCounter
  BY DEF Init, CopyMatchesCounter
<1>5. GoodReadsAreWhole
  BY DEF Init, GoodReadsAreWhole, Whole, Payload
<1>6. NothingFromTheFuture
  BY <1>1 DEF Init, NothingFromTheFuture, Payload
<1> QED
  BY <1>1, <1>2, <1>3, <1>4, <1>5, <1>6 DEF SeqlockInv, Init

(* Every step of the writer and of the readers preserves the invariant.   *)
LEMMA NextSeqlockInv == SeqlockInv /\ [Next]_vars => SeqlockInv'
<1> SUFFICES ASSUME SeqlockInv, [Next]_vars PROVE SeqlockInv'
  OBVIOUS
<1> USE DEF SeqlockInv
<1>0. /\ seq + 1 \in Nat
      /\ SnapshotNumber(seq) \in Nat
      /\ Odd(seq + 1) <=> ~Odd(seq)
      /\ ~Odd(seq) => SnapshotNumber(seq + 1) = SnapshotNumber(seq)
      /\ Odd(seq) => SnapshotNumber(seq + 1) = SnapshotNumber(seq) + 1
  BY CounterStep DEF TypeOK
<1>1. CASE BeginPublish
  <2>1. TypeOK'
    BY <1>0, <1>1 DEF BeginPublish, TypeOK, readerVars
  <2>2. CounterDescribesPayload'
    BY <1>0, <1>1 DEF BeginPublish, CounterDescribesPayload, TypeOK
  <2>3. CopyMatchesCounter'
    BY <1>0, <1>1 DEF BeginPublish, CopyMatchesCounter, readerVars, TypeOK
  <2>4. GoodReadsAreWhole'
    BY <1>1 DEF BeginPublish, GoodReadsAreWhole, Whole, readerVars
  <2>5. NothingFromTheFuture'
    BY <1>0, <1>1 DEF BeginPublish, NothingFromTheFuture, readerVars
  <2> QED
    BY <1>0, <1>1, <2>1, <2>2, <2>3, <2>4, <2>5 DEF BeginPublish
<1>2. CASE StoreWord
  <2> PICK w \in toWrite :
        /\ data' = [data EXCEPT ![w] = SnapshotNumber(seq) + 1]
        /\ toWrite' = toWrite \ {w}
    BY <1>2 DEF StoreWord
  <2>0. Odd(seq) /\ UNCHANGED <<seq, readerVars>>
    BY <1>2 DEF StoreWord
  <2>1. TypeOK'
    BY <1>0, <2>0 DEF TypeOK, readerVars
  <2>2. CounterDescribesPayload'
    BY <1>0, <2>0 DEF CounterDescribesPayload, TypeOK
  <2>3. CopyMatchesCounter'
    BY <2>0 DEF CopyMatchesCounter, readerVars
  <2>4. GoodReadsAreWhole'
    BY <2>0 DEF GoodReadsAreWhole, Whole, readerVars
  <2>5. NothingFromTheFuture'
    BY <2>0 DEF NothingFromTheFuture, readerVars
  <2> QED
    BY <2>0, <2>1, <2>2, <2>3, <2>4, <2>5
<1>3. CASE EndPublish
  <2>1. TypeOK'
    BY <1>0, <1>3 DEF EndPublish, TypeOK, readerVars
  <2>2. CounterDescribesPayload'
    BY <1>0, <1>3 DEF EndPublish, CounterDescribesPayload, TypeOK
  <2>3. CopyMatchesCounter'
    BY <1>0, <1>3 DEF EndPublish, CopyMatchesCounter, readerVars, TypeOK
  <2>4. GoodReadsAreWhole'
    BY <1>3 DEF EndPublish, GoodReadsAreWhole, Whole, readerVars
  <2>5. NothingFromTheFuture'
    BY <1>0, <1>3 DEF EndPublish, NothingFromTheFuture, readerVars, TypeOK
  <2> QED
    BY <1>3, <2>1, <2>2, <2>3, <2>4, <2>5 DEF EndPublish
<1>4. ASSUME NEW r \in Readers, BeginRead(r) \/ ReadStep(r)
      PROVE  SeqlockInv'
  <2>0. UNCHANGED writerVars
    BY <1>4 DEF BeginRead, ReadStep, SeeOdd, SeeEven, LoadWord, Confirm,
                Retry, GiveUp, Return
  <2>1. CounterDescribesPayload' /\ (~Odd(seq') => toWrite' = {})
    BY <2>0 DEF writerVars, CounterDescribesPayload
  <2>2. CASE BeginRead(r)
    BY <2>0, <2>1, <2>2 DEF BeginRead, writerVars, TypeOK,
                            CopyMatchesCounter, GoodReadsAreWhole, Whole,
                            NothingFromTheFuture
  <2>3. CASE SeeOdd(r)
    BY <2>0, <2>1, <2>3, MaxSpinAssumption
       DEF SeeOdd, writerVars, TypeOK, CopyMatchesCounter,
           GoodReadsAreWhole, Whole, NothingFromTheFuture
  <2>4. CASE SeeEven(r)
    <3>1. TypeOK'
      BY <2>0, <2>4 DEF SeeEven, writerVars, TypeOK
    <3>2. CopyMatchesCounter'
      BY <2>0, <2>4 DEF SeeEven, writerVars, TypeOK, CopyMatchesCounter
    <3>3. GoodReadsAreWhole'
      BY <2>4 DEF SeeEven, GoodReadsAreWhole, Whole
    <3>4. NothingFromTheFuture'
      BY <2>0, <2>4 DEF SeeEven, writerVars, NothingFromTheFuture
    <3> QED
      BY <2>1, <3>1, <3>2, <3>3, <3>4
  <2>5. CASE LoadWord(r)
    <3> PICK w \in toCopy[r] :
          /\ out' = [out EXCEPT ![r] = [@ EXCEPT ![w] = data[w]]]
          /\ toCopy' = [toCopy EXCEPT ![r] = @ \ {w}]
      BY <2>5 DEF LoadWord
    <3>0. w \in Words /\ data[w] \in Nat
      BY DEF TypeOK
    <3>1. TypeOK'
      BY <2>0, <2>5, <3>0 DEF LoadWord, writerVars, TypeOK
    <3>2. s1[r] = seq => data[w] = SnapshotNumber(seq)
      BY <2>5, <3>0 DEF LoadWord, CopyMatchesCounter, CounterDescribesPayload
    <3>3. CopyMatchesCounter'
      BY <2>0, <2>5, <3>0, <3>2
         DEF LoadWord, writerVars, TypeOK, CopyMatchesCounter
    <3>4. GoodReadsAreWhole'
      BY <2>5 DEF LoadWord, GoodReadsAreWhole, Whole
    <3>5. data[w] <= SnapshotNumber(seq) + 1
      BY <1>0, <3>0 DEF CounterDescribesPayload
    <3>6. NothingFromTheFuture'
      BY <2>0, <2>5, <3>5 DEF LoadWord, writerVars, TypeOK, NothingFromTheFuture
    <3> QED
      BY <2>1, <3>1, <3>3, <3>4, <3>6
  <2>6. CASE Confirm(r)
    <3>1. TypeOK'
      BY <2>0, <2>6, MaxSpinAssumption
         DEF Confirm, Return, writerVars, TypeOK, Payload
    <3>2. CopyMatchesCounter'
      BY <2>0, <2>6 DEF Confirm, Return, writerVars, TypeOK, CopyMatchesCounter
    <3>3. \A w \in Words : out[r][w] = SnapshotNumber(seq)
      BY <2>6, ConfirmedCopyIsWhole
    <3>4. GoodReadsAreWhole'
      BY <2>6, <3>3 DEF Confirm, Return, TypeOK, GoodReadsAreWhole, Whole
    <3>5. NothingFromTheFuture'
      BY <1>0, <2>0, <2>6
         DEF Confirm, Return, writerVars, TypeOK, Payload, NothingFromTheFuture
    <3> QED
      BY <2>1, <3>1, <3>2, <3>4, <3>5
  <2>7. CASE Retry(r)
    <3>1. spin[r] < MaxSpin
      BY <2>7 DEF Retry, CopyMatchesCounter
    <3> QED
      BY <2>0, <2>1, <2>7, <3>1, MaxSpinAssumption
         DEF Retry, writerVars, TypeOK, CopyMatchesCounter,
             GoodReadsAreWhole, Whole, NothingFromTheFuture
  <2>8. CASE GiveUp(r)
    <3>1. TypeOK'
      BY <2>0, <2>8, MaxSpinAssumption
         DEF GiveUp, Return, writerVars, TypeOK, Payload
    <3>2. CopyMatchesCounter'
      BY <2>0, <2>8 DEF GiveUp, Return, writerVars, TypeOK, CopyMatchesCounter
    <3>3. GoodReadsAreWhole'
      BY <2>8 DEF GiveUp, Return, TypeOK, GoodReadsAreWhole, Whole
    <3>4. NothingFromTheFuture'
      BY <1>0, <2>0, <2>8
         DEF GiveUp, Return, writerVars, TypeOK, Payload, NothingFromTheFuture
    <3> QED
      BY <2>1, <3>1, <3>2, <3>3, <3>4
  <2> QED
    BY <1>4, <2>2, <2>3, <2>4, <2>5, <2>6, <2>7, <2>8 DEF ReadStep
<1>5. CASE UNCHANGED vars
  BY <1>5 DEF vars, writerVars, readerVars, TypeOK, CounterDescribesPayload,
              CopyMatchesCounter, GoodReadsAreWhole, Whole,
              NothingFromTheFuture
<1> QED
  BY <1>1, <1>2, <1>3, <1>4, <1>5 DEF Next, Writer

(* The invariant of the run "seqlock" holds for every set of readers and  *)
(* words and every bound.                                                 *)
THEOREM SeqlockInvariant == Spec => []SeqlockInv
<1>1. Init => SeqlockInv
  BY InitSeqlockInv
<1>2. SeqlockInv /\ [Next]_vars => SeqlockInv'
  BY NextSeqlockInv
<1> QED
  BY <1>1, <1>2, PTL DEF Spec

(* read() that returned through "s1 == s2" never hands out a torn         *)
(* snapshot, whatever the interleaving of the two memcpys.                *)
THEOREM GoodReadsWhole == Spec => []GoodReadsAreWhole
<1>1. SeqlockInv => GoodReadsAreWhole
  BY DEF SeqlockInv
<1> QED
  BY <1>1, SeqlockInvariant, PTL

(* Every step of the seqlock is a step of the register or leaves it alone:*)
(* the second store of publish() publishes, Confirm reads, GiveUp gives   *)
(* up, and all other steps stutter.                                       *)
LEMMA StepRefines ==
  SeqlockInv /\ [Next]_vars => [Register!RegNext]_(Register!regVars)
<1> SUFFICES ASSUME SeqlockInv, [Next]_vars
             PROVE  [Register!RegNext]_(Register!regVars)
  OBVIOUS
<1> USE DEF SeqlockInv, Register!RegNext, Register!regVars
<1>0. /\ SnapshotNumber(seq) \in Nat
      /\ Odd(seq + 1) <=> ~Odd(seq)
      /\ ~Odd(seq) => SnapshotNumber(seq + 1) = SnapshotNumber(seq)
      /\ Odd(seq) => SnapshotNumber(seq + 1) = SnapshotNumber(seq) + 1
  BY CounterStep DEF TypeOK
<1>1. CASE BeginPublish
  BY <1>0, <1>1 DEF BeginPublish, readerVars
<1>2. CASE StoreWord
  BY <1>2 DEF StoreWord, readerVars
<1>3. CASE EndPublish
  BY <1>0, <1>3 DEF EndPublish, readerVars, Register!RegPublish
<1>4. ASSUME NEW r \in Readers, BeginRead(r) \/ ReadStep(r)
      PROVE  [Register!RegNext]_(Register!regVars)
  <2>0. SnapshotNumber(seq)' = SnapshotNumber(seq)
    BY <1>4 DEF BeginRead, ReadStep, SeeOdd, SeeEven, LoadWord, Confirm,
                Retry, GiveUp, Return, writerVars
  <2>1. CASE Confirm(r)
    <3>1. \A w \in Words : out[r][w] = SnapshotNumber(seq)
      BY <2>1, ConfirmedCopyIsWhole
    <3>2. out[r] = Register!Payload(SnapshotNumber(seq))
      BY <3>1 DEF TypeOK, Register!Payload
    <3> QED
      BY <2>0, <2>1, <3>2 DEF Confirm, Return, Register!RegRead
  <2>2. CASE GiveUp(r)
    <3>1. out[r] \in [Words -> 0 .. SnapshotNumber(seq) + 1]
      BY <1>0 DEF TypeOK, NothingFromTheFuture
    <3> QED
      BY <2>0, <2>2, <3>1 DEF GiveUp, Return, Register!RegGiveUp
  <2>3. CASE ~Confirm(r) /\ ~GiveUp(r)
    BY <1>4, <2>0, <2>3 DEF BeginRead, ReadStep, SeeOdd, SeeEven, LoadWord,
                            Retry
  <2> QED
    BY <2>1, <2>2, <2>3
<1>5. CASE UNCHANGED vars
  BY <1>5 DEF vars, writerVars, readerVars, SnapshotNumber
<1> QED
  BY <1>1, <1>2, <1>3, <1>4, <1>5 DEF Next, Writer

(* The seqlock implements the register of published snapshots: a read     *)
(* that succeeds is atomic, and a read that gives up never shows a word   *)
(* of a snapshot whose publish has not begun.                             *)
THEOREM SeqlockRefinesRegister == Spec => ImplementsRegister
<1>1. Init => Register!RegInit
  BY DEF Init, Register!RegInit, Payload, Register!Payload, SnapshotNumber
<1>2. SeqlockInv /\ [Next]_vars => [Register!RegNext]_(Register!regVars)
  BY StepRefines
<1> QED
  BY <1>1, <1>2, SeqlockInvariant, PTL
     DEF Spec, ImplementsRegister, Register!RegSpec

-------------------------------------------------------------------------------
(* The rings of the histories.                                            *)

(* Index arithmetic of a ring: the remainder of what goes round once.     *)
LEMMA RingIndex ==
  ASSUME NEW L \in Nat \ {0}, NEW x \in 0 .. 2 * L - 1
  PROVE  x % L = IF x < L THEN x ELSE x - L
<1>1. CASE x < L
  BY <1>1
<1>2. CASE x >= L
  BY <1>2
<1> QED BY <1>1, <1>2

(* Writing at the head makes that slot the newest and all others older.   *)
LEMMA HeadAdvances ==
  ASSUME NEW L \in Nat \ {0}, NEW head \in 0 .. L - 1, NEW i \in 0 .. L - 1
  PROVE  /\ Advance(head, L) \in 0 .. L - 1
         /\ Age(i, Advance(head, L), L) = IF i = head THEN 0 ELSE Age(i, head, L) + 1
         /\ Age(i, head, L) \in 0 .. L - 1
<1>1. Advance(head, L) = IF head + 1 < L THEN head + 1 ELSE 0
  <2>1. CASE head + 1 < L
    BY <2>1 DEF Advance
  <2>2. CASE ~(head + 1 < L)
    BY <2>2 DEF Advance
  <2> QED BY <2>1, <2>2
<1> QED BY <1>1 DEF Age

(* The unrolled array reads each slot of the ring once.                   *)
LEMMA UnrolledSlot ==
  ASSUME NEW L \in Nat \ {0}, NEW head \in 0 .. L - 1, NEW i \in 0 .. L - 1
  PROVE  /\ (head + 1 + i) % L \in 0 .. L - 1
         /\ Age((head + 1 + i) % L, head, L) = UnrolledAge(i, L)
         /\ UnrolledAge(i, L) \in 0 .. L - 1
<1> DEFINE x == head + 1 + i
<1>1. x \in 0 .. 2 * L - 1
  OBVIOUS
<1>2. x % L = IF x < L THEN x ELSE x - L
  <2> HIDE DEF x
  <2> QED BY <1>1, RingIndex
<1> QED BY <1>2 DEF Age, UnrolledAge

(* "band-major": band and frame are found again from the flat index.      *)
LEMMA FlatIndex ==
  ASSUME NEW L \in Nat \ {0}, NEW c \in Nat, NEW b \in 0 .. c - 1, NEW f \in 0 .. L - 1
  PROVE  /\ b * L + f \in 0 .. c * L - 1
         /\ (b * L + f) % L = f
         /\ (b * L + f) \div L = b
<1>1. b * L + f < c * L /\ b * L + f \in Nat
  OBVIOUS
<1>2. c * L \in Nat
  OBVIOUS
<1>3. (b * L + f) % L = f /\ (b * L + f) \div L = b
  OBVIOUS
<1> QED BY <1>1, <1>2, <1>3

(* A frame never comes with more bands than the arrays have columns for.  *)
LEMMA CountsFit ==
  ASSUME NEW c \in BandCounts \cup {0}
  PROVE  c \in 0 .. MaxBands
<1>1. MaxBands \in Nat /\ BandCounts \subseteq 1 .. MaxBands
  BY PublisherAssumption
<1> QED BY <1>1

(* An unrolled array shows every one of the last frames.                  *)
LEMMA UnrolledAgesAreAll ==
  ASSUME NEW L \in Nat \ {0}, NEW k \in 0 .. L - 1
  PROVE  \E i \in 0 .. L - 1 : UnrolledAge(i, L) = k
<1>1. CASE k = L - 1
  BY <1>1 DEF UnrolledAge
<1>2. CASE k # L - 1
  <2>1. L - 2 - k \in 0 .. L - 1 /\ UnrolledAge(L - 2 - k, L) = k
    BY <1>2 DEF UnrolledAge
  <2> QED BY <2>1
<1> QED BY <1>1, <1>2

-------------------------------------------------------------------------------
(* A frame analysed does not change what the frames before it were.       *)
LEMMA FramesStay ==
  ASSUME NEW cs \in Seq(BandCounts), NEW count \in BandCounts
  PROVE  LET n == Len(cs)
             longer == Append(cs, count)
         IN  /\ n \in Nat /\ Len(longer) = n + 1 /\ longer \in Seq(BandCounts)
             /\ VolumeAt(longer, n + 1) = n + 1
             /\ \A b \in Bands :
                  BandAt(longer, n + 1, b) = IF b < count THEN n + 1 ELSE 0
             /\ \A m \in Int : m <= n =>
                  /\ VolumeAt(longer, m) = VolumeAt(cs, m)
                  /\ \A b \in Bands : BandAt(longer, m, b) = BandAt(cs, m, b)
<1> DEFINE n == Len(cs)
           longer == Append(cs, count)
<1>1. DOMAIN cs = 1 .. n /\ DOMAIN longer = 1 .. n + 1
  OBVIOUS
<1>2. n \in Nat /\ Len(longer) = n + 1 /\ longer \in Seq(BandCounts)
  OBVIOUS
<1>3. longer[n + 1] = count /\ \A m \in 1 .. n : longer[m] = cs[m]
  OBVIOUS
<1> HIDE DEF n, longer
<1>4. VolumeAt(longer, n + 1) = n + 1
      /\ \A b \in Bands : BandAt(longer, n + 1, b) = IF b < count THEN n + 1 ELSE 0
  BY <1>1, <1>2, <1>3 DEF VolumeAt, BandAt
<1>5. ASSUME NEW m \in Int, m <= n
      PROVE  /\ VolumeAt(longer, m) = VolumeAt(cs, m)
             /\ \A b \in Bands : BandAt(longer, m, b) = BandAt(cs, m, b)
  BY <1>1, <1>2, <1>3, <1>5 DEF VolumeAt, BandAt
<1> USE DEF n, longer
<1> QED BY <1>2, <1>4, <1>5

(* What is read off the history at a frame is that frame, or silence.     *)
LEMMA FramesAreNumbers ==
  ASSUME NEW cs \in Seq(BandCounts), NEW m \in Int
  PROVE  /\ VolumeAt(cs, m) \in 0 .. Len(cs)
         /\ \A b \in Bands : BandAt(cs, m, b) \in 0 .. Len(cs)
<1>1. DOMAIN cs = 1 .. Len(cs) /\ Len(cs) \in Nat
  OBVIOUS
<1> QED BY <1>1 DEF VolumeAt, BandAt

(* The zeroed snapshot is that of no frame.                               *)
LEMMA SilenceFollows ==
  ASSUME NEW cs \in Seq(BandCounts)
  PROVE  /\ VolumesFollow(cs, SilentVolumes, 0, 0)
         /\ RowsFollow(cs, SilentRows, 0, 0)
<1> USE PublisherAssumption
<1>1. DOMAIN cs = 1 .. Len(cs) /\ Len(cs) \in Nat
  OBVIOUS
<1>2. \A m \in Int : m <= 0 => VolumeAt(cs, m) = 0 /\ \A b \in Bands : BandAt(cs, m, b) = 0
  BY <1>1 DEF VolumeAt, BandAt
<1>3. \A i \in 0 .. VolumeFrames - 1 : 0 - Age(i, 0, VolumeFrames) \in Int
        /\ 0 - Age(i, 0, VolumeFrames) <= 0
  BY DEF Age
<1>4. \A i \in 0 .. BandFrames - 1 : 0 - Age(i, 0, BandFrames) \in Int
        /\ 0 - Age(i, 0, BandFrames) <= 0
  BY DEF Age
<1>5. VolumesFollow(cs, SilentVolumes, 0, 0)
  BY <1>1, <1>2, <1>3 DEF VolumesFollow, SilentVolumes
<1>6. RowsFollow(cs, SilentRows, 0, 0)
  <2>1. SilentRows \in [0 .. BandFrames - 1 -> [Bands -> Int]]
    BY DEF SilentRows, SilentBands
  <2>2. \A i \in 0 .. BandFrames - 1 : \A b \in Bands : SilentRows[i][b] = 0
    BY DEF SilentRows, SilentBands
  <2>3. 0 \in 0 .. BandFrames - 1 /\ 0 \in 0 .. Len(cs)
    BY <1>1
  <2> QED BY <1>2, <1>4, <2>1, <2>2, <2>3 DEF RowsFollow
<1> QED BY <1>5, <1>6

(* A frame written at the head keeps a ring in step with the frames.      *)
LEMMA VolumeWritten ==
  ASSUME NEW cs \in Seq(BandCounts), NEW count \in BandCounts, NEW ring, NEW head,
         VolumesFollow(cs, ring, head, Len(cs))
  PROVE  VolumesFollow(Append(cs, count), [ring EXCEPT ![head] = Len(cs) + 1],
                       Advance(head, VolumeFrames), Len(cs) + 1)
<1> DEFINE n == Len(cs)
           longer == Append(cs, count)
           next == Advance(head, VolumeFrames)
           written == [ring EXCEPT ![head] = n + 1]
<1> USE PublisherAssumption
<1>1. /\ n \in Nat /\ Len(longer) = n + 1 /\ VolumeAt(longer, n + 1) = n + 1
      /\ \A m \in Int : m <= n => VolumeAt(longer, m) = VolumeAt(cs, m)
  BY FramesStay
<1>2. head \in 0 .. VolumeFrames - 1 /\ DOMAIN ring = 0 .. VolumeFrames - 1
  BY DEF VolumesFollow
<1>3. \A i \in 0 .. VolumeFrames - 1 : ring[i] = VolumeAt(cs, n - Age(i, head, VolumeFrames))
  BY DEF VolumesFollow
<1>4. \A i \in 0 .. VolumeFrames - 1 : written[i] = IF i = head THEN n + 1 ELSE ring[i]
  BY <1>2
<1>5. DOMAIN written = 0 .. VolumeFrames - 1
  BY <1>2
<1>6. /\ next \in 0 .. VolumeFrames - 1
      /\ \A i \in 0 .. VolumeFrames - 1 :
           /\ Age(i, next, VolumeFrames)
                = IF i = head THEN 0 ELSE Age(i, head, VolumeFrames) + 1
           /\ Age(i, head, VolumeFrames) \in 0 .. VolumeFrames - 1
  BY <1>2, HeadAdvances
<1> HIDE DEF n, longer, next, written
<1>7. ASSUME NEW i \in 0 .. VolumeFrames - 1
      PROVE  written[i] = VolumeAt(longer, (n + 1) - Age(i, next, VolumeFrames))
  <2>1. CASE i = head
    BY <1>1, <1>4, <1>6, <2>1
  <2>2. CASE i # head
    <3>1. n \in Nat /\ Age(i, head, VolumeFrames) \in Nat
          /\ Age(i, next, VolumeFrames) = Age(i, head, VolumeFrames) + 1
      BY <1>1, <1>6, <2>2
    <3>2. /\ (n + 1) - Age(i, next, VolumeFrames) = n - Age(i, head, VolumeFrames)
          /\ n - Age(i, head, VolumeFrames) \in Int /\ n - Age(i, head, VolumeFrames) <= n
      BY <3>1
    <3> QED BY <1>1, <1>3, <1>4, <2>2, <3>2
  <2> QED BY <2>1, <2>2
<1>8. VolumesFollow(longer, written, next, n + 1)
  <2>1. n + 1 \in 0 .. Len(longer)
    BY <1>1
  <2>2. next \in 0 .. VolumeFrames - 1
    BY <1>6
  <2> QED BY <1>5, <1>7, <2>1, <2>2 DEF VolumesFollow
<1> QED BY <1>8 DEF n, longer, next, written

(* The same of the rows of bands.                                         *)
LEMMA RowWritten ==
  ASSUME NEW cs \in Seq(BandCounts), NEW count \in BandCounts, NEW rows, NEW head,
         RowsFollow(cs, rows, head, Len(cs))
  PROVE  RowsFollow(Append(cs, count),
           [rows EXCEPT ![head] = [b \in Bands |-> IF b < count THEN Len(cs) + 1 ELSE 0]],
           Advance(head, BandFrames), Len(cs) + 1)
<1> DEFINE n == Len(cs)
           longer == Append(cs, count)
           next == Advance(head, BandFrames)
           row == [b \in Bands |-> IF b < count THEN n + 1 ELSE 0]
           written == [rows EXCEPT ![head] = row]
<1> USE PublisherAssumption
<1>1. /\ n \in Nat /\ Len(longer) = n + 1
      /\ \A b \in Bands : BandAt(longer, n + 1, b) = IF b < count THEN n + 1 ELSE 0
      /\ \A m \in Int : m <= n => \A b \in Bands : BandAt(longer, m, b) = BandAt(cs, m, b)
  BY FramesStay
<1>2. head \in 0 .. BandFrames - 1 /\ rows \in [0 .. BandFrames - 1 -> [Bands -> Int]]
  BY DEF RowsFollow
<1>3. \A i \in 0 .. BandFrames - 1 : \A b \in Bands :
        rows[i][b] = BandAt(cs, n - Age(i, head, BandFrames), b)
  BY DEF RowsFollow
<1>4. row \in [Bands -> Int] /\ \A b \in Bands : row[b] = IF b < count THEN n + 1 ELSE 0
  BY <1>1
<1> HIDE DEF row
<1>5. /\ written \in [0 .. BandFrames - 1 -> [Bands -> Int]]
      /\ \A i \in 0 .. BandFrames - 1 : written[i] = IF i = head THEN row ELSE rows[i]
  BY <1>2, <1>4
<1>6. /\ next \in 0 .. BandFrames - 1
      /\ \A i \in 0 .. BandFrames - 1 :
           /\ Age(i, next, BandFrames)
                = IF i = head THEN 0 ELSE Age(i, head, BandFrames) + 1
           /\ Age(i, head, BandFrames) \in 0 .. BandFrames - 1
  BY <1>2, HeadAdvances
<1> HIDE DEF n, longer, next, written
<1>7. ASSUME NEW i \in 0 .. BandFrames - 1, NEW b \in Bands
      PROVE  written[i][b] = BandAt(longer, (n + 1) - Age(i, next, BandFrames), b)
  <2>1. CASE i = head
    <3>1. (n + 1) - Age(i, next, BandFrames) = n + 1
      BY <1>1, <1>6, <2>1
    <3> QED BY <1>1, <1>4, <1>5, <2>1, <3>1
  <2>2. CASE i # head
    <3>1. n \in Nat /\ Age(i, head, BandFrames) \in Nat
          /\ Age(i, next, BandFrames) = Age(i, head, BandFrames) + 1
      BY <1>1, <1>6, <2>2
    <3>2. /\ (n + 1) - Age(i, next, BandFrames) = n - Age(i, head, BandFrames)
          /\ n - Age(i, head, BandFrames) \in Int /\ n - Age(i, head, BandFrames) <= n
      BY <3>1
    <3> QED BY <1>1, <1>3, <1>5, <2>2, <3>2
  <2> QED BY <2>1, <2>2
<1>8. RowsFollow(longer, written, next, n + 1)
  <2>1. n + 1 \in 0 .. Len(longer)
    BY <1>1
  <2>2. next \in 0 .. BandFrames - 1
    BY <1>6
  <2> QED BY <1>5, <1>7, <2>1, <2>2 DEF RowsFollow
<1> QED BY <1>8 DEF n, longer, next, row, written

-------------------------------------------------------------------------------
(* Nothing analysed, nothing shown.                                       *)
LEMMA InitHistoryInv == PublisherInit => HistoryInv
<1> SUFFICES ASSUME PublisherInit PROVE HistoryInv
  OBVIOUS
<1> USE PublisherAssumption
<1>1. counts \in Seq(BandCounts) /\ counts = <<>> /\ Len(counts) = 0
  BY DEF PublisherInit
<1>2. VolumesFollow(counts, SilentVolumes, 0, 0) /\ RowsFollow(counts, SilentRows, 0, 0)
  BY <1>1, SilenceFollows
<1>3. PublisherTypeOK
  BY <1>1 DEF PublisherInit, PublisherTypeOK, ZeroSnapshot, SilentVolumes, SilentRows,
              SilentBands
<1>4. RingsFollow
  BY <1>1, <1>2 DEF PublisherInit, RingsFollow
<1>5. SnapshotFollows
  BY <1>2 DEF PublisherInit, SnapshotFollows, ZeroSnapshot
<1>6. UniformsFollow
  <2>1. /\ uniforms.volume = 0 /\ uniforms.count = 0
        /\ uniforms.volumeHistory = SilentVolumes
        /\ DOMAIN uniforms.bandsHistory = 0 .. MaxBands * BandFrames - 1
    BY DEF PublisherInit
  <2>2. \A i \in 0 .. VolumeFrames - 1 : VolumeAt(counts, 0 - UnrolledAge(i, VolumeFrames)) = 0
    BY <1>1 DEF VolumeAt, PublisherInit
  <2> QED BY <1>1, <2>1, <2>2 DEF UniformsFollow, SilentVolumes
<1> QED BY <1>3, <1>4, <1>5, <1>6 DEF HistoryInv

(* A frame analysed goes to the rings and the snapshot; what the shader   *)
(* has is of frames before it.                                            *)
LEMMA AnalyseKeeps ==
  ASSUME HistoryInv, NEW count \in BandCounts, Analyse(count)
  PROVE  HistoryInv'
<1> DEFINE n == Len(counts)
           row == [b \in Bands |-> IF b < count THEN n + 1 ELSE 0]
<1> USE PublisherAssumption
<1>1. /\ counts' = Append(counts, count) /\ n + 1 <= MaxFrames
      /\ volumeHistory' = [volumeHistory EXCEPT ![volumeHead] = n + 1]
      /\ volumeHead' = Advance(volumeHead, VolumeFrames)
      /\ bandsHistory' = [bandsHistory EXCEPT ![bandsHead] = row]
      /\ bandsHead' = Advance(bandsHead, BandFrames)
      /\ uniforms' = uniforms
  BY DEF Analyse
<1>2. /\ snapshot'.volume = n + 1 /\ snapshot'.count = count
      /\ snapshot'.volumeHistory = volumeHistory' /\ snapshot'.volumeHead = volumeHead'
      /\ snapshot'.bandsHistory = bandsHistory' /\ snapshot'.bandsHead = bandsHead'
  BY DEF Analyse
<1>3. counts \in Seq(BandCounts)
  BY DEF HistoryInv, PublisherTypeOK
<1>4. /\ n \in Nat /\ Len(counts') = n + 1 /\ counts' \in Seq(BandCounts)
      /\ \A m \in Int : m <= n =>
           /\ VolumeAt(counts', m) = VolumeAt(counts, m)
           /\ \A b \in Bands : BandAt(counts', m, b) = BandAt(counts, m, b)
  BY <1>1, <1>3, FramesStay
<1>5. VolumesFollow(counts', volumeHistory', volumeHead', n + 1)
  BY <1>1, <1>3, VolumeWritten DEF HistoryInv, RingsFollow
<1>6. RowsFollow(counts', bandsHistory', bandsHead', n + 1)
  BY <1>1, <1>3, RowWritten DEF HistoryInv, RingsFollow
<1>7. RingsFollow'
  BY <1>1, <1>4, <1>5, <1>6 DEF RingsFollow
<1>8. SnapshotFollows'
  BY <1>2, <1>5, <1>6 DEF SnapshotFollows
<1>9. PublisherTypeOK'
  <2>1. n + 1 \in 0 .. MaxFrames /\ row \in [Bands -> 0 .. MaxFrames]
    BY <1>1, <1>4
  <2>2. volumeHead' \in 0 .. VolumeFrames - 1 /\ bandsHead' \in 0 .. BandFrames - 1
    BY <1>5, <1>6 DEF VolumesFollow, RowsFollow
  <2>3. volumeHistory' \in [0 .. VolumeFrames - 1 -> 0 .. MaxFrames]
    BY <1>1, <2>1 DEF HistoryInv, PublisherTypeOK
  <2>4. bandsHistory' \in [0 .. BandFrames - 1 -> [Bands -> 0 .. MaxFrames]]
    <3> HIDE DEF row
    <3> QED BY <1>1, <2>1 DEF HistoryInv, PublisherTypeOK
  <2>5. snapshot'.count \in BandCounts \cup {0} /\ uniforms'.count \in BandCounts \cup {0}
    BY <1>1, <1>2 DEF HistoryInv, PublisherTypeOK
  <2> QED BY <1>4, <2>2, <2>3, <2>4, <2>5 DEF PublisherTypeOK
<1>10. UniformsFollow'
  <2>1. uniforms.volume \in 0 .. n
    BY DEF HistoryInv, UniformsFollow
  <2>2. uniforms.count \in 0 .. MaxBands
    BY CountsFit DEF HistoryInv, PublisherTypeOK
  <2> HIDE DEF n
  <2>3. ASSUME NEW i \in 0 .. VolumeFrames - 1
        PROVE  VolumeAt(counts', uniforms.volume - UnrolledAge(i, VolumeFrames))
                 = VolumeAt(counts, uniforms.volume - UnrolledAge(i, VolumeFrames))
    <3>1. UnrolledAge(i, VolumeFrames) \in Nat
      BY DEF UnrolledAge
    <3>2. uniforms.volume - UnrolledAge(i, VolumeFrames) \in Int
          /\ uniforms.volume - UnrolledAge(i, VolumeFrames) <= n
      BY <1>4, <2>1, <3>1
    <3> QED BY <1>4, <3>2
  <2>4. ASSUME NEW b \in 0 .. uniforms.count - 1, NEW f \in 0 .. BandFrames - 1
        PROVE  BandAt(counts', uniforms.volume - UnrolledAge(f, BandFrames), b)
                 = BandAt(counts, uniforms.volume - UnrolledAge(f, BandFrames), b)
    <3>1. UnrolledAge(f, BandFrames) \in Nat
      BY DEF UnrolledAge
    <3>2. uniforms.volume - UnrolledAge(f, BandFrames) \in Int
          /\ uniforms.volume - UnrolledAge(f, BandFrames) <= n
      BY <1>4, <2>1, <3>1
    <3>3. b \in Bands
      BY <2>2 DEF Bands
    <3> QED BY <1>4, <3>2, <3>3
  <2>5. uniforms.volume \in 0 .. Len(counts')
    BY <1>4, <2>1
  <2> QED BY <1>1, <2>3, <2>4, <2>5 DEF HistoryInv, UniformsFollow
<1> QED BY <1>7, <1>8, <1>9, <1>10 DEF HistoryInv

(* Stopping publishes silence and keeps the rings.                        *)
LEMMA StopKeeps ==
  ASSUME HistoryInv, StopAudio
  PROVE  HistoryInv'
<1>1. snapshot' = ZeroSnapshot /\ UNCHANGED <<ringVars, uniforms>>
  BY DEF StopAudio
<1>2. SnapshotFollows'
  <2>1. VolumesFollow(counts, SilentVolumes, 0, 0) /\ RowsFollow(counts, SilentRows, 0, 0)
    BY SilenceFollows DEF HistoryInv, PublisherTypeOK
  <2> QED BY <1>1, <2>1 DEF SnapshotFollows, ZeroSnapshot, ringVars
<1>3. PublisherTypeOK' /\ RingsFollow' /\ UniformsFollow'
  BY <1>1 DEF HistoryInv, PublisherTypeOK, RingsFollow, UniformsFollow, ringVars, ZeroSnapshot
<1> QED BY <1>2, <1>3 DEF HistoryInv

(* Unrolling shows the frames of the snapshot, at the ages of UnrolledAge,*)
(* and writing the active bands leaves none of them out.                  *)
LEMMA PublishKeeps ==
  ASSUME HistoryInv, PublishUniforms
  PROVE  HistoryInv'
<1> DEFINE count == snapshot.count
           rows == Unrolled(snapshot.bandsHistory, snapshot.bandsHead, BandFrames)
           flat == Flattened(rows, count)
<1> USE PublisherAssumption
<1>1. /\ uniforms'.volume = snapshot.volume /\ uniforms'.count = count
      /\ uniforms'.volumeHistory
           = Unrolled(snapshot.volumeHistory, snapshot.volumeHead, VolumeFrames)
      /\ uniforms'.bandsHistory
           = WriteFirst(count * BandFrames, flat, uniforms.bandsHistory)
      /\ UNCHANGED <<ringVars, snapshot>>
  BY DEF PublishUniforms
<1>2. /\ VolumesFollow(counts, snapshot.volumeHistory, snapshot.volumeHead, snapshot.volume)
      /\ RowsFollow(counts, snapshot.bandsHistory, snapshot.bandsHead, snapshot.volume)
      /\ count \in 0 .. MaxBands
      /\ DOMAIN uniforms.bandsHistory = 0 .. MaxBands * BandFrames - 1
  BY CountsFit DEF HistoryInv, SnapshotFollows, PublisherTypeOK, UniformsFollow
<1>3. ASSUME NEW i \in 0 .. VolumeFrames - 1
      PROVE  uniforms'.volumeHistory[i]
               = VolumeAt(counts, snapshot.volume - UnrolledAge(i, VolumeFrames))
  <2>1. /\ (snapshot.volumeHead + 1 + i) % VolumeFrames \in 0 .. VolumeFrames - 1
        /\ Age((snapshot.volumeHead + 1 + i) % VolumeFrames, snapshot.volumeHead, VolumeFrames)
             = UnrolledAge(i, VolumeFrames)
    BY <1>2, UnrolledSlot DEF VolumesFollow
  <2>2. uniforms'.volumeHistory[i]
          = snapshot.volumeHistory[(snapshot.volumeHead + 1 + i) % VolumeFrames]
    BY <1>1 DEF Unrolled
  <2> QED BY <1>2, <2>1, <2>2 DEF VolumesFollow
<1>4. ASSUME NEW b \in 0 .. count - 1, NEW f \in 0 .. BandFrames - 1
      PROVE  uniforms'.bandsHistory[b * BandFrames + f]
               = BandAt(counts, snapshot.volume - UnrolledAge(f, BandFrames), b)
  <2>1. /\ (snapshot.bandsHead + 1 + f) % BandFrames \in 0 .. BandFrames - 1
        /\ Age((snapshot.bandsHead + 1 + f) % BandFrames, snapshot.bandsHead, BandFrames)
             = UnrolledAge(f, BandFrames)
    BY <1>2, UnrolledSlot DEF RowsFollow
  <2>2. b \in Bands
    BY <1>2 DEF Bands
  <2>3. rows[f][b] = BandAt(counts, snapshot.volume - UnrolledAge(f, BandFrames), b)
    <3>1. rows[f] = snapshot.bandsHistory[(snapshot.bandsHead + 1 + f) % BandFrames]
      BY DEF Unrolled
    <3> QED BY <1>2, <2>1, <2>2, <3>1 DEF RowsFollow
  <2> DEFINE i == b * BandFrames + f
  <2>4. /\ i \in 0 .. count * BandFrames - 1
        /\ i % BandFrames = f /\ i \div BandFrames = b
    <3>1. count \in Nat /\ BandFrames \in Nat \ {0}
      BY <1>2
    <3> HIDE DEF count
    <3> QED BY <3>1, FlatIndex, Zenon
  <2>5. i \in 0 .. MaxBands * BandFrames - 1
    <3>1. MaxBands \in Nat /\ BandFrames \in Nat \ {0} /\ b \in 0 .. MaxBands - 1
      BY <1>2
    <3> QED BY <3>1, FlatIndex, Zenon
  <2> HIDE DEF i, rows
  <2>6. flat[i] = rows[f][b]
    BY <2>4 DEF Flattened
  <2>7. i < count * BandFrames
    <3>1. count * BandFrames \in Int
      BY <1>2
    <3> QED BY <2>4, <3>1
  <2> HIDE DEF flat
  <2>8. uniforms'.bandsHistory[i] = flat[i]
    BY <1>1, <1>2, <2>5, <2>7 DEF WriteFirst
  <2> QED BY <2>3, <2>6, <2>8 DEF i
<1>5. UniformsFollow'
  <2>1. DOMAIN uniforms'.volumeHistory = 0 .. VolumeFrames - 1
    BY <1>1 DEF Unrolled
  <2>2. DOMAIN uniforms'.bandsHistory = 0 .. MaxBands * BandFrames - 1
    BY <1>1, <1>2 DEF WriteFirst
  <2>3. snapshot.volume \in 0 .. Len(counts) /\ counts' = counts
    BY <1>1, <1>2 DEF VolumesFollow, ringVars
  <2> HIDE DEF count, rows, flat
  <2> QED BY <1>1, <1>3, <1>4, <2>1, <2>2, <2>3 DEF UniformsFollow
<1>6. PublisherTypeOK'
  BY <1>1 DEF HistoryInv, PublisherTypeOK, ringVars
<1>7. RingsFollow' /\ SnapshotFollows'
  BY <1>1 DEF HistoryInv, RingsFollow, SnapshotFollows, ringVars
<1> QED BY <1>5, <1>6, <1>7 DEF HistoryInv

(* The ages of UnrolledAge are those of the last frames, each once.       *)
LEMMA HistoryInvIsComplete == HistoryInv => PublisherInv
<1> SUFFICES ASSUME HistoryInv PROVE PublisherInv
  OBVIOUS
<1> DEFINE v == uniforms.volume
<1> USE PublisherAssumption
<1>1. VolumeHistoryIsComplete
  <2> DEFINE shown == {uniforms.volumeHistory[i] : i \in DOMAIN uniforms.volumeHistory}
             true == {VolumeAt(counts, m) : m \in LastFrames(v, VolumeFrames)}
  <2>1. /\ DOMAIN uniforms.volumeHistory = 0 .. VolumeFrames - 1
        /\ \A i \in 0 .. VolumeFrames - 1 :
             uniforms.volumeHistory[i] = VolumeAt(counts, v - UnrolledAge(i, VolumeFrames))
    BY DEF HistoryInv, UniformsFollow
  <2>2. \A i \in 0 .. VolumeFrames - 1 : UnrolledAge(i, VolumeFrames) \in 0 .. VolumeFrames - 1
    BY DEF UnrolledAge
  <2>3. ASSUME NEW x \in shown PROVE x \in true
    <3>1. PICK i \in 0 .. VolumeFrames - 1 : x = uniforms.volumeHistory[i]
      BY <2>1
    <3>2. v - UnrolledAge(i, VolumeFrames) \in LastFrames(v, VolumeFrames)
      BY <2>2 DEF LastFrames
    <3> QED BY <2>1, <3>1, <3>2
  <2>4. ASSUME NEW x \in true PROVE x \in shown
    <3>1. PICK k \in 0 .. VolumeFrames - 1 : x = VolumeAt(counts, v - k)
      BY DEF LastFrames
    <3>2. PICK i \in 0 .. VolumeFrames - 1 : UnrolledAge(i, VolumeFrames) = k
      BY UnrolledAgesAreAll
    <3> QED BY <2>1, <3>1, <3>2
  <2> QED BY <2>3, <2>4 DEF VolumeHistoryIsComplete
<1>2. BandHistoryIsComplete
  <2> SUFFICES ASSUME NEW b \in 0 .. uniforms.count - 1
               PROVE  {uniforms.bandsHistory[b * BandFrames + f] : f \in 0 .. BandFrames - 1}
                        = {BandAt(counts, m, b) : m \in LastFrames(v, BandFrames)}
    BY DEF BandHistoryIsComplete
  <2> DEFINE shown == {uniforms.bandsHistory[b * BandFrames + f] : f \in 0 .. BandFrames - 1}
             true == {BandAt(counts, m, b) : m \in LastFrames(v, BandFrames)}
  <2>1. \A f \in 0 .. BandFrames - 1 :
          uniforms.bandsHistory[b * BandFrames + f]
            = BandAt(counts, v - UnrolledAge(f, BandFrames), b)
    BY DEF HistoryInv, UniformsFollow
  <2>2. \A f \in 0 .. BandFrames - 1 : UnrolledAge(f, BandFrames) \in 0 .. BandFrames - 1
    BY DEF UnrolledAge
  <2>3. ASSUME NEW x \in shown PROVE x \in true
    <3>1. PICK f \in 0 .. BandFrames - 1 : x = uniforms.bandsHistory[b * BandFrames + f]
      OBVIOUS
    <3>2. v - UnrolledAge(f, BandFrames) \in LastFrames(v, BandFrames)
      BY <2>2 DEF LastFrames
    <3> QED BY <2>1, <3>1, <3>2
  <2>4. ASSUME NEW x \in true PROVE x \in shown
    <3>1. PICK k \in 0 .. BandFrames - 1 : x = BandAt(counts, v - k, b)
      BY DEF LastFrames
    <3>2. PICK f \in 0 .. BandFrames - 1 : UnrolledAge(f, BandFrames) = k
      BY UnrolledAgesAreAll
    <3> QED BY <2>1, <3>1, <3>2
  <2> QED BY <2>3, <2>4
<1> QED BY <1>1, <1>2 DEF PublisherInv, HistoryInv

(* For any lengths of the rings, any number of bands and any interleaving *)
(* of frames, stops and rendered frames, the heads stay in their rings and *)
(* the histories a shader reads hold each of the last frames once          *)
(* (audio_system.cpp, uniform_publisher.cpp).                              *)
THEOREM PublisherInvariant == PublisherSpec => []PublisherInv
<1>1. HistoryInv /\ [PublisherNext]_publisherVars => HistoryInv'
  <2> SUFFICES ASSUME HistoryInv, [PublisherNext]_publisherVars PROVE HistoryInv'
    OBVIOUS
  <2>1. CASE UNCHANGED publisherVars
    BY <2>1 DEF publisherVars, ringVars, HistoryInv, PublisherTypeOK, RingsFollow,
                SnapshotFollows, UniformsFollow
  <2> QED BY <2>1, AnalyseKeeps, StopKeeps, PublishKeeps DEF PublisherNext
<1> QED BY <1>1, InitHistoryInv, HistoryInvIsComplete, PTL DEF PublisherSpec

-------------------------------------------------------------------------------
(* The painter.  First the slices: a zone starts at a number that no fold *)
(* is needed for, the cardinality of the LEDs before it.                  *)

(* What the painter's assumption says of one device and one zone.         *)
LEMMA ZoneFields ==
  ASSUME NEW dev \in Device, NEW zi \in DOMAIN dev.zones
  PROVE  /\ dev.zones[zi] \in Zone
         /\ dev.zones[zi].leds \in Nat
         /\ zi \in Nat \ {0} /\ zi <= Len(dev.zones) /\ Len(dev.zones) \in Nat
<1>1. dev.zones \in Seq(Zone)
  BY DEF Device
<1>2. dev.zones[zi] \in Zone /\ zi \in 1 .. Len(dev.zones) /\ Len(dev.zones) \in Nat
  BY <1>1
<1> QED BY <1>2 DEF Zone

(* How many LEDs a slice has.                                             *)
LEMMA SliceSize ==
  ASSUME NEW j \in Nat, NEW n \in Nat
  PROVE  /\ IsFiniteSet({j} \X (0 .. (n - 1)))
         /\ Cardinality({j} \X (0 .. (n - 1))) = n
<1>1. IsFiniteSet({j}) /\ Cardinality({j}) = 1
  BY FS_Singleton
<1>2. 0 \in Int /\ n - 1 \in Int
  OBVIOUS
<1>3. /\ IsFiniteSet(0 .. (n - 1))
      /\ Cardinality(0 .. (n - 1)) = IF 0 > n - 1 THEN 0 ELSE (n - 1) - 0 + 1
  BY <1>2, FS_Interval
<1>4. Cardinality(0 .. (n - 1)) = n
  BY <1>3
<1>5. /\ IsFiniteSet({j} \X (0 .. (n - 1)))
      /\ Cardinality({j} \X (0 .. (n - 1)))
           = Cardinality({j}) * Cardinality(0 .. (n - 1))
  BY <1>1, <1>3, FS_Product
<1> QED BY <1>1, <1>4, <1>5

(* Zones lie one behind the other: there are so many LEDs before one.     *)
LEMMA LedsBeforeFinite ==
  ASSUME NEW dev \in Device, NEW zi \in Nat, zi - 1 <= Len(dev.zones)
  PROVE  IsFiniteSet(LedsBefore(dev, zi)) /\ Start(dev, zi) \in Nat
<1> DEFINE f == [j \in 1 .. (zi - 1) |-> {j} \X (0 .. (dev.zones[j].leds - 1))]
           S == {{j} \X (0 .. (dev.zones[j].leds - 1)) : j \in 1 .. (zi - 1)}
<1>1. f \in Surjection(1 .. (zi - 1), S)
  BY DEF Surjection
<1>2. IsFiniteSet(1 .. (zi - 1))
  BY FS_Interval
<1> HIDE DEF f
<1>3. IsFiniteSet(S)
  <2> HIDE DEF S
  <2> QED BY <1>1, <1>2, FS_Surjection
<1>4. \A T \in S : IsFiniteSet(T)
  <2> SUFFICES ASSUME NEW j \in 1 .. (zi - 1)
               PROVE  IsFiniteSet({j} \X (0 .. (dev.zones[j].leds - 1)))
    OBVIOUS
  <2>1. dev.zones \in Seq(Zone)
    BY DEF Device
  <2>2. j \in DOMAIN dev.zones /\ j \in Nat
    BY <2>1
  <2>3. dev.zones[j].leds \in Nat
    BY <2>2, ZoneFields
  <2> QED BY <2>2, <2>3, SliceSize
<1>5. IsFiniteSet(UNION S)
  <2> HIDE DEF S
  <2> QED BY <1>3, <1>4, FS_UNION
<1>6. LedsBefore(dev, zi) = UNION S
  BY DEF LedsBefore
<1>7. IsFiniteSet(LedsBefore(dev, zi))
  BY <1>5, <1>6
<1> QED BY <1>7, FS_CardinalityType DEF Start

(* A zone starts where the one before it ends ...                         *)
LEMMA NextStart ==
  ASSUME NEW dev \in Device, NEW zi \in DOMAIN dev.zones
  PROVE  /\ Start(dev, zi) \in Nat
         /\ Start(dev, zi + 1) = Start(dev, zi) + dev.zones[zi].leds
<1> DEFINE slice == {zi} \X (0 .. (dev.zones[zi].leds - 1))
           before == LedsBefore(dev, zi)
<1>1. zi \in Nat /\ zi <= Len(dev.zones) /\ zi >= 1 /\ dev.zones[zi].leds \in Nat
  BY ZoneFields
<1>2. LedsBefore(dev, zi + 1) = before \cup slice
  BY <1>1 DEF LedsBefore
<1>3. before \cap slice = {}
  BY <1>1 DEF LedsBefore
<1>4. IsFiniteSet(slice) /\ Cardinality(slice) = dev.zones[zi].leds
  BY <1>1, SliceSize
<1>5. IsFiniteSet(before) /\ Start(dev, zi) \in Nat /\ Start(dev, zi) = Cardinality(before)
  <2>1. zi - 1 <= Len(dev.zones)
    BY <1>1, ZoneFields
  <2> QED BY <1>1, <2>1, LedsBeforeFinite DEF Start
<1>6. Start(dev, zi + 1) = Cardinality(before \cup slice)
  BY <1>2 DEF Start
<1> HIDE DEF slice, before
<1>7. Cardinality(before \cup slice)
        = Cardinality(before) + Cardinality(slice) - Cardinality(before \cap slice)
  BY <1>4, <1>5, FS_Union
<1>8. Cardinality(before \cap slice) = 0
  BY <1>3, FS_EmptySet
<1> QED BY <1>1, <1>4, <1>5, <1>6, <1>7, <1>8

(* ... so none reaches into a later one ...                               *)
LEMMA ZonesApart ==
  ASSUME NEW dev \in Device, NEW a \in DOMAIN dev.zones, NEW b \in DOMAIN dev.zones,
         a < b
  PROVE  Start(dev, a) + dev.zones[a].leds <= Start(dev, b)
<1>1. a + 1 \in Nat /\ b \in Nat /\ a + 1 <= b /\ b <= Len(dev.zones) /\ a \in Nat
  BY ZoneFields
<1>2. LedsBefore(dev, a + 1) \subseteq LedsBefore(dev, b)
  <2>1. 1 .. ((a + 1) - 1) \subseteq 1 .. (b - 1)
    BY <1>1
  <2> QED BY <2>1 DEF LedsBefore
<1>3. IsFiniteSet(LedsBefore(dev, b))
  <2>1. b - 1 <= Len(dev.zones)
    BY <1>1, ZoneFields
  <2> QED BY <1>1, <2>1, LedsBeforeFinite
<1>4. Start(dev, a + 1) <= Start(dev, b)
  BY <1>2, <1>3, FS_Subset DEF Start
<1> QED BY <1>4, NextStart

(* ... and the first starts at 0.                                         *)
LEMMA FirstStart ==
  ASSUME NEW dev
  PROVE  Start(dev, 1) = 0
<1>1. LedsBefore(dev, 1) = {}
  BY DEF LedsBefore
<1> QED BY <1>1, FS_EmptySet DEF Start

-------------------------------------------------------------------------------
(* The peak of a VU meter: it is not below the volume, it is lowered only *)
(* when its hold is over, and nothing else of the state changes.          *)
LEMMA PeakKept ==
  ASSUME NEW z \in Zone, NEW st \in Memory(z), NEW v \in 0 .. Full, NEW dt \in Nat,
         PeakRemembered(st)
  PROVE  LET p == Peak(st, v, dt)
         IN  /\ p \in Memory(z) /\ PeakRemembered(p)
             /\ p.peak >= v
             /\ p.peak < st.peak => st.since >= HoldTime
             /\ p.rows = st.rows /\ p.head = st.head /\ p.past = st.past
<1> DEFINE p == Peak(st, v, dt)
<1>1. /\ st.peak \in 0 .. Full /\ st.hold \in 0 .. HoldTime /\ st.since \in Nat
      /\ Full \in Nat /\ HoldTime \in Nat
  BY PatternAssumption DEF Memory
<1>2. CASE v > st.peak
  <2>1. p = [st EXCEPT !.peak = v, !.hold = HoldTime, !.since = 0]
    BY <1>2 DEF Peak
  <2>2. p \in Memory(z) /\ p.peak = v /\ p.hold = HoldTime /\ p.since = 0
        /\ p.rows = st.rows /\ p.head = st.head /\ p.past = st.past
    <3> DEFINE a == [st EXCEPT !.peak = v]
               b == [a EXCEPT !.hold = HoldTime]
    <3>1. /\ a \in Memory(z) /\ a.peak = v
          /\ a.rows = st.rows /\ a.head = st.head /\ a.past = st.past
      BY DEF Memory
    <3>2. /\ b \in Memory(z) /\ b.peak = v /\ b.hold = HoldTime
          /\ b.rows = st.rows /\ b.head = st.head /\ b.past = st.past
      <4> HIDE DEF a
      <4> QED BY <1>1, <3>1 DEF Memory
    <3>3. p = [b EXCEPT !.since = 0]
      BY <2>1
    <3> HIDE DEF b, p
    <3> QED BY <1>1, <3>2, <3>3 DEF Memory
  <2> QED BY <1>1, <1>2, <2>2 DEF PeakRemembered
<1>3. CASE v <= st.peak /\ st.hold > 0
  <2>1. p = [st EXCEPT !.hold = Larger(0, st.hold - dt),
                       !.since = Smaller(HoldTime, st.since + dt)]
    BY <1>1, <1>3 DEF Peak
  <2>2. /\ Larger(0, st.hold - dt) \in 0 .. HoldTime
        /\ Smaller(HoldTime, st.since + dt) \in Nat
        /\ Larger(0, st.hold - dt) + Smaller(HoldTime, st.since + dt) >= HoldTime
             \/ st.hold + st.since < HoldTime
    BY <1>1 DEF Larger, Smaller
  <2>3. /\ p \in Memory(z) /\ p.peak = st.peak
        /\ p.hold = Larger(0, st.hold - dt) /\ p.since = Smaller(HoldTime, st.since + dt)
        /\ p.rows = st.rows /\ p.head = st.head /\ p.past = st.past
    BY <2>1, <2>2 DEF Memory
  <2> QED BY <1>1, <1>3, <2>2, <2>3 DEF PeakRemembered
<1>4. CASE v <= st.peak /\ st.hold = 0
  <2>1. p = [st EXCEPT !.peak = Larger(v, st.peak - dt)]
    BY <1>1, <1>4 DEF Peak
  <2>2. Larger(v, st.peak - dt) \in 0 .. Full /\ Larger(v, st.peak - dt) >= v
        /\ (st.peak = 0 => Larger(v, st.peak - dt) = 0)
    BY <1>1, <1>4 DEF Larger
  <2>3. /\ p \in Memory(z) /\ p.peak = Larger(v, st.peak - dt)
        /\ p.hold = st.hold /\ p.since = st.since
        /\ p.rows = st.rows /\ p.head = st.head /\ p.past = st.past
    BY <2>1, <2>2 DEF Memory
  <2> QED BY <1>1, <1>4, <2>2, <2>3 DEF PeakRemembered
<1> QED BY <1>1, <1>2, <1>3, <1>4

(* The ring of a waterfall, once its head has moved on: the row that is   *)
(* shown as `row` is the one that was written so many frames ago.         *)
LEMMA SlotShown ==
  ASSUME NEW H \in Nat \ {0}, NEW head \in 0 .. (H - 1), NEW row \in 0 .. (H - 1)
  PROVE  /\ (head + 1) % H \in 0 .. (H - 1)
         /\ SlotOf((head + 1) % H, row, H) = (head + H - row) % H
<1>1. (head + 1) % H = IF head + 1 < H THEN head + 1 ELSE 0
  <2> DEFINE x == head + 1
  <2>1. x \in 0 .. 2 * H - 1 /\ x <= H
    OBVIOUS
  <2>2. x % H = IF x < H THEN x ELSE x - H
    <3> HIDE DEF x
    <3> QED BY <2>1, RingIndex
  <2> QED BY <2>1, <2>2
<1>2. (head + H - row) % H = IF head + H - row < H THEN head + H - row ELSE head - row
  <2> DEFINE x == head + H - row
  <2>1. x \in 0 .. 2 * H - 1
    OBVIOUS
  <2>2. x % H = IF x < H THEN x ELSE x - H
    <3> HIDE DEF x
    <3> QED BY <2>1, RingIndex
  <2> QED BY <2>2
<1> QED BY <1>1, <1>2 DEF SlotOf

(* A row that was written before is one further from the head.            *)
LEMMA NextSlot ==
  ASSUME NEW H \in Nat \ {0}, NEW head \in 0 .. (H - 1), NEW row \in 0 .. (H - 1)
  PROVE  /\ SlotOf(head, row, H) \in 0 .. (H - 1)
         /\ SlotOf((head + 1) % H, 0, H) = head
         /\ row # 0 => /\ SlotOf((head + 1) % H, row, H) = SlotOf(head, row - 1, H)
                       /\ SlotOf(head, row - 1, H) # head
                       /\ SlotOf(head, row - 1, H) \in 0 .. (H - 1)
<1>1. (head + 1) % H = IF head + 1 < H THEN head + 1 ELSE 0
  <2> DEFINE x == head + 1
  <2>1. x \in 0 .. 2 * H - 1 /\ x <= H
    OBVIOUS
  <2>2. x % H = IF x < H THEN x ELSE x - H
    <3> HIDE DEF x
    <3> QED BY <2>1, RingIndex
  <2> QED BY <2>1, <2>2
<1> QED BY <1>1 DEF SlotOf

(* A ring of the right size holds the past, and so does a new one, which  *)
(* is silent.                                                             *)
LEMMA SizedFits ==
  ASSUME NEW z \in Zone, HasCells(z), NEW st \in Memory(z), RowsRemembered(z, st)
  PROVE  LET w == Sized(z, st)
         IN  /\ w \in Memory(z) /\ w.past = st.past
             /\ w.peak = st.peak /\ w.hold = st.hold /\ w.since = st.since
             /\ DOMAIN w.rows = 0 .. (z.height - 1)
             /\ w.head \in 0 .. (z.height - 1)
             /\ \A row \in 0 .. (z.height - 1) :
                  w.rows[SlotOf(w.head, row, z.height)] = PastRow(st.past, row)
<1>1. z.height \in Nat \ {0}
  BY DEF Zone, HasCells
<1>2. CASE DOMAIN st.rows = 0 .. (z.height - 1)
  <2>1. Sized(z, st) = st
    BY <1>2 DEF Sized
  <2>2. st.rows # <<>>
    BY <1>1, <1>2
  <2> QED BY <1>2, <2>1, <2>2 DEF RowsRemembered
<1>3. CASE DOMAIN st.rows # 0 .. (z.height - 1)
  <2> DEFINE dark == [row \in 0 .. (z.height - 1) |-> Silence]
             w == Sized(z, st)
  <2>1. w = [st EXCEPT !.rows = dark, !.head = 0]
    BY <1>3 DEF Sized
  <2>2. dark \in [0 .. (z.height - 1) -> Snapshots \cup {Silence}]
    OBVIOUS
  <2>3. st.past = <<>>
    BY <1>3 DEF RowsRemembered
  <2>4. \A row \in 0 .. (z.height - 1) : PastRow(st.past, row) = Silence
    BY <2>3 DEF PastRow
  <2>5. \A row \in 0 .. (z.height - 1) : SlotOf(0, row, z.height) \in 0 .. (z.height - 1)
    BY <1>1, NextSlot, 0 \in 0 .. (z.height - 1)
  <2>6. \A row \in 0 .. (z.height - 1) : dark[SlotOf(0, row, z.height)] = Silence
    BY <2>5
  <2>7. DOMAIN dark = 0 .. (z.height - 1) /\ 0 \in 0 .. (z.height - 1)
    BY <1>1
  <2> HIDE DEF dark
  <2>8. /\ w \in Memory(z) /\ w.past = st.past
        /\ w.peak = st.peak /\ w.hold = st.hold /\ w.since = st.since
        /\ w.rows = dark /\ w.head = 0
    <3> DEFINE a == [st EXCEPT !.rows = dark]
    <3>1. /\ a \in Memory(z) /\ a.rows = dark /\ a.past = st.past
          /\ a.peak = st.peak /\ a.hold = st.hold /\ a.since = st.since
      BY <2>2 DEF Memory
    <3>2. w = [a EXCEPT !.head = 0]
      BY <2>1
    <3>3. 0 \in Nat
      OBVIOUS
    <3> HIDE DEF a, w
    <3> QED BY <3>1, <3>2, <3>3 DEF Memory
  <2> QED BY <2>4, <2>6, <2>7, <2>8
<1> QED BY <1>2, <1>3

(* A sequence of snapshots that one more is put in front of.              *)
LEMMA PastGrows ==
  ASSUME NEW H \in Nat \ {0}, NEW past \in Seq(Snapshots), NEW s \in Snapshots
  PROVE  LET more == [k \in 1 .. Smaller(H, Len(past) + 1) |->
                        IF k = 1 THEN s ELSE past[k - 1]]
         IN  /\ more \in Seq(Snapshots)
             /\ PastRow(more, 0) = s
             /\ \A row \in 1 .. (H - 1) : PastRow(more, row) = PastRow(past, row - 1)
<1> DEFINE n == Smaller(H, Len(past) + 1)
           more == [k \in 1 .. n |-> IF k = 1 THEN s ELSE past[k - 1]]
<1>1. n \in Nat \ {0} /\ n = IF H < Len(past) + 1 THEN H ELSE Len(past) + 1
  BY DEF Smaller
<1>2. \A k \in 1 .. n : more[k] = (IF k = 1 THEN s ELSE past[k - 1]) /\ more[k] \in Snapshots
  BY <1>1
<1>3. more \in Seq(Snapshots) /\ Len(more) = n
  <2>1. n \in Nat
    BY <1>1
  <2>2. \A k \in 1 .. n : (IF k = 1 THEN s ELSE past[k - 1]) \in Snapshots
    BY <1>1
  <2> HIDE DEF n
  <2>3. more \in [1 .. n -> Snapshots]
    BY <2>2
  <2>4. more \in Seq(Snapshots)
    BY <2>1, <2>2
  <2>5. Len(more) = n
    BY <2>1
  <2> QED BY <2>4, <2>5
<1> HIDE DEF n, more
<1>4. PastRow(more, 0) = s
  BY <1>1, <1>2, <1>3 DEF PastRow
<1>5. ASSUME NEW row \in 1 .. (H - 1)
      PROVE  PastRow(more, row) = PastRow(past, row - 1)
  <2>1. CASE row < n
    <3>1. more[row + 1] = past[row] /\ row - 1 < Len(past)
      BY <1>1, <1>2, <2>1
    <3> QED BY <1>3, <2>1, <3>1 DEF PastRow
  <2>2. CASE row >= n
    BY <1>1, <1>3, <2>2 DEF PastRow
  <2> QED BY <1>1, <2>1, <2>2
<1> QED BY <1>3, <1>4, <1>5 DEF more, n

(* What feeding a waterfall does to its state: the past stays in the ring *)
(* and is what the rows show.                                             *)
LEMMA FedKept ==
  ASSUME NEW z \in Zone, HasCells(z), NEW st \in Memory(z), RowsRemembered(z, st),
         NEW s \in Snapshots
  PROVE  LET w == Fed(z, st, s)
             n == Advanced(z, w)
         IN  /\ n \in Memory(z) /\ RowsRemembered(z, n)
             /\ n.peak = st.peak /\ n.hold = st.hold /\ n.since = st.since
             /\ \A row \in 0 .. (z.height - 1) :
                  w.rows[RowShown(z, w, row)] = PastRow(n.past, row)
<1> DEFINE H == z.height
           q == Sized(z, st)
           more == [k \in 1 .. Smaller(H, Len(st.past) + 1) |->
                      IF k = 1 THEN s ELSE st.past[k - 1]]
           rows == [q.rows EXCEPT ![q.head] = s]
           w == Fed(z, st, s)
           n == Advanced(z, w)
<1>1. H \in Nat \ {0}
  BY DEF Zone, HasCells
<1>2. /\ q \in Memory(z) /\ q.past = st.past
      /\ q.peak = st.peak /\ q.hold = st.hold /\ q.since = st.since
      /\ DOMAIN q.rows = 0 .. (H - 1) /\ q.head \in 0 .. (H - 1)
      /\ \A row \in 0 .. (H - 1) :
           q.rows[SlotOf(q.head, row, H)] = PastRow(st.past, row)
  BY SizedFits
<1>3. st.past \in Seq(Snapshots)
  BY DEF Memory
<1>4. /\ more \in Seq(Snapshots) /\ PastRow(more, 0) = s
      /\ \A row \in 1 .. (H - 1) : PastRow(more, row) = PastRow(st.past, row - 1)
  <2> HIDE DEF H
  <2> QED BY <1>1, <1>3, PastGrows
<1>5. w = [q EXCEPT !.rows[q.head] = s, !.past = more]
  BY DEF Fed
<1>6. q.rows \in [0 .. (H - 1) -> Snapshots \cup {Silence}]
  <2>1. q.rows \in {<<>>} \cup [0 .. (H - 1) -> Snapshots \cup {Silence}]
    BY <1>2 DEF Memory
  <2>2. q.rows # <<>>
    BY <1>1, <1>2
  <2> QED BY <2>1, <2>2
<1> HIDE DEF q
<1>7. /\ rows \in [0 .. (H - 1) -> Snapshots \cup {Silence}]
      /\ DOMAIN rows = 0 .. (H - 1)
      /\ \A i \in 0 .. (H - 1) : rows[i] = IF i = q.head THEN s ELSE q.rows[i]
  BY <1>2, <1>6
<1>8. /\ w \in Memory(z) /\ w.rows = rows /\ w.past = more /\ w.head = q.head
      /\ w.peak = st.peak /\ w.hold = st.hold /\ w.since = st.since
  <2> DEFINE a == [q EXCEPT !.rows = rows]
  <2>1. /\ a \in Memory(z) /\ a.rows = rows /\ a.head = q.head
        /\ a.peak = st.peak /\ a.hold = st.hold /\ a.since = st.since
    <3> HIDE DEF rows
    <3> QED BY <1>2, <1>7 DEF Memory
  <2>2. w = [a EXCEPT !.past = more]
    <3> HIDE DEF more
    <3>1. [q EXCEPT !.rows[q.head] = s] = a
      BY <1>2 DEF Memory
    <3> QED BY <1>5, <3>1
  <2> HIDE DEF a, w, more
  <2> QED BY <1>4, <2>1, <2>2 DEF Memory
<1> HIDE DEF rows, more
<1>9. n = [w EXCEPT !.head = (w.head + 1) % H]
  BY DEF Advanced
<1> HIDE DEF w
<1>10. (q.head + 1) % H \in 0 .. (H - 1)
  <2> HIDE DEF H
  <2> QED BY <1>1, <1>2, SlotShown
<1>11. /\ n \in Memory(z) /\ n.rows = rows /\ n.past = more /\ n.head = (q.head + 1) % H
       /\ n.peak = st.peak /\ n.hold = st.hold /\ n.since = st.since
  <2> DEFINE h == (w.head + 1) % H
  <2>1. h \in Nat /\ h = (q.head + 1) % H
    BY <1>8, <1>10
  <2> HIDE DEF h, n
  <2>2. n = [w EXCEPT !.head = h]
    BY <1>9 DEF h
  <2>3. /\ n \in Memory(z) /\ n.rows = rows /\ n.past = more /\ n.head = h
        /\ n.peak = st.peak /\ n.hold = st.hold /\ n.since = st.since
    BY <1>8, <2>1, <2>2 DEF Memory
  <2> QED BY <2>1, <2>3
<1> HIDE DEF n
<1>12. ASSUME NEW row \in 0 .. (H - 1)
       PROVE  rows[SlotOf(n.head, row, H)] = PastRow(more, row)
  <2>1. CASE row = 0
    <3>1. SlotOf(n.head, row, H) = q.head
      <4> HIDE DEF H
      <4> QED BY <1>1, <1>2, <1>11, <2>1, NextSlot
    <3> QED BY <1>2, <1>4, <1>7, <2>1, <3>1
  <2>2. CASE row # 0
    <3> DEFINE k == SlotOf(q.head, row - 1, H)
    <3>1. SlotOf(n.head, row, H) = k /\ k # q.head /\ k \in 0 .. (H - 1)
      <4>1. H \in Nat \ {0} /\ q.head \in 0 .. (H - 1) /\ row \in 0 .. (H - 1)
        BY <1>1, <1>2
      <4> HIDE DEF H
      <4>2. /\ SlotOf((q.head + 1) % H, row, H) = SlotOf(q.head, row - 1, H)
            /\ SlotOf(q.head, row - 1, H) # q.head
            /\ SlotOf(q.head, row - 1, H) \in 0 .. (H - 1)
        BY ONLY <2>2, <4>1, NextSlot
      <4> QED BY <1>11, <4>2
    <3>2. row - 1 \in 0 .. (H - 1) /\ row \in 1 .. (H - 1)
      BY <1>1, <2>2
    <3>3. q.rows[k] = PastRow(st.past, row - 1)
      BY <1>2, <3>2
    <3> HIDE DEF k
    <3>4. rows[k] = q.rows[k]
      BY <1>7, <3>1
    <3> QED BY <1>4, <3>1, <3>2, <3>3, <3>4
  <2> QED BY <2>1, <2>2
<1>13. \A row \in 0 .. (H - 1) : RowShown(z, w, row) = SlotOf(n.head, row, H)
  <2>1. \A row \in 0 .. (H - 1) : RowShown(z, w, row) = (q.head + H - row) % H
    BY <1>8 DEF RowShown
  <2> HIDE DEF H
  <2> QED BY <1>1, <1>2, <1>11, <2>1, SlotShown
<1>14. RowsRemembered(z, n)
  BY <1>7, <1>10, <1>11, <1>12 DEF RowsRemembered
<1>15. \A row \in 0 .. (H - 1) : w.rows[RowShown(z, w, row)] = PastRow(n.past, row)
  BY <1>8, <1>11, <1>12, <1>13
<1> QED BY <1>11, <1>14, <1>15 DEF n, w

(* A pattern gives every LED of its zone a colour ...                     *)
LEMMA BufferFits ==
  ASSUME NEW z \in Zone, NEW cfg \in Patterns, NEW s, NEW st
  PROVE  DOMAIN Buffer(z, cfg, s, st) = 0 .. (z.leds - 1)
<1>1. cfg.linear \in LinearPattern /\ cfg.matrix \in MatrixPattern
  BY PainterAssumption
<1>2. z.type \in {"Single", "Linear", "Matrix"}
  BY DEF Zone
<1>3. \A cells, colour : DOMAIN Draw(z, cells, colour) = 0 .. (z.leds - 1)
  BY DEF Draw
<1>4. \A colour : DOMAIN Fill(z.leds, colour) = 0 .. (z.leds - 1)
  BY DEF Fill
<1>5. DOMAIN Blank(z.leds) = 0 .. (z.leds - 1)
  BY DEF Blank
<1>6. CASE z.type = "Single"
  BY <1>4, <1>6 DEF Buffer
<1>7. CASE z.type = "Linear"
  <2>1. Buffer(z, cfg, s, st) = RenderLinear(cfg.linear, s, z.leds, st.peak)
    BY <1>7 DEF Buffer
  <2>2. /\ DOMAIN VuMeter(s, z.leds, st.peak) = 0 .. (z.leds - 1)
        /\ DOMAIN ChaseOrbit(s, z.leds) = 0 .. (z.leds - 1)
        /\ DOMAIN StereoSplit(s, z.leds) = 0 .. (z.leds - 1)
        /\ DOMAIN SpectrumBar(s, z.leds) = 0 .. (z.leds - 1)
        /\ DOMAIN PulseFromCenter(s, z.leds) = 0 .. (z.leds - 1)
    BY DEF VuMeter, ChaseOrbit, StereoSplit, SpectrumBar, PulseFromCenter
  <2> QED BY <1>1, <1>4, <1>5, <2>1, <2>2 DEF RenderLinear, LinearPattern
<1>8. CASE z.type = "Matrix"
  <2>1. Buffer(z, cfg, s, st) = RenderMatrix(cfg.matrix, z, s, st)
    BY <1>8 DEF Buffer
  <2>2. /\ DOMAIN SpatialMap(z, s) = 0 .. (z.leds - 1)
        /\ DOMAIN PerRegion(z, s) = 0 .. (z.leds - 1)
        /\ DOMAIN EqualizerColumns(z, s) = 0 .. (z.leds - 1)
        /\ DOMAIN Waterfall(z, st) = 0 .. (z.leds - 1)
    BY <1>3 DEF SpatialMap, PerRegion, EqualizerColumns, Waterfall
  <2> QED BY <1>1, <1>4, <1>5, <2>1, <2>2 DEF RenderMatrix, NeedsCells, MatrixPattern
<1> QED BY <1>2, <1>6, <1>7, <1>8

(* What a tick brings.                                                    *)
LEMMA TickFields ==
  ASSUME tick \in [snap : Snapshots, cfg : Patterns, dt : Dts]
  PROVE  /\ tick.snap \in Snapshots /\ tick.cfg \in Patterns /\ tick.dt \in Nat
         /\ tick.snap.volume \in 0 .. Full
         /\ tick.cfg.single \in SinglePattern /\ tick.cfg.linear \in LinearPattern
         /\ tick.cfg.matrix \in MatrixPattern
BY PainterAssumption

(* ... and what it makes of the state before it shows what it leaves in   *)
(* the state.                                                             *)
LEMMA ZonePainted ==
  ASSUME tick \in [snap : Snapshots, cfg : Patterns, dt : Dts],
         NEW z \in Zone, NEW st \in Memory(z), PeakRemembered(st), RowsRemembered(z, st)
  PROVE  LET b == Before(z, tick.cfg, tick.snap, st, tick.dt)
             n == After(z, tick.cfg, b)
         IN  /\ n \in Memory(z) /\ PeakRemembered(n) /\ RowsRemembered(z, n)
             /\ Buffer(z, tick.cfg, tick.snap, b) = Picture(z, n)
             /\ n.peak < st.peak => st.since >= HoldTime
             /\ z.type = "Linear" /\ tick.cfg.linear = "VuMeter"
                  => n.peak >= tick.snap.volume
<1> DEFINE b == Before(z, tick.cfg, tick.snap, st, tick.dt)
           n == After(z, tick.cfg, b)
<1>0. st.peak \in 0 .. Full /\ Full \in Nat
  BY PatternAssumption DEF Memory
<1>1. CASE z.type = "Linear" /\ tick.cfg.linear = "VuMeter"
  <2>1. ~Scrolls(z, tick.cfg)
    BY <1>1 DEF Scrolls
  <2>2. b = Peak(st, tick.snap.volume, tick.dt) /\ n = b
    BY <1>1, <2>1 DEF Before, After
  <2>3. /\ b \in Memory(z) /\ PeakRemembered(b) /\ b.peak >= tick.snap.volume
        /\ b.peak < st.peak => st.since >= HoldTime
        /\ b.rows = st.rows /\ b.head = st.head /\ b.past = st.past
    BY <2>2, TickFields, PeakKept
  <2>4. RowsRemembered(z, b)
    <3> HIDE DEF b
    <3> QED BY <2>3 DEF RowsRemembered
  <2>5. Buffer(z, tick.cfg, tick.snap, b) = Picture(z, b)
    BY <2>1 DEF Picture
  <2> HIDE DEF b, n
  <2> QED BY <2>2, <2>3, <2>4, <2>5 DEF b, n
<1>2. CASE Scrolls(z, tick.cfg)
  <2>1. z.type = "Matrix" /\ tick.cfg.matrix = "SpectrogramWaterfall" /\ HasCells(z)
    BY <1>2 DEF Scrolls
  <2>2. b = Fed(z, st, tick.snap) /\ n = Advanced(z, b)
    BY <1>2, <2>1 DEF Before, After
  <2>3. /\ n \in Memory(z) /\ RowsRemembered(z, n)
        /\ n.peak = st.peak /\ n.hold = st.hold /\ n.since = st.since
        /\ \A row \in 0 .. (z.height - 1) : b.rows[RowShown(z, b, row)] = PastRow(n.past, row)
    BY <2>1, <2>2, TickFields, FedKept
  <2> HIDE DEF b, n
  <2>4. Buffer(z, tick.cfg, tick.snap, b) = Waterfall(z, b)
    BY <2>1 DEF Buffer, RenderMatrix
  <2>5. \A c \in Cells(z) : c[1] \in 0 .. (z.height - 1)
    BY DEF Cells
  <2>6. [c \in Cells(z) |-> Lit(b.rows[RowShown(z, b, c[1])], <<"cell", c[1], c[2]>>)]
          = PastColours(z, n.past)
    BY <2>3, <2>5 DEF PastColours
  <2>7. Waterfall(z, b) = Draw(z, RowMajor(z), PastColours(z, n.past))
    BY <2>6 DEF Waterfall
  <2>8. Picture(z, n) = Draw(z, RowMajor(z), PastColours(z, n.past))
    BY <1>2 DEF Picture
  <2>9. PeakRemembered(n)
    BY <2>3 DEF PeakRemembered
  <2>10. ~(n.peak < st.peak)
    BY <1>0, <2>3
  <2>11. z.type # "Linear"
    BY <2>1
  <2> QED BY <2>3, <2>4, <2>7, <2>8, <2>9, <2>10, <2>11 DEF b, n
<1>3. CASE ~Scrolls(z, tick.cfg) /\ ~(z.type = "Linear" /\ tick.cfg.linear = "VuMeter")
  <2>1. b = st /\ n = st
    BY <1>3 DEF Before, After
  <2>2. Buffer(z, tick.cfg, tick.snap, st) = Picture(z, st)
    BY <1>3 DEF Picture
  <2>3. ~(st.peak < st.peak)
    BY <1>0
  <2> HIDE DEF b, n
  <2> QED BY <1>3, <2>1, <2>2, <2>3 DEF b, n
<1> QED BY <1>1, <1>2, <1>3

-------------------------------------------------------------------------------
(* What the assumption says of the devices.                               *)
LEMMA DevicesKnown ==
  ASSUME devices \in Servers
  PROVE  /\ devices \in Seq(Device) /\ Len(devices) \in Nat
         /\ DOMAIN devices = 1 .. Len(devices)
         /\ \A d \in DOMAIN devices : devices[d] \in Device
<1>1. devices \in Seq(Device)
  BY PainterAssumption
<1> QED BY <1>1

(* A device that was just fetched is dark and remembers nothing.          *)
LEMMA FreshFits ==
  ASSUME NEW dev \in Device
  PROVE  LET f == Fresh(dev)
         IN  /\ DOMAIN f.leds = 0 .. (dev.leds - 1)
             /\ \A l \in DOMAIN f.leds : f.leds[l] = Black
             /\ DOMAIN f.states = DOMAIN dev.zones
             /\ \A zi \in DOMAIN dev.zones :
                  /\ f.states[zi] \in Memory(dev.zones[zi])
                  /\ PeakRemembered(f.states[zi])
                  /\ RowsRemembered(dev.zones[zi], f.states[zi])
<1>1. \A z : State0 \in Memory(z) /\ PeakRemembered(State0) /\ RowsRemembered(z, State0)
  <2>1. 0 \in 0 .. Full /\ 0 \in 0 .. HoldTime /\ 0 \in Nat /\ <<>> \in Seq(Snapshots)
    BY PatternAssumption
  <2>2. /\ State0.peak = 0 /\ State0.rows = <<>> /\ State0.past = <<>>
        /\ \A z : State0 \in Memory(z)
    BY <2>1 DEF State0, Memory
  <2> HIDE DEF State0
  <2> QED BY <2>2 DEF PeakRemembered, RowsRemembered
<1>2. /\ Fresh(dev).leds = Blank(dev.leds)
      /\ Fresh(dev).states = [zi \in DOMAIN dev.zones |-> State0]
  BY DEF Fresh
<1> HIDE DEF Fresh
<1>3. DOMAIN Blank(dev.leds) = 0 .. (dev.leds - 1)
      /\ \A l \in DOMAIN Blank(dev.leds) : Blank(dev.leds)[l] = Black
  BY DEF Blank
<1> QED BY <1>1, <1>2, <1>3

(* The invariant holds whenever the devices have just been fetched.       *)
LEMMA FreshInv == PaintInit => PainterInv
<1> SUFFICES ASSUME PaintInit PROVE PainterInv
  OBVIOUS
<1> USE DEF PaintInit
<1>1. \A d \in DOMAIN devices : devices[d] \in Device /\ frames[d] = Fresh(devices[d])
  BY DevicesKnown
<1>2. \A d \in DOMAIN devices :
        /\ DOMAIN frames[d].leds = 0 .. (devices[d].leds - 1)
        /\ \A l \in DOMAIN frames[d].leds : frames[d].leds[l] = Black
        /\ DOMAIN frames[d].states = DOMAIN devices[d].zones
        /\ \A zi \in DOMAIN devices[d].zones :
             /\ frames[d].states[zi] \in Memory(devices[d].zones[zi])
             /\ PeakRemembered(frames[d].states[zi])
             /\ RowsRemembered(devices[d].zones[zi], frames[d].states[zi])
  BY <1>1, FreshFits
<1>3. DOMAIN frames = DOMAIN devices /\ at = 0 /\ zone = 1 /\ devices \in Servers
  OBVIOUS
<1>4. Len(devices) \in Nat /\ DOMAIN devices = 1 .. Len(devices)
  BY DevicesKnown
<1>5. PaintTypeOK
  BY ONLY <1>2, <1>3, <1>4 DEF PaintTypeOK
<1>6. OffsetIsStart
  BY ONLY <1>3, <1>4 DEF OffsetIsStart
<1>7. ZonesRemember
  BY ONLY <1>2 DEF ZonesRemember
<1>8. ZonesShow
  <2>1. \A d \in DOMAIN devices : \A zi : ~Done(d, zi)
    BY ONLY <1>3, <1>4 DEF Done
  <2> QED BY ONLY <2>1 DEF ZonesShow
<1>9. OthersAreDark
  BY ONLY <1>2 DEF OthersAreDark
<1> QED BY <1>5, <1>6, <1>7, <1>8, <1>9 DEF PainterInv

(* A new tick: every device is still to be painted.                       *)
LEMMA TickKeeps ==
  ASSUME PainterInv, NEW s \in Snapshots, NEW cfg \in Patterns, NEW dt \in Dts,
         Tick(s, cfg, dt)
  PROVE  PainterInv'
<1>1. /\ devices' = devices /\ frames' = frames /\ at' = 1 /\ zone' = 1 /\ offset' = 0
      /\ tick' \in [snap : Snapshots, cfg : Patterns, dt : Dts]
  BY DEF Tick
<1>2. PaintTypeOK /\ ZonesRemember /\ OthersAreDark
  BY DEF PainterInv
<1>3. Len(devices) \in Nat /\ DOMAIN devices = 1 .. Len(devices)
  BY <1>2, DevicesKnown DEF PaintTypeOK
<1>4. PaintTypeOK'
  BY <1>1, <1>2, <1>3 DEF PaintTypeOK
<1>5. OffsetIsStart'
  BY <1>1, FirstStart DEF OffsetIsStart
<1>6. ZonesRemember'
  BY <1>1, <1>2 DEF ZonesRemember
<1>7. ZonesShow'
  <2>1. \A d \in DOMAIN devices' : \A zi \in DOMAIN devices'[d].zones : ~Done(d, zi)'
    <3> SUFFICES ASSUME NEW d \in DOMAIN devices, NEW zi \in DOMAIN devices[d].zones
                 PROVE  ~Done(d, zi)'
      BY <1>1
    <3>1. d >= 1 /\ d \in Nat
      BY <1>3
    <3>2. zi >= 1 /\ zi \in Nat
      BY <1>2, DevicesKnown, ZoneFields DEF PaintTypeOK
    <3> QED BY <1>1, <3>1, <3>2 DEF Done
  <2> QED BY <2>1 DEF ZonesShow
<1>8. OthersAreDark'
  BY <1>1, <1>2 DEF OthersAreDark, InZone
<1> QED BY <1>4, <1>5, <1>6, <1>7, <1>8 DEF PainterInv

(* The device and the zone the loop is at.                                *)
LEMMA ZoneAt ==
  ASSUME PaintTypeOK, OffsetIsStart, AtZone
  PROVE  /\ devices[at] \in Device /\ at \in Nat \ {0}
         /\ devices[at].zones[zone] \in Zone /\ devices[at].zones[zone].leds \in Nat
         /\ offset = Start(devices[at], zone) /\ offset \in Nat
         /\ Start(devices[at], zone + 1) = offset + devices[at].zones[zone].leds
<1>1. devices[at] \in Device /\ at \in Nat \ {0}
  BY DevicesKnown DEF PaintTypeOK, AtZone
<1>2. zone \in DOMAIN devices[at].zones /\ offset = Start(devices[at], zone)
  BY DEF AtZone, OffsetIsStart
<1> QED BY <1>1, <1>2, ZoneFields, NextStart

(* When a zone is passed, it is done besides those that were.             *)
LEMMA OneMoreDone ==
  ASSUME PaintTypeOK, AtZone, devices' = devices, at' = at, zone' = zone + 1,
         NEW d \in DOMAIN devices, NEW zi \in DOMAIN devices[d].zones, Done(d, zi)'
  PROVE  Done(d, zi) \/ (d = at /\ zi = zone)
<1>1. zi \in Nat /\ d \in Nat
  BY DevicesKnown, ZoneFields DEF PaintTypeOK
<1>2. zone \in Nat
  BY DEF PaintTypeOK
<1>3. devices[d].leds > 0 /\ (d < at \/ (d = at /\ zi < zone + 1))
  BY DEF Done
<1> QED BY <1>1, <1>2, <1>3 DEF Done

(* A zone without LEDs.                                                   *)
LEMMA SkipKeeps ==
  ASSUME PainterInv, SkipZone
  PROVE  PainterInv'
<1>0. PaintTypeOK /\ OffsetIsStart /\ ZonesRemember /\ ZonesShow /\ OthersAreDark
  BY DEF PainterInv
<1>1. /\ devices' = devices /\ frames' = frames /\ tick' = tick /\ at' = at
      /\ zone' = zone + 1 /\ offset' = offset
      /\ AtZone /\ devices[at].zones[zone].leds = 0
  BY DEF SkipZone
<1>2. PaintTypeOK'
  BY <1>0, <1>1 DEF PaintTypeOK
<1>3. OffsetIsStart'
  BY <1>0, <1>1, ZoneAt DEF OffsetIsStart
<1>4. ZonesRemember'
  BY <1>0, <1>1 DEF ZonesRemember
<1>5. ZonesShow'
  <2> SUFFICES ASSUME NEW d \in DOMAIN devices, NEW zi \in DOMAIN devices[d].zones,
                      Done(d, zi)'
               PROVE
        LET z == devices[d].zones[zi]
            st == frames[d].states[zi]
        IN  /\ \A l \in DOMAIN frames[d].leds :
                 InZone(devices[d], zi, l) =>
                   frames[d].leds[l] = Picture(z, st)[l - Start(devices[d], zi)]
            /\ z.type = "Linear" /\ tick.cfg.linear = "VuMeter" /\ z.leds > 0
                 => st.peak >= tick.snap.volume
    BY <1>1 DEF ZonesShow, Picture, InZone
  <2>1. CASE Done(d, zi)
    BY <1>0, <2>1 DEF ZonesShow
  <2>2. CASE d = at /\ zi = zone
    <3>1. devices[d].zones[zi].leds = 0
      BY <1>1, <2>2
    <3>2. \A l : ~InZone(devices[d], zi, l)
      BY <3>1 DEF InZone
    <3> QED BY <3>1, <3>2
  <2> QED BY <1>0, <1>1, <2>1, <2>2, OneMoreDone
<1>6. OthersAreDark'
  BY <1>0, <1>1 DEF OthersAreDark, InZone
<1> QED BY <1>2, <1>3, <1>4, <1>5, <1>6 DEF PainterInv

(* A device is left: all its zones are done, or it has no LEDs.           *)
LEMMA NextDeviceKeeps ==
  ASSUME PainterInv, NextDevice
  PROVE  PainterInv'
<1>0. PaintTypeOK /\ ZonesRemember /\ ZonesShow /\ OthersAreDark
  BY DEF PainterInv
<1>1. /\ devices' = devices /\ frames' = frames /\ tick' = tick /\ at' = at + 1
      /\ zone' = 1 /\ offset' = 0
      /\ at \in DOMAIN devices /\ (devices[at].leds = 0 \/ zone > Len(devices[at].zones))
  BY DEF NextDevice
<1>2. Len(devices) \in Nat /\ DOMAIN devices = 1 .. Len(devices)
  BY <1>0, DevicesKnown DEF PaintTypeOK
<1>3. PaintTypeOK'
  <2>1. at' \in 0 .. (Len(devices) + 1) /\ at # 0 /\ zone' \in Nat \ {0}
    BY <1>1, <1>2
  <2> QED BY <1>0, <1>1, <2>1 DEF PaintTypeOK
<1>4. OffsetIsStart'
  BY <1>1, FirstStart DEF OffsetIsStart
<1>5. ZonesRemember'
  BY <1>0, <1>1 DEF ZonesRemember
<1>6. ASSUME NEW d \in DOMAIN devices, NEW zi \in DOMAIN devices[d].zones, Done(d, zi)'
      PROVE  Done(d, zi)
  <2>1. zi \in Nat \ {0} /\ zi <= Len(devices[d].zones) /\ Len(devices[d].zones) \in Nat
    BY <1>0, DevicesKnown, ZoneFields DEF PaintTypeOK
  <2>2. d \in Nat /\ at \in Nat /\ zone \in Nat
    BY <1>0, <1>1, <1>2 DEF PaintTypeOK
  <2>3. devices[d].leds > 0 /\ (d < at + 1 \/ (d = at + 1 /\ zi < 1))
    BY <1>1, <1>6 DEF Done
  <2>4. d < at \/ d = at
    BY <2>1, <2>2, <2>3
  <2>5. CASE d = at
    <3>1. zone > Len(devices[d].zones)
      BY <1>1, <2>3, <2>5
    <3> QED BY <2>1, <2>2, <2>3, <2>5, <3>1 DEF Done
  <2> QED BY <2>3, <2>4, <2>5 DEF Done
<1>7. ZonesShow'
  BY <1>0, <1>1, <1>6 DEF ZonesShow, Picture, InZone
<1>8. OthersAreDark'
  BY <1>0, <1>1 DEF OthersAreDark, InZone
<1> QED BY <1>3, <1>4, <1>5, <1>7, <1>8 DEF PainterInv

(* A zone is painted: what changes, and where.                            *)
LEMMA PaintChanges ==
  ASSUME PainterInv, PaintZone
  PROVE  LET z == devices[at].zones[zone]
             st == frames[at].states[zone]
             b == Before(z, tick.cfg, tick.snap, st, tick.dt)
             n == After(z, tick.cfg, b)
             zoneBuf == Buffer(z, tick.cfg, tick.snap, b)
         IN  /\ DOMAIN frames' = DOMAIN frames
             /\ \A d \in DOMAIN frames : d # at => frames'[d] = frames[d]
             /\ frames'[at].leds = Copied(frames[at].leds, zoneBuf, offset)
             /\ DOMAIN frames'[at].states = DOMAIN frames[at].states
             /\ frames'[at].states[zone] = n
             /\ \A zi \in DOMAIN frames[at].states :
                  zi # zone => frames'[at].states[zi] = frames[at].states[zi]
             /\ n \in Memory(z) /\ PeakRemembered(n) /\ RowsRemembered(z, n)
             /\ zoneBuf = Picture(z, n) /\ DOMAIN zoneBuf = 0 .. (z.leds - 1)
             /\ n.peak < st.peak => st.since >= HoldTime
             /\ z.type = "Linear" /\ tick.cfg.linear = "VuMeter"
                  => n.peak >= tick.snap.volume
<1> DEFINE z == devices[at].zones[zone]
           st == frames[at].states[zone]
           b == Before(z, tick.cfg, tick.snap, st, tick.dt)
           n == After(z, tick.cfg, b)
           zoneBuf == Buffer(z, tick.cfg, tick.snap, b)
           done == [leds |-> Copied(frames[at].leds, zoneBuf, offset),
                    states |-> [frames[at].states EXCEPT ![zone] = n]]
<1>0. PaintTypeOK /\ OffsetIsStart /\ ZonesRemember /\ AtZone
  BY DEF PainterInv, PaintZone
<1>1. at \in DOMAIN devices /\ zone \in DOMAIN devices[at].zones /\ z \in Zone
  BY <1>0, ZoneAt DEF AtZone
<1>2. /\ tick \in [snap : Snapshots, cfg : Patterns, dt : Dts]
      /\ st \in Memory(z) /\ PeakRemembered(st) /\ RowsRemembered(z, st)
      /\ DOMAIN frames = DOMAIN devices
      /\ DOMAIN frames[at].states = DOMAIN devices[at].zones
  <2>1. at # 0
    BY <1>0, ZoneAt
  <2> QED BY <1>0, <1>1, <2>1 DEF PaintTypeOK, ZonesRemember
<1>3. frames' = [frames EXCEPT ![at] = done]
  BY DEF PaintZone
<1>4. /\ n \in Memory(z) /\ PeakRemembered(n) /\ RowsRemembered(z, n)
      /\ zoneBuf = Picture(z, n)
      /\ n.peak < st.peak => st.since >= HoldTime
      /\ z.type = "Linear" /\ tick.cfg.linear = "VuMeter" => n.peak >= tick.snap.volume
  <2> HIDE DEF z, st
  <2> QED BY <1>1, <1>2, ZonePainted
<1>5. DOMAIN zoneBuf = 0 .. (z.leds - 1)
  <2> HIDE DEF z, b
  <2> QED BY <1>1, <1>2, TickFields, BufferFits
<1>6. /\ done.leds = Copied(frames[at].leds, zoneBuf, offset)
      /\ DOMAIN done.states = DOMAIN frames[at].states
      /\ done.states[zone] = n
      /\ \A zi \in DOMAIN frames[at].states :
           zi # zone => done.states[zi] = frames[at].states[zi]
  <2> HIDE DEF n, zoneBuf
  <2> QED BY <1>1, <1>2
<1> HIDE DEF done
<1>7. /\ DOMAIN frames' = DOMAIN frames /\ frames'[at] = done
      /\ \A d \in DOMAIN frames : d # at => frames'[d] = frames[d]
  BY <1>1, <1>2, <1>3
<1> HIDE DEF n, zoneBuf, st, z, b
<1>8. /\ DOMAIN frames' = DOMAIN frames
      /\ \A d \in DOMAIN frames : d # at => frames'[d] = frames[d]
      /\ frames'[at].leds = Copied(frames[at].leds, zoneBuf, offset)
      /\ DOMAIN frames'[at].states = DOMAIN frames[at].states
      /\ frames'[at].states[zone] = n
      /\ \A zi \in DOMAIN frames[at].states :
           zi # zone => frames'[at].states[zi] = frames[at].states[zi]
  BY ONLY <1>6, <1>7
<1> QED BY <1>4, <1>5, <1>8 DEF n, zoneBuf, st, z, b

(* Painting a zone: it shows its picture, and no other zone is touched.   *)
LEMMA PaintKeeps ==
  ASSUME PainterInv, PaintZone
  PROVE  PainterInv'
<1> DEFINE dev == devices[at]
           z == dev.zones[zone]
           st == frames[at].states[zone]
           b == Before(z, tick.cfg, tick.snap, st, tick.dt)
           n == After(z, tick.cfg, b)
           zoneBuf == Buffer(z, tick.cfg, tick.snap, b)
<1>0. PaintTypeOK /\ OffsetIsStart /\ ZonesRemember /\ ZonesShow /\ OthersAreDark /\ AtZone
  BY DEF PainterInv, PaintZone
<1>1. /\ devices' = devices /\ tick' = tick /\ at' = at /\ zone' = zone + 1
      /\ offset' = offset + z.leds
  BY DEF PaintZone, NextOffset
<1>2. /\ DOMAIN frames' = DOMAIN frames
      /\ \A d \in DOMAIN frames : d # at => frames'[d] = frames[d]
      /\ frames'[at].leds = Copied(frames[at].leds, zoneBuf, offset)
      /\ DOMAIN frames'[at].states = DOMAIN frames[at].states
      /\ frames'[at].states[zone] = n
      /\ \A zi \in DOMAIN frames[at].states :
           zi # zone => frames'[at].states[zi] = frames[at].states[zi]
      /\ n \in Memory(z) /\ PeakRemembered(n) /\ RowsRemembered(z, n)
      /\ zoneBuf = Picture(z, n) /\ DOMAIN zoneBuf = 0 .. (z.leds - 1)
      /\ z.type = "Linear" /\ tick.cfg.linear = "VuMeter" => n.peak >= tick.snap.volume
  BY PaintChanges
<1> HIDE DEF zoneBuf, n
<1>3. /\ at \in DOMAIN devices /\ zone \in DOMAIN dev.zones /\ dev \in Device
      /\ zone \in Nat /\ z.leds \in Nat /\ offset = Start(dev, zone) /\ offset \in Nat
      /\ Start(dev, zone + 1) = offset + z.leds
  BY <1>0, ZoneAt DEF AtZone, PaintTypeOK
<1>4. /\ DOMAIN frames = DOMAIN devices
      /\ \A d \in DOMAIN devices :
           /\ DOMAIN frames[d].leds = 0 .. (devices[d].leds - 1)
           /\ DOMAIN frames[d].states = DOMAIN devices[d].zones
           /\ \A zi \in DOMAIN devices[d].zones :
                frames[d].states[zi] \in Memory(devices[d].zones[zi])
  BY <1>0 DEF PaintTypeOK
<1>5. /\ DOMAIN frames'[at].leds = DOMAIN frames[at].leds
      /\ \A l \in DOMAIN frames[at].leds :
           frames'[at].leds[l] =
             IF InZone(dev, zone, l) THEN Picture(z, n)[l - offset] ELSE frames[at].leds[l]
  <2>1. \A l : InZone(dev, zone, l) <=> l - offset \in DOMAIN zoneBuf
    BY <1>2, <1>3 DEF InZone
  <2> QED BY <1>2, <2>1 DEF Copied
<1>6. PaintTypeOK'
  <2>1. \A d \in DOMAIN devices :
          /\ DOMAIN frames'[d].leds = 0 .. (devices[d].leds - 1)
          /\ DOMAIN frames'[d].states = DOMAIN devices[d].zones
          /\ \A zi \in DOMAIN devices[d].zones :
               frames'[d].states[zi] \in Memory(devices[d].zones[zi])
    <3> SUFFICES ASSUME NEW d \in DOMAIN devices
                 PROVE  /\ DOMAIN frames'[d].leds = 0 .. (devices[d].leds - 1)
                        /\ DOMAIN frames'[d].states = DOMAIN devices[d].zones
                        /\ \A zi \in DOMAIN devices[d].zones :
                             frames'[d].states[zi] \in Memory(devices[d].zones[zi])
      OBVIOUS
    <3>1. CASE d # at
      BY <1>2, <1>4, <3>1
    <3>2. CASE d = at
      BY <1>2, <1>4, <1>5, <3>2
    <3> QED BY <3>1, <3>2
  <2>2. DOMAIN frames' = DOMAIN devices
    BY <1>2, <1>4
  <2> QED BY <1>0, <1>1, <2>1, <2>2 DEF PaintTypeOK
<1>7. OffsetIsStart'
  BY <1>1, <1>3 DEF OffsetIsStart
<1>8. ZonesRemember'
  <2> SUFFICES ASSUME NEW d \in DOMAIN devices, NEW zi \in DOMAIN devices[d].zones
               PROVE  /\ PeakRemembered(frames'[d].states[zi])
                      /\ RowsRemembered(devices[d].zones[zi], frames'[d].states[zi])
    BY <1>1 DEF ZonesRemember
  <2>1. CASE d = at /\ zi = zone
    BY <1>2, <2>1
  <2>2. CASE ~(d = at /\ zi = zone)
    <3>1. frames'[d].states[zi] = frames[d].states[zi]
      BY <1>2, <1>4, <2>2
    <3> QED BY <1>0, <3>1 DEF ZonesRemember
  <2> QED BY <2>1, <2>2
<1>9. ZonesShow'
  <2> SUFFICES ASSUME NEW d \in DOMAIN devices, NEW zi \in DOMAIN devices[d].zones,
                      Done(d, zi)'
               PROVE
        /\ \A l \in DOMAIN frames'[d].leds :
             InZone(devices[d], zi, l) =>
               frames'[d].leds[l]
                 = Picture(devices[d].zones[zi], frames'[d].states[zi])
                     [l - Start(devices[d], zi)]
        /\ devices[d].zones[zi].type = "Linear" /\ tick.cfg.linear = "VuMeter"
             /\ devices[d].zones[zi].leds > 0
             => frames'[d].states[zi].peak >= tick.snap.volume
    BY <1>1 DEF ZonesShow, Picture, InZone
  <2>1. CASE d = at /\ zi = zone
    BY <1>2, <1>3, <1>5, <2>1
  <2>2. CASE ~(d = at /\ zi = zone)
    <3>1. Done(d, zi)
      BY <1>0, <1>1, <2>2, OneMoreDone
    <3>2. frames'[d].states[zi] = frames[d].states[zi]
      BY <1>2, <1>4, <2>2
    <3>3. DOMAIN frames'[d].leds = DOMAIN frames[d].leds
      BY <1>2, <1>4, <1>5
    <3>4. ASSUME NEW l \in DOMAIN frames[d].leds, InZone(devices[d], zi, l)
          PROVE  frames'[d].leds[l] = frames[d].leds[l]
      <4>1. CASE d # at
        BY <1>2, <1>4, <4>1
      <4>2. CASE d = at
        <5>1. zi < zone
          <6>1. at \in Nat
            BY <1>0, ZoneAt
          <6> QED BY <2>2, <3>1, <4>2, <6>1 DEF Done
        <5>2. Start(dev, zi) + dev.zones[zi].leds <= offset
          BY <1>3, <4>2, <5>1, ZonesApart
        <5>3. l \in Nat /\ Start(dev, zi) \in Nat /\ dev.zones[zi].leds \in Nat
          <6>1. l \in 0 .. (dev.leds - 1)
            BY <1>4, <4>2
          <6>2. zi \in DOMAIN dev.zones
            BY <4>2
          <6>3. Start(dev, zi) \in Nat /\ dev.zones[zi].leds \in Nat
            BY <1>3, <6>2, NextStart, ZoneFields
          <6> QED BY <6>1, <6>3
        <5>4. ~InZone(dev, zone, l)
          BY <1>3, <3>4, <4>2, <5>2, <5>3 DEF InZone
        <5> QED BY <1>5, <4>2, <5>4
      <4> QED BY <4>1, <4>2
    <3>5. /\ \A l \in DOMAIN frames[d].leds :
               InZone(devices[d], zi, l) =>
                 frames[d].leds[l]
                   = Picture(devices[d].zones[zi], frames[d].states[zi])
                       [l - Start(devices[d], zi)]
          /\ devices[d].zones[zi].type = "Linear" /\ tick.cfg.linear = "VuMeter"
               /\ devices[d].zones[zi].leds > 0
               => frames[d].states[zi].peak >= tick.snap.volume
      BY <1>0, <3>1 DEF ZonesShow
    <3> QED BY <3>2, <3>3, <3>4, <3>5
  <2> QED BY <2>1, <2>2
<1>10. OthersAreDark'
  <2> SUFFICES ASSUME NEW d \in DOMAIN devices, NEW l \in DOMAIN frames'[d].leds,
                      \A zi \in DOMAIN devices[d].zones : ~InZone(devices[d], zi, l)
               PROVE  frames'[d].leds[l] = Black
    BY <1>1 DEF OthersAreDark, InZone
  <2>1. l \in DOMAIN frames[d].leds /\ frames'[d].leds[l] = frames[d].leds[l]
    <3>1. CASE d # at
      BY <1>2, <1>4, <3>1
    <3>2. CASE d = at
      BY <1>3, <1>5, <3>2
    <3> QED BY <3>1, <3>2
  <2> QED BY <1>0, <2>1 DEF OthersAreDark
<1> QED BY <1>6, <1>7, <1>8, <1>9, <1>10 DEF PainterInv

-------------------------------------------------------------------------------
(* What a picture's colours are: a colour that Draw leaves is one of the  *)
(* cells that this LED belongs to ...                                     *)
LEMMA DrawnIsOwn ==
  ASSUME NEW z \in Zone, NEW cells, NEW colour, NEW i \in 0 .. (z.leds - 1),
         Draw(z, cells, colour)[i] # Black
  PROVE  \E c \in DOMAIN colour :
           /\ CellToLed(z, c[1], c[2]) = i
           /\ Draw(z, cells, colour)[i] = colour[c]
<1> DEFINE last == LastHit(z, cells, colour, i)
<1>1. Draw(z, cells, colour)[i]
        = IF last = {} THEN Black ELSE colour[cells[CHOOSE k \in last : TRUE]]
  BY DEF Draw
<1>2. last # {}
  BY <1>1
<1> DEFINE k == CHOOSE k \in last : TRUE
<1>3. k \in last
  BY <1>2
<1>4. cells[k] \in DOMAIN colour /\ CellToLed(z, cells[k][1], cells[k][2]) = i
  BY <1>3 DEF LastHit, Hits
<1> QED BY <1>1, <1>2, <1>4

(* ... and any colour of a picture is the LED's own, computed from this   *)
(* frame or scrolled.                                                     *)
LEMMA PictureIsOwn ==
  ASSUME tick \in [snap : Snapshots, cfg : Patterns, dt : Dts],
         NEW z \in Zone, NEW st, NEW i \in 0 .. (z.leds - 1),
         Picture(z, st)[i] # Black
  PROVE  /\ OwnPart(z, i, Picture(z, st)[i][2])
         /\ Picture(z, st)[i][1] # tick.snap => Scrolls(z, tick.cfg)
         /\ Scrolls(z, tick.cfg) =>
              Picture(z, st)[i][1] = PastRow(st.past, Picture(z, st)[i][2][2])
<1> DEFINE s == tick.snap
           colour == Picture(z, st)[i]
<1>0. /\ tick.cfg.linear \in LinearPattern /\ tick.cfg.matrix \in MatrixPattern
      /\ z.type \in {"Single", "Linear", "Matrix"}
  BY TickFields DEF Zone
<1>1. ASSUME NEW part, colour = Lit(s, part), part \in PartsOf(z, i), part[1] # "cell",
             ~Scrolls(z, tick.cfg)
      PROVE  /\ OwnPart(z, i, colour[2])
             /\ colour[1] # s => Scrolls(z, tick.cfg)
             /\ Scrolls(z, tick.cfg) => colour[1] = PastRow(st.past, colour[2][2])
  <2> HIDE DEF colour
  <2>1. colour[1] = s /\ colour[2] = part
    BY <1>1 DEF Lit
  <2> QED BY <1>1, <2>1 DEF OwnPart
<1>2. ASSUME NEW t, NEW c \in Cells(z), colour = Lit(t, <<"cell", c[1], c[2]>>),
             CellToLed(z, c[1], c[2]) = i, z.type = "Matrix"
      PROVE  OwnPart(z, i, colour[2]) /\ colour[1] = t /\ colour[2][2] = c[1]
  <2> HIDE DEF colour
  <2> DEFINE part == <<"cell", c[1], c[2]>>
  <2>1. colour[1] = t /\ colour[2] = part
    BY <1>2 DEF Lit
  <2>2. c[1] \in 0 .. (z.height - 1) /\ c[2] \in 0 .. (z.width - 1)
    BY DEF Cells
  <2>3. part \in PartsOf(z, i)
    BY <1>2, <2>2 DEF PartsOf
  <2>4. part[1] = "cell" /\ part[2] = c[1] /\ part[3] = c[2]
    OBVIOUS
  <2> HIDE DEF part
  <2> QED BY <1>2, <2>1, <2>3, <2>4 DEF OwnPart
<1>3. CASE Scrolls(z, tick.cfg)
  <2>1. colour = Draw(z, RowMajor(z), PastColours(z, st.past))[i]
    BY <1>3 DEF Picture
  <2>2. PICK c \in DOMAIN PastColours(z, st.past) :
          /\ CellToLed(z, c[1], c[2]) = i
          /\ colour = PastColours(z, st.past)[c]
    BY <2>1, DrawnIsOwn
  <2>3. c \in Cells(z) /\ colour = Lit(PastRow(st.past, c[1]), <<"cell", c[1], c[2]>>)
    BY <2>2 DEF PastColours
  <2>4. z.type = "Matrix"
    BY <1>3 DEF Scrolls
  <2> HIDE DEF colour
  <2>5. OwnPart(z, i, colour[2]) /\ colour[1] = PastRow(st.past, c[1]) /\ colour[2][2] = c[1]
    BY <1>2, <2>2, <2>3, <2>4 DEF colour
  <2> QED BY <1>3, <2>5 DEF colour
<1>4. CASE ~Scrolls(z, tick.cfg)
  <2>1. colour = Buffer(z, tick.cfg, s, st)[i]
    BY <1>4 DEF Picture
  <2>2. i \in 0 .. (z.leds - 1)
    OBVIOUS
  <2>3. \A c : Fill(z.leds, c)[i] = c
    BY <2>2 DEF Fill
  <2>4. Blank(z.leds)[i] = Black
    BY <2>2 DEF Blank
  <2>5. CASE z.type = "Single"
    <3>1. colour = RenderSingle(tick.cfg.single, s)
      BY <2>1, <2>3, <2>5 DEF Buffer
    <3>2. colour = Lit(s, <<"all">>)
      BY <3>1 DEF RenderSingle
    <3>3. <<"all">> \in PartsOf(z, i) /\ <<"all">>[1] # "cell"
      BY <2>5 DEF PartsOf
    <3> HIDE DEF colour
    <3> QED BY <1>1, <1>4, <3>2, <3>3 DEF colour
  <2>6. CASE z.type = "Linear"
    <3>1. colour = RenderLinear(tick.cfg.linear, s, z.leds, st.peak)[i]
      BY <2>1, <2>6 DEF Buffer
    <3> HIDE DEF colour
    <3>2. \/ colour = Lit(s, <<"all">>)
          \/ \E k \in {"fill", "peak", "tail", "left", "right", "led"} :
               colour = Lit(s, <<k, i>>)
      <4>1. CASE tick.cfg.linear = "VuMeter"
        <5>1. colour = VuMeter(s, z.leds, st.peak)[i]
          BY <3>1, <4>1 DEF RenderLinear
        <5>2. colour \in {Lit(s, <<"peak", i>>), Lit(s, <<"fill", i>>), Black}
          BY <2>2, <5>1 DEF VuMeter
        <5> QED BY <5>2 DEF colour
      <4>2. CASE tick.cfg.linear = "ChaseOrbit"
        <5>1. colour = ChaseOrbit(s, z.leds)[i]
          BY <3>1, <4>2 DEF RenderLinear
        <5>2. colour \in {Lit(s, <<"tail", i>>), Black}
          BY <2>2, <5>1 DEF ChaseOrbit
        <5> QED BY <5>2 DEF colour
      <4>3. CASE tick.cfg.linear = "StereoSplit"
        <5>1. colour = StereoSplit(s, z.leds)[i]
          BY <3>1, <4>3 DEF RenderLinear
        <5>2. colour = Lit(s, <<IF i < z.leds \div 2 THEN "left" ELSE "right", i>>)
          BY <2>2, <5>1 DEF StereoSplit
        <5> QED BY <5>2
      <4>4. CASE tick.cfg.linear = "SpectrumBar"
        <5>1. colour = SpectrumBar(s, z.leds)[i]
          BY <3>1, <4>4 DEF RenderLinear
        <5> QED BY <2>2, <5>1 DEF SpectrumBar
      <4>5. CASE tick.cfg.linear = "PulseFromCenter"
        <5>1. colour = PulseFromCenter(s, z.leds)[i]
          BY <3>1, <4>5 DEF RenderLinear
        <5> QED BY <2>2, <5>1 DEF PulseFromCenter
      <4>6. CASE tick.cfg.linear \in {"ColorWash", "Static"}
        BY <2>3, <3>1, <4>6 DEF RenderLinear
      <4>7. CASE tick.cfg.linear = "Off"
        BY <2>4, <3>1, <4>7 DEF RenderLinear, colour
      <4> QED BY <1>0, <4>1, <4>2, <4>3, <4>4, <4>5, <4>6, <4>7 DEF LinearPattern
    <3>3. CASE colour = Lit(s, <<"all">>)
      <4>1. <<"all">> \in PartsOf(z, i) /\ <<"all">>[1] # "cell"
        BY <2>6 DEF PartsOf
      <4> QED BY <1>1, <1>4, <3>3, <4>1 DEF colour
    <3>4. ASSUME NEW k \in {"fill", "peak", "tail", "left", "right", "led"},
                 colour = Lit(s, <<k, i>>)
          PROVE  /\ OwnPart(z, i, colour[2])
                 /\ colour[1] # s => Scrolls(z, tick.cfg)
                 /\ Scrolls(z, tick.cfg) => colour[1] = PastRow(st.past, colour[2][2])
      <4>1. <<k, i>> \in PartsOf(z, i)
        BY <2>6 DEF PartsOf
      <4>2. <<k, i>>[1] # "cell"
        OBVIOUS
      <4> QED BY <1>1, <1>4, <3>4, <4>1, <4>2 DEF colour
    <3> QED BY <3>2, <3>3, <3>4 DEF colour
  <2>7. CASE z.type = "Matrix"
    <3>1. colour = RenderMatrix(tick.cfg.matrix, z, s, st)[i]
      BY <2>1, <2>7 DEF Buffer
    <3>2. ASSUME NEW cells, NEW S \in SUBSET Cells(z),
                 colour = Draw(z, cells, CellColours(S, s))[i]
          PROVE  \E c \in Cells(z) : /\ CellToLed(z, c[1], c[2]) = i
                                    /\ colour = Lit(s, <<"cell", c[1], c[2]>>)
      <4>1. PICK c \in DOMAIN CellColours(S, s) :
              /\ CellToLed(z, c[1], c[2]) = i
              /\ colour = CellColours(S, s)[c]
        BY <3>2, DrawnIsOwn
      <4>2. c \in S /\ colour = Lit(s, <<"cell", c[1], c[2]>>)
        BY <4>1 DEF CellColours
      <4> QED BY <4>1, <4>2
    <3> HIDE DEF colour
    <3>3. \/ colour = Lit(s, <<"all">>)
          \/ \E c \in Cells(z) : /\ CellToLed(z, c[1], c[2]) = i
                                 /\ colour = Lit(s, <<"cell", c[1], c[2]>>)
      <4>1. CASE tick.cfg.matrix \in {"BeatFlash", "ColorWash", "Static"}
        BY <2>3, <3>1, <4>1 DEF RenderMatrix, NeedsCells
      <4>2. CASE tick.cfg.matrix = "Off"
        BY <2>4, <3>1, <4>2 DEF RenderMatrix, NeedsCells, colour
      <4>3. CASE tick.cfg.matrix \in NeedsCells /\ ~HasCells(z)
        BY <2>4, <3>1, <4>3 DEF RenderMatrix, NeedsCells, colour
      <4>4. CASE tick.cfg.matrix = "SpatialMap" /\ HasCells(z)
        <5>1. colour = Draw(z, RowMajor(z), CellColours(Cells(z), s))[i]
          BY <3>1, <4>4 DEF RenderMatrix, NeedsCells, SpatialMap
        <5> QED BY <3>2, <5>1 DEF colour
      <4>5. CASE tick.cfg.matrix = "PerRegion" /\ HasCells(z)
        <5>1. colour = Draw(z, RowMajor(z), CellColours(Cells(z), s))[i]
          BY <3>1, <4>5 DEF RenderMatrix, NeedsCells, PerRegion
        <5> QED BY <3>2, <5>1 DEF colour
      <4>6. CASE tick.cfg.matrix = "EqualizerColumns" /\ HasCells(z)
        <5>1. colour = Draw(z, ColumnMajor(z),
                            CellColours({c \in Cells(z) : Reaches(z, s, c)}, s))[i]
          BY <3>1, <4>6 DEF RenderMatrix, NeedsCells, EqualizerColumns
        <5>2. {c \in Cells(z) : Reaches(z, s, c)} \in SUBSET Cells(z)
          OBVIOUS
        <5> QED BY <3>2, <5>1, <5>2 DEF colour
      <4>7. ~(tick.cfg.matrix = "SpectrogramWaterfall" /\ HasCells(z))
        BY <1>4, <2>7 DEF Scrolls
      <4> QED BY <1>0, <4>1, <4>2, <4>3, <4>4, <4>5, <4>6, <4>7
             DEF MatrixPattern, NeedsCells
    <3>4. CASE colour = Lit(s, <<"all">>)
      <4>1. <<"all">> \in PartsOf(z, i) /\ <<"all">>[1] # "cell"
        BY <2>7 DEF PartsOf
      <4> QED BY <1>1, <1>4, <3>4, <4>1 DEF colour
    <3>5. ASSUME NEW c \in Cells(z), CellToLed(z, c[1], c[2]) = i,
                 colour = Lit(s, <<"cell", c[1], c[2]>>)
          PROVE  OwnPart(z, i, colour[2]) /\ colour[1] = s
      BY <1>2, <2>7, <3>5 DEF colour
    <3> QED BY <1>4, <3>3, <3>4, <3>5 DEF colour
  <2> QED BY <1>0, <2>5, <2>6, <2>7
<1> QED BY <1>3, <1>4

-------------------------------------------------------------------------------
(* Division, as the bar and its dot need it.                              *)
LEMMA Quotient ==
  ASSUME NEW m \in Nat, NEW F \in Nat \ {0}
  PROVE  /\ m \div F \in Nat
         /\ (m \div F) * F <= m
         /\ m < (m \div F + 1) * F
OBVIOUS

(* What multiplying by a scale does to the order.                         *)
LEMMA LessTimes ==
  ASSUME NEW a \in Int, NEW b \in Int, NEW F \in Nat \ {0}, a * F < b * F
  PROVE  a < b
OBVIOUS

(* ... in the other direction.                                            *)
LEMMA TimesLess ==
  ASSUME NEW a \in Int, NEW b \in Int, NEW F \in Nat
  PROVE  /\ a <= b => a * F <= b * F
         /\ F > 0 /\ a < b => a * F < b * F
         /\ a * F \in Int
         /\ a >= 0 => a * F \in Nat
OBVIOUS

(* Where the dot is, and that the bar does not reach over it.             *)
LEMMA DotFits ==
  ASSUME NEW n \in Nat \ {0}, NEW peak \in 0 .. Full
  PROVE  /\ peak \in {0, Full} => PeakLed(peak, n) \notin 0 .. (n - 1)
         /\ peak \notin {0, Full} => PeakLed(peak, n) \in 0 .. (n - 1)
         /\ peak # 0 => \A i \in Nat, v \in 0 .. peak :
                          i * Full < v * n => i <= PeakLed(peak, n)
<1> DEFINE m == peak * n
           q == m \div Full
<1>1. Full \in Nat \ {0}
  BY PatternAssumption
<1>2. m \in Nat /\ m <= Full * n /\ (peak < Full => m < Full * n)
  BY <1>1, TimesLess
<1> HIDE DEF m
<1>3. q \in Nat /\ q * Full <= m /\ m < (q + 1) * Full
  BY <1>1, <1>2, Quotient
<1>4. PeakLed(peak, n) = IF peak = 0 THEN -1 ELSE q
  BY DEF PeakLed, m
<1>5. n * Full = Full * n /\ n * Full \in Nat /\ q * Full \in Int /\ (q + 1) * Full \in Int
  BY <1>1, <1>3
<1> HIDE DEF q
<1>6. peak = 0 => PeakLed(peak, n) = -1
  BY <1>4
<1>7. ASSUME peak = Full PROVE PeakLed(peak, n) \notin 0 .. (n - 1)
  <2>1. m = n * Full
    BY <1>1, <1>7 DEF m
  <2>2. n < q + 1
    BY <1>1, <1>3, <2>1, LessTimes
  <2> QED BY <1>1, <1>3, <1>4, <1>7, <2>2
<1>8. ASSUME peak \notin {0, Full} PROVE PeakLed(peak, n) \in 0 .. (n - 1)
  <2>1. q * Full < n * Full
    BY <1>1, <1>2, <1>3, <1>5, <1>8
  <2>2. q < n
    BY <1>1, <1>3, <2>1, LessTimes
  <2> QED BY <1>3, <1>4, <1>8, <2>2
<1>9. ASSUME peak # 0, NEW i \in Nat, NEW v \in 0 .. peak, i * Full < v * n
      PROVE  i <= PeakLed(peak, n)
  <2>1. v * n <= m /\ v * n \in Nat /\ i * Full \in Nat
    BY <1>1, TimesLess DEF m
  <2>2. i * Full < (q + 1) * Full
    BY <1>2, <1>3, <1>5, <1>9, <2>1
  <2>3. i < q + 1
    BY <1>1, <1>3, <2>2, LessTimes
  <2> QED BY <1>3, <1>4, <1>9, <2>3
<1>10. peak \in {0, Full} => PeakLed(peak, n) \notin 0 .. (n - 1)
  BY <1>6, <1>7
<1> QED BY <1>8, <1>9, <1>10

-------------------------------------------------------------------------------
(* The inductive invariant of the painter: where the loop is, what the    *)
(* zones remember, and what the zones painted so far show.                *)
LEMMA PainterStep == PainterInv /\ [PaintNext]_paintVars => PainterInv'
<1> SUFFICES ASSUME PainterInv, [PaintNext]_paintVars PROVE PainterInv'
  OBVIOUS
<1>1. CASE \E s \in Snapshots, cfg \in Patterns, dt \in Dts : Tick(s, cfg, dt)
  BY <1>1, TickKeeps
<1>2. CASE PaintZone
  BY <1>2, PaintKeeps
<1>3. CASE SkipZone
  BY <1>3, SkipKeeps
<1>4. CASE NextDevice
  BY <1>4, NextDeviceKeeps
<1>5. ASSUME NEW server \in Servers, Refresh(server) PROVE PainterInv'
  <2>1. PaintInit'
    BY <1>5 DEF Refresh, PaintInit
  <2>2. PaintInit' => PainterInv'
    BY FreshInv, PTL
  <2> QED BY <2>1, <2>2
<1>6. CASE UNCHANGED paintVars
  BY <1>6 DEF paintVars, PainterInv, PaintTypeOK, OffsetIsStart, ZonesRemember, ZonesShow,
              OthersAreDark, Picture, InZone, Done
<1> QED BY <1>1, <1>2, <1>3, <1>4, <1>5, <1>6 DEF PaintNext

(* For any devices, snapshots and patterns: the zones painted so far show *)
(* the pictures of their snapshot and of what they remember, and the rest *)
(* is dark.                                                               *)
THEOREM PainterInvariant == PaintSpec => []PainterInv
<1>1. PaintInit => PainterInv
  BY FreshInv
<1>2. PainterInv /\ [PaintNext]_paintVars => PainterInv'
  BY PainterStep
<1> QED BY <1>1, <1>2, PTL DEF PaintSpec

(* A zone of a device that this frame has painted.                        *)
LEMMA PaintedShows ==
  ASSUME PainterInv, NEW d \in Painted, NEW zi \in DOMAIN devices[d].zones
  PROVE  LET z == devices[d].zones[zi]
             st == frames[d].states[zi]
             start == Start(devices[d], zi)
         IN  /\ z \in Zone /\ z.leds \in Nat /\ start \in Nat
             /\ st \in Memory(z)
             /\ tick \in [snap : Snapshots, cfg : Patterns, dt : Dts]
             /\ \A l \in DOMAIN frames[d].leds :
                  l - start \in 0 .. (z.leds - 1)
                    => frames[d].leds[l] = Picture(z, st)[l - start]
             /\ z.type = "Linear" /\ tick.cfg.linear = "VuMeter" /\ z.leds > 0
                  => st.peak >= tick.snap.volume
<1>1. d \in DOMAIN devices /\ d < at /\ devices[d].leds > 0
  BY DEF Painted
<1>2. PaintTypeOK /\ ZonesShow
  BY DEF PainterInv
<1>3. devices[d] \in Device /\ at # 0
  BY <1>1, <1>2, DevicesKnown DEF PaintTypeOK
<1>4. /\ devices[d].zones[zi] \in Zone /\ devices[d].zones[zi].leds \in Nat
      /\ Start(devices[d], zi) \in Nat
  BY <1>3, ZoneFields, NextStart
<1>5. /\ frames[d].states[zi] \in Memory(devices[d].zones[zi])
      /\ tick \in [snap : Snapshots, cfg : Patterns, dt : Dts]
  BY <1>1, <1>2, <1>3 DEF PaintTypeOK
<1>6. Done(d, zi)
  BY <1>1 DEF Done
<1> QED BY <1>1, <1>2, <1>4, <1>5, <1>6 DEF ZonesShow, InZone

(* Whatever the server's zones, maps and numbers: each LED shows a part   *)
(* of its own zone's pattern that is meant for it, or nothing.            *)
THEOREM LedsAreTheirZones == PaintSpec => []EachLedIsItsZones
<1>1. PainterInv => EachLedIsItsZones
  <2> SUFFICES ASSUME PainterInv, NEW d \in Painted, NEW l \in DOMAIN frames[d].leds,
                      frames[d].leds[l] # Black
               PROVE
        \E zi \in DOMAIN devices[d].zones :
          /\ l - Start(devices[d], zi) \in 0 .. (devices[d].zones[zi].leds - 1)
          /\ OwnPart(devices[d].zones[zi], l - Start(devices[d], zi), frames[d].leds[l][2])
          /\ frames[d].leds[l][1] # tick.snap => Scrolls(devices[d].zones[zi], tick.cfg)
    BY DEF EachLedIsItsZones
  <2>1. d \in DOMAIN devices /\ OthersAreDark
    BY DEF Painted, PainterInv
  <2>2. PICK zi \in DOMAIN devices[d].zones : InZone(devices[d], zi, l)
    BY <2>1 DEF OthersAreDark
  <2> DEFINE z == devices[d].zones[zi]
             st == frames[d].states[zi]
             i == l - Start(devices[d], zi)
  <2>3. i \in 0 .. (z.leds - 1)
    BY <2>2 DEF InZone
  <2>4. /\ z \in Zone /\ tick \in [snap : Snapshots, cfg : Patterns, dt : Dts]
        /\ frames[d].leds[l] = Picture(z, st)[i]
    BY <2>3, PaintedShows
  <2> HIDE DEF z, st, i
  <2>5. OwnPart(z, i, frames[d].leds[l][2])
        /\ (frames[d].leds[l][1] # tick.snap => Scrolls(z, tick.cfg))
    BY <2>3, <2>4, PictureIsOwn
  <2> QED BY <2>3, <2>5 DEF z, st, i
<1> QED BY <1>1, PainterInvariant, PTL

(* However long its ring has turned and whatever was shown in between: a  *)
(* waterfall shows the frames it was fed, newest first.                   *)
THEOREM WaterfallsShowThePast == PaintSpec => []WaterfallShowsPast
<1>1. PainterInv => WaterfallShowsPast
  <2> SUFFICES ASSUME PainterInv, NEW d \in Painted, NEW zi \in DOMAIN devices[d].zones,
                      Scrolls(devices[d].zones[zi], tick.cfg),
                      NEW l \in DOMAIN frames[d].leds,
                      l - Start(devices[d], zi) \in 0 .. (devices[d].zones[zi].leds - 1),
                      frames[d].leds[l] # Black
               PROVE  frames[d].leds[l][1]
                        = PastRow(frames[d].states[zi].past, frames[d].leds[l][2][2])
    BY DEF WaterfallShowsPast
  <2> DEFINE z == devices[d].zones[zi]
             st == frames[d].states[zi]
             i == l - Start(devices[d], zi)
  <2>1. /\ z \in Zone /\ tick \in [snap : Snapshots, cfg : Patterns, dt : Dts]
        /\ frames[d].leds[l] = Picture(z, st)[i]
    BY PaintedShows
  <2>2. i \in 0 .. (z.leds - 1) /\ Scrolls(z, tick.cfg)
    OBVIOUS
  <2> HIDE DEF z, st, i
  <2>3. frames[d].leds[l][1] = PastRow(st.past, frames[d].leds[l][2][2])
    BY <2>1, <2>2, PictureIsOwn
  <2> QED BY <2>3 DEF st
<1> QED BY <1>1, PainterInvariant, PTL

(* For any number of LEDs and any number of levels: the white dot is on   *)
(* one LED, unless it is rounded past an end, and the bar is below it.    *)
THEOREM DotIsAlwaysTheApex == PaintSpec => []DotIsTheApex
<1>1. PainterInv => DotIsTheApex
  <2> SUFFICES ASSUME PainterInv, NEW d \in Painted, NEW zi \in DOMAIN devices[d].zones
               PROVE
        LET z == devices[d].zones[zi]
            start == Start(devices[d], zi)
            peak == frames[d].states[zi].peak
            shown == [i \in 0 .. (z.leds - 1) |-> frames[d].leds[start + i]]
            dots == {i \in DOMAIN shown : shown[i] = Lit(tick.snap, <<"peak", i>>)}
        IN  /\ z.type = "Linear" /\ tick.cfg.linear = "VuMeter"
            /\ z.leds > 0 /\ start + z.leds <= devices[d].leds
            => /\ peak >= tick.snap.volume
               /\ Cardinality(dots) = IF peak \in {0, Full} THEN 0 ELSE 1
               /\ \A i \in DOMAIN shown, dot \in dots : shown[i] # Black => i <= dot
    BY DEF DotIsTheApex
  <2> DEFINE z == devices[d].zones[zi]
             start == Start(devices[d], zi)
             st == frames[d].states[zi]
             peak == st.peak
             s == tick.snap
             n == z.leds
             shown == [i \in 0 .. (n - 1) |-> frames[d].leds[start + i]]
             dots == {i \in DOMAIN shown : shown[i] = Lit(s, <<"peak", i>>)}
  <2> SUFFICES ASSUME z.type = "Linear", tick.cfg.linear = "VuMeter",
                      n > 0, start + n <= devices[d].leds
               PROVE  /\ peak >= s.volume
                      /\ Cardinality(dots) = IF peak \in {0, Full} THEN 0 ELSE 1
                      /\ \A i \in DOMAIN shown, dot \in dots : shown[i] # Black => i <= dot
    OBVIOUS
  <2>1. /\ z \in Zone /\ n \in Nat \ {0} /\ start \in Nat
        /\ tick \in [snap : Snapshots, cfg : Patterns, dt : Dts]
        /\ peak \in 0 .. Full /\ peak >= s.volume
        /\ \A l \in DOMAIN frames[d].leds :
             l - start \in 0 .. (n - 1) => frames[d].leds[l] = Picture(z, st)[l - start]
    <3>1. st \in Memory(z) => peak \in 0 .. Full
      <4> HIDE DEF st, z
      <4> QED BY DEF Memory
    <3> HIDE DEF peak
    <3>2. peak = st.peak
      BY DEF peak
    <3> QED BY <3>1, <3>2, PaintedShows
  <2>2. Picture(z, st) = VuMeter(s, n, peak)
    BY DEF Picture, Scrolls, Buffer, RenderLinear
  <2>3. DOMAIN frames[d].leds = 0 .. (devices[d].leds - 1) /\ devices[d].leds \in Nat
    <3>1. d \in DOMAIN devices /\ PaintTypeOK
      BY DEF Painted, PainterInv
    <3>2. devices[d] \in Device
      BY <3>1, DevicesKnown DEF PaintTypeOK
    <3> QED BY <3>1, <3>2 DEF PaintTypeOK, Device
  <2>4. s.volume \in 0 .. Full /\ Full \in Nat \ {0}
    BY <2>1, TickFields, PatternAssumption
  <2> HIDE DEF z, st, start, peak, n, s
  <2>5. ASSUME NEW i \in 0 .. (n - 1)
        PROVE  shown[i] = IF i = PeakLed(peak, n) THEN Lit(s, <<"peak", i>>)
                          ELSE IF i * Full < s.volume * n THEN Lit(s, <<"fill", i>>)
                          ELSE Black
    <3>1. start + i \in 0 .. (devices[d].leds - 1) /\ (start + i) - start = i
      BY <2>1, <2>3
    <3>2. shown[i] = Picture(z, st)[i]
      BY <2>1, <2>3, <3>1
    <3> QED BY <2>2, <3>2 DEF VuMeter
  <2>6. DOMAIN shown = 0 .. (n - 1)
    OBVIOUS
  <2> HIDE DEF shown
  <2>7. \A i \in 0 .. (n - 1) :
          shown[i] = Lit(s, <<"peak", i>>) <=> i = PeakLed(peak, n)
    <3>1. \A i : /\ Lit(s, <<"peak", i>>)[2][1] = "peak"
                 /\ Lit(s, <<"fill", i>>)[2][1] = "fill"
      BY DEF Lit
    <3>2. \A i : Lit(s, <<"peak", i>>) # Black
      BY DEF Lit, Black
    <3>3. \A i : Lit(s, <<"peak", i>>) # Lit(s, <<"fill", i>>)
      BY <3>1
    <3> QED BY <2>5, <3>2, <3>3
  <2>8. dots = {i \in 0 .. (n - 1) : i = PeakLed(peak, n)}
    BY <2>6, <2>7
  <2>9. Cardinality(dots) = IF peak \in {0, Full} THEN 0 ELSE 1
    <3>1. CASE peak \in {0, Full}
      <4>1. dots = {}
        BY <2>1, <2>8, <3>1, DotFits
      <4> QED BY <3>1, <4>1, FS_EmptySet
    <3>2. CASE peak \notin {0, Full}
      <4>1. dots = {PeakLed(peak, n)}
        BY <2>1, <2>8, <3>2, DotFits
      <4> QED BY <3>2, <4>1, FS_Singleton
    <3> QED BY <3>1, <3>2
  <2>10. ASSUME NEW i \in 0 .. (n - 1), NEW dot \in dots, shown[i] # Black
         PROVE  i <= dot
    <3>1. dot = PeakLed(peak, n) /\ dot \in 0 .. (n - 1)
      BY <2>8
    <3>2. i = dot \/ i * Full < s.volume * n
      BY <2>5, <2>10, <3>1
    <3>3. peak # 0
      BY <2>1, <3>1, DotFits
    <3>4. s.volume \in 0 .. peak
      BY <2>1, <2>4
    <3>5. CASE i * Full < s.volume * n
      <4>1. i \in Nat
        OBVIOUS
      <4> QED BY <2>1, <3>1, <3>3, <3>4, <3>5, <4>1, DotFits
    <3>6. CASE i = dot
      BY <3>1, <3>6
    <3> QED BY <3>2, <3>5, <3>6
  <2> HIDE DEF dots
  <2> QED BY <2>1, <2>6, <2>9, <2>10 DEF peak
<1> QED BY <1>1, PainterInvariant, PTL

(* For any hold time and any rhythm of frames: the peak of a zone is not  *)
(* lowered sooner than that after it rose.                                *)
THEOREM PeaksAreHeld == PaintSpec => PeakIsHeld
<1> DEFINE Held ==
      at' # 0 =>
        \A d \in DOMAIN frames : \A zi \in DOMAIN frames[d].states :
          frames'[d].states[zi].peak < frames[d].states[zi].peak =>
            frames[d].states[zi].since >= HoldTime
<1>1. PainterInv /\ [PaintNext]_paintVars => [Held]_paintVars
  <2> SUFFICES ASSUME PainterInv, PaintNext, at' # 0,
                      NEW d \in DOMAIN frames, NEW zi \in DOMAIN frames[d].states,
                      frames'[d].states[zi].peak < frames[d].states[zi].peak
               PROVE  frames[d].states[zi].since >= HoldTime
    OBVIOUS
  <2>1. frames[d].states[zi].peak \in Nat
    <3>1. PaintTypeOK
      BY DEF PainterInv
    <3>2. frames[d].states[zi] \in Memory(devices[d].zones[zi])
      BY <3>1 DEF PaintTypeOK
    <3> QED BY <3>2 DEF Memory
  <2>2. frames' # frames
    BY <2>1
  <2>3. PaintZone
    BY <2>2 DEF PaintNext, Tick, SkipZone, NextDevice, Refresh
  <2>4. d = at /\ zi = zone
    BY <2>1, <2>3, PaintChanges
  <2> QED BY <2>3, <2>4, PaintChanges
<1>2. PaintSpec => [][Held]_paintVars
  <2> HIDE DEF Held
  <2> QED BY <1>1, PainterInvariant, PTL DEF PaintSpec
<1> QED BY <1>2 DEF PeakIsHeld
===============================================================================
