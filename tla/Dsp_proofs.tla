------------------------------- MODULE Dsp_proofs -----------------------------
(***************************************************************************)
(* The beat tracker, the beat stage around it and the pipeline around that.*)
(* For any limits of the period, any sequence of periods and any outcome   *)
(* of the predictions: the countdowns agree, beats recur within a bound,   *)
(* none follows a predicted one too soon, and the score is looked up       *)
(* within its buffer; all of which the pipeline keeps, because every step  *)
(* of it is a step of the tracker or leaves the tracker alone.  For any    *)
(* interval of the updates and any hold, the lock is earned.  And with     *)
(* the program's own sizes, an estimate of the tempo lacks nothing.        *)
(***************************************************************************)
EXTENDS DspPipeline, FiniteSetTheorems, TLAPS


(* process() works with a period between its limits, whatever it is given.*)
LEMMA ClampedInRange ==
  ASSUME NEW arg \in Nat
  PROVE  Clamped(arg) \in MinPeriod..MaxPeriod
BY PeriodAssumption DEF Clamped

(* Half a period is at least one sample and grows with the period.        *)
LEMMA HalfBounds ==
  ASSUME NEW p \in MinPeriod..MaxPeriod
  PROVE  Half(p) \in 1..Half(MaxPeriod) /\ Half(p) <= p
BY PeriodAssumption DEF Half

(* Any period between the limits looks back within the buffer, for a new  *)
(* sample and for each of those predict_beat() projects behind it.        *)
LEMMA LookBackBounds ==
  ASSUME NEW p \in MinPeriod..MaxPeriod, NEW i \in 0 .. (BeatWindow(p) - 1)
  PROVE  /\ LookBack(p, BufferSize + i) # {}
         /\ LookBack(p, BufferSize + i) \subseteq 0 .. (BufferSize + i - 1)
<1>1. /\ p \in Nat /\ MaxPeriod \in Nat /\ p <= MaxPeriod /\ p >= 2
      /\ i \in Nat
  BY PeriodAssumption DEF BeatWindow
<1>2. Half(p) \in Int /\ Half(p) >= 1 /\ Half(p) <= p
  BY HalfBounds, <1>1
<1>3. BufferSize + i - 2 * p \in LookBack(p, BufferSize + i)
  BY <1>1, <1>2 DEF LookBack, BufferSize
<1>4. LookBack(p, BufferSize + i) \subseteq 0 .. (BufferSize + i - 1)
  BY <1>1, <1>2 DEF LookBack, BufferSize
<1> QED BY <1>3, <1>4

(* A count that has at least one frame to go has not reached its end.     *)
LEMMA EndsBefore ==
  ASSUME NEW now \in Nat, NEW left \in Int, left >= 1,
         NEW end \in Int, NEW later \in Int, end <= later
  PROVE  now + left <= end => now < later
OBVIOUS

(* A tracker as constructed has nothing pending.                         *)
LEMMA InitTracker == TrackerInit => TrackerInv
<1> SUFFICES ASSUME TrackerInit PROVE TrackerInv
  OBVIOUS
<1>1. Half(MaxPeriod) \in Nat /\ Half(MaxPeriod) >= 1
  BY PeriodAssumption DEF Half
<1>2. TrackerTypeOK
  <2>1. period \in MinPeriod..MaxPeriod
    BY PeriodAssumption DEF TrackerInit
  <2>2. toBeat \in Int /\ toPrediction \in Nat \ {0} /\ phase \in Nat /\ lead \in Nat
    BY PeriodAssumption, <1>1 DEF TrackerInit
  <2>3. pending \in BOOLEAN
    BY DEF TrackerInit
  <2> QED BY <2>1, <2>2, <2>3 DEF TrackerTypeOK
<1>3. CountdownsAgree /\ LeadIsKept
  BY PeriodAssumption, <1>1 DEF TrackerInit, CountdownsAgree, LeadIsKept
<1>4. LooksBackInBuffer
  BY LookBackBounds, <1>2 DEF LooksBackInBuffer, TrackerTypeOK
<1>5. phase < Longest
  BY PeriodAssumption, <1>1 DEF TrackerInit, Longest
<1> QED BY <1>2, <1>3, <1>4, <1>5 DEF TrackerInv, BeatsRecur

(* reset() leaves it as constructed.                                      *)
LEMMA ResetKeeps == TrackerReset => TrackerInv'
<1> SUFFICES ASSUME TrackerReset PROVE TrackerInv'
  OBVIOUS
<1>1. Half(MaxPeriod) \in Nat /\ Half(MaxPeriod) >= 1
  BY PeriodAssumption DEF Half
<1>2. TrackerTypeOK'
  <2>1. period' \in MinPeriod..MaxPeriod
    BY PeriodAssumption DEF TrackerReset
  <2>2. toBeat' \in Int /\ toPrediction' \in Nat \ {0} /\ phase' \in Nat /\ lead' \in Nat
    BY PeriodAssumption, <1>1 DEF TrackerReset
  <2>3. pending' \in BOOLEAN
    BY DEF TrackerReset
  <2> QED BY <2>1, <2>2, <2>3 DEF TrackerTypeOK
<1>3. CountdownsAgree' /\ LeadIsKept'
  BY PeriodAssumption, <1>1 DEF TrackerReset, CountdownsAgree, LeadIsKept
<1>4. LooksBackInBuffer'
  BY LookBackBounds, <1>2 DEF LooksBackInBuffer, TrackerTypeOK
<1>5. (phase < Longest)'
  BY PeriodAssumption, <1>1 DEF TrackerReset, Longest
<1> QED BY <1>2, <1>3, <1>4, <1>5 DEF TrackerInv, BeatsRecur

(* One call of process().  Four cases: it predicts or not, and the beat   *)
(* is due or not; the arithmetic of each is left to the solver.           *)
LEMMA TrackKeeps ==
  ASSUME TrackerInv, NEW arg \in Periods, Track(arg)
  PROVE  TrackerInv' /\ (phase' = 0 => phase + 1 >= lead)
<1> DEFINE p == Clamped(arg)
           h == Half(p)
           H == Half(MaxPeriod)
<1>1. PICK best \in 0 .. (BeatWindow(p) - 1) : TrackSample(arg, best)
  BY DEF Track
<1>2. p \in MinPeriod..MaxPeriod
  BY ClampedInRange, PeriodAssumption
<1>3. /\ h \in Nat /\ H \in Nat /\ h >= 1 /\ h <= H /\ h <= p
      /\ p \in Nat /\ MaxPeriod \in Nat /\ p >= 2 /\ p <= MaxPeriod
  BY <1>2, HalfBounds, PeriodAssumption
<1>4. best \in Nat /\ best <= p - 1
  BY <1>3 DEF BeatWindow
<1> DEFINE predicts == toPrediction - 1 <= 0
           next == IF predicts THEN best ELSE toBeat - 1
           due == next <= 0
<1>5. /\ period' = p
      /\ toPrediction' = IF predicts THEN best + h ELSE toPrediction - 1
      /\ toBeat' = IF due THEN p ELSE next
      /\ phase' = IF due THEN 0 ELSE phase + 1
      /\ pending' = ((pending \/ predicts) /\ ~due)
      /\ lead' = IF ~due THEN lead
                 ELSE IF (pending \/ predicts) /\ p >= toPrediction' THEN toPrediction'
                 ELSE 0
  BY <1>1 DEF TrackSample
<1>6. /\ toBeat \in Int /\ toPrediction \in Nat /\ toPrediction >= 1
      /\ phase \in Nat /\ pending \in BOOLEAN /\ lead \in Nat
  BY DEF TrackerInv, TrackerTypeOK
<1>7. /\ toBeat >= 1 \/ (toBeat = -1 /\ phase = 0 /\ ~pending)
      /\ ~pending => phase + toPrediction <= H
      /\ pending => /\ toPrediction - toBeat >= 1 /\ toPrediction - toBeat <= H
                    /\ phase + toBeat <= H + MaxPeriod - 1
      /\ lead > 0 => /\ phase + toBeat >= lead
                     /\ ~pending => phase + toPrediction = lead
  BY <1>3, <1>6 DEF TrackerInv, CountdownsAgree, LeadIsKept, Longest
<1>8. ~(pending /\ predicts)
  BY <1>6, <1>7
<1> HIDE DEF p, h, H
<1>9. next \in Int /\ due \in BOOLEAN /\ predicts \in BOOLEAN
  BY <1>4, <1>6
<1>10. phase' = 0 => phase + 1 >= lead
  BY <1>5, <1>6, <1>7, <1>8, <1>4
<1>11. TrackerTypeOK'
  <2>1. period' \in MinPeriod..MaxPeriod
    BY <1>2, <1>5
  <2>2. toPrediction' \in Nat \ {0}
    BY <1>3, <1>4, <1>5, <1>6
  <2>3. toBeat' \in Int /\ phase' \in Nat /\ lead' \in Nat
    BY <1>3, <1>4, <1>5, <1>6, <2>2
  <2>4. pending' \in BOOLEAN
    BY <1>5
  <2> QED BY <2>1, <2>2, <2>3, <2>4 DEF TrackerTypeOK
<1>12. /\ toBeat' \in Int /\ phase' \in Nat
       /\ toPrediction' \in Int /\ toPrediction' >= 1
  BY <1>11 DEF TrackerTypeOK
<1>13. /\ toBeat' >= 1
       /\ ~pending' => phase' + toPrediction' <= H
       /\ pending' => /\ toPrediction' - toBeat' >= 1 /\ toPrediction' - toBeat' <= H
                      /\ phase' + toBeat' <= H + MaxPeriod - 1
       /\ lead' > 0 => /\ phase' + toBeat' >= lead'
                       /\ ~pending' => phase' + toPrediction' = lead'
       /\ phase' < H + MaxPeriod - 1
  <2>1. CASE due
    <3>1. /\ toBeat' = p /\ phase' = 0 /\ ~pending'
          /\ toPrediction' = IF predicts THEN best + h ELSE toPrediction - 1
      BY <1>5, <2>1
    <3>2. toPrediction' <= H
      BY <2>1, <3>1, <1>3, <1>4, <1>6, <1>7
    <3>3. lead' = 0 \/ (lead' = toPrediction' /\ p >= toPrediction')
      BY <1>5, <2>1
    <3>4. toBeat' >= 1 /\ (phase' + toPrediction' <= H)
      BY <3>1, <3>2, <1>3, <1>11 DEF TrackerTypeOK
    <3>5. lead' > 0 => phase' + toBeat' >= lead' /\ phase' + toPrediction' = lead'
      BY <3>1, <3>3, <1>3, <1>11 DEF TrackerTypeOK
    <3>6. phase' < H + MaxPeriod - 1
      BY <3>1, <1>3
    <3> QED BY <3>1, <3>4, <3>5, <3>6
  <2>2. CASE ~due
    <3>1. /\ toBeat' = next /\ phase' = phase + 1 /\ lead' = lead
          /\ (pending' <=> (pending \/ predicts))
          /\ toPrediction' = IF predicts THEN best + h ELSE toPrediction - 1
      BY <1>5, <2>2
    <3>2. toBeat' >= 1
      BY <3>1, <2>2, <1>9
    <3>3. ~predicts /\ ~pending => phase' + toPrediction' <= H
      BY <3>1, <1>6, <1>7, <1>3
    <3>4. predicts => /\ toPrediction' - toBeat' >= 1 /\ toPrediction' - toBeat' <= H
                      /\ phase' + toBeat' <= H + MaxPeriod - 1
      BY <3>1, <1>3, <1>4, <1>6, <1>7, <1>8
    <3>5. ~predicts /\ pending => /\ toPrediction' - toBeat' >= 1 /\ toPrediction' - toBeat' <= H
                                  /\ phase' + toBeat' <= H + MaxPeriod - 1
      BY <3>1, <1>3, <1>6, <1>7
    <3>6. lead' > 0 => phase' + toBeat' >= lead'
      BY <3>1, <1>3, <1>4, <1>6, <1>7, <1>8
    <3>7. lead' > 0 /\ ~predicts /\ ~pending => phase' + toPrediction' = lead'
      BY <3>1, <1>6, <1>7
    <3>8. phase' < H + MaxPeriod - 1
      <4> DEFINE end == H + MaxPeriod - 1
      <4>1. H \in Int /\ end \in Int /\ H <= end
        BY <1>3
      <4>2. end <= end
        BY <4>1
      <4>3. \/ phase' + toPrediction' <= H
            \/ phase' + toBeat' <= end
        BY <3>3, <3>4, <3>5
      <4> HIDE DEF end
      <4>4. phase' + toPrediction' <= H => phase' < end
        BY EndsBefore, <4>1, <1>12
      <4>5. phase' + toBeat' <= end => phase' < end
        BY EndsBefore, <3>2, <4>1, <4>2, <1>12
      <4> QED BY <4>3, <4>4, <4>5 DEF end
    <3> QED BY <3>1, <3>2, <3>3, <3>4, <3>5, <3>6, <3>7, <3>8
  <2> QED BY <2>1, <2>2
<1>14. CountdownsAgree'
  <2>1. toPrediction' - toBeat' \in Int /\ H \in Int
    BY <1>11, <1>3 DEF TrackerTypeOK
  <2> QED BY <1>13, <2>1 DEF CountdownsAgree, Longest, H
<1>15. LeadIsKept'
  BY <1>13 DEF LeadIsKept
<1>16. (phase < Longest)'
  BY <1>13 DEF Longest, H
<1>17. LooksBackInBuffer'
  BY LookBackBounds, <1>11 DEF LooksBackInBuffer, TrackerTypeOK
<1> QED BY <1>10, <1>11, <1>14, <1>15, <1>16, <1>17 DEF TrackerInv, BeatsRecur

(* A step that leaves the tracker alone.                                  *)
LEMMA StutterKeeps == TrackerInv /\ UNCHANGED trackerVars => TrackerInv'
BY DEF TrackerInv, TrackerTypeOK, CountdownsAgree, LeadIsKept, BeatsRecur,
       LooksBackInBuffer, trackerVars

(* Beats recur and the look-back stays in its buffer, for any limits of    *)
(* the period and whatever the tempo estimate passes in.                  *)
THEOREM TrackerInvariant == TrackerSpec => []TrackerInv
<1>1. TrackerInv /\ [TrackerNext]_trackerVars => TrackerInv'
  <2> SUFFICES ASSUME TrackerInv, [TrackerNext]_trackerVars PROVE TrackerInv'
    OBVIOUS
  <2>1. CASE TrackerReset
    BY <2>1, ResetKeeps
  <2>2. CASE \E arg \in Periods : Track(arg)
    BY <2>2, TrackKeeps
  <2>3. CASE UNCHANGED trackerVars
    BY <2>3, StutterKeeps
  <2> QED BY <2>1, <2>2, <2>3 DEF TrackerNext
<1> QED BY InitTracker, <1>1, PTL DEF TrackerSpec

(* After a predicted beat the next one waits for the next prediction.     *)
THEOREM TrackerKeepsBeatsApart == TrackerSpec => BeatsKeepApart
<1>1. TrackerInv /\ [TrackerNext]_trackerVars
        => [phase' = 0 /\ toBeat' # -1 => phase + 1 >= lead]_trackerVars
  <2> SUFFICES ASSUME TrackerInv, TrackerNext
               PROVE  phase' = 0 /\ toBeat' # -1 => phase + 1 >= lead
    OBVIOUS
  <2>1. CASE TrackerReset
    BY <2>1 DEF TrackerReset
  <2>2. CASE \E arg \in Periods : Track(arg)
    BY <2>2, TrackKeeps
  <2> QED BY <2>1, <2>2 DEF TrackerNext
<1> QED BY TrackerInvariant, <1>1, PTL DEF TrackerSpec, BeatsKeepApart
-------------------------------------------------------------------------------
(* The beat stage in the pipeline.                                        *)

(* Every step of the pipeline is a step of the tracker or leaves it alone.*)
LEMMA PipelineStepIsTrackerStep == [Next]_vars => [TrackerNext]_trackerVars
<1> SUFFICES ASSUME [Next]_vars PROVE TrackerNext \/ UNCHANGED trackerVars
  OBVIOUS
<1>1. CASE \E bad \in BOOLEAN : Analyse(bad)
  BY <1>1 DEF Analyse, BeatProcess, TrackerNext
<1>2. CASE \E s \in Throwing, bad \in BOOLEAN : StageThrows(s, bad)
  BY <1>2 DEF StageThrows
<1>3. CASE Edit
  BY <1>3 DEF Edit
<1>4. CASE Restart
  BY <1>4 DEF Restart, BeatReset, TrackerNext
<1>5. CASE UNCHANGED vars
  BY <1>5 DEF vars
<1> QED BY <1>1, <1>2, <1>3, <1>4, <1>5 DEF Next

(* The pipeline implements the tracker: whatever is thrown, edited or     *)
(* restarted around it, the tracker behaves as its own module says.       *)
THEOREM PipelineImplementsTracker == Spec => TrackerSpec
<1>1. Init => TrackerInit
  BY DEF Init, BeatInit
<1> QED BY <1>1, PipelineStepIsTrackerStep, PTL DEF Spec, TrackerSpec

(* So what was proved of the tracker holds in the pipeline.               *)
COROLLARY PipelineKeepsBeats == Spec => []TrackerInv /\ BeatsKeepApart
BY PipelineImplementsTracker, TrackerInvariant, TrackerKeepsBeatsApart, PTL

(* A count of intervals below the hold covers fewer frames than the hold. *)
LEMMA FewerIntervals ==
  ASSUME NEW T \in Nat \ {0}, NEW H \in Nat \ {0}, NEW c \in Nat, c < H
  PROVE  c * T <= (H - 1) * T
OBVIOUS

(* One more interval is so many more frames.                              *)
LEMMA OneMoreInterval ==
  ASSUME NEW T \in Nat, NEW c \in Nat
  PROVE  (c + 1) * T = c * T + T
OBVIOUS

(* One less than a positive number.                                       *)
LEMMA OneLess ==
  ASSUME NEW c \in Int, c >= 1
  PROVE  c \in Nat /\ c - 1 \in Nat /\ (c - 1) + 1 = c
OBVIOUS

(* Room for one more interval, filled but for one frame, is not all of it.*)
LEMMA NotAllOfIt ==
  ASSUME NEW counted \in Int, NEW into \in Int, NEW most \in Int, NEW T \in Int,
         NEW all \in Int, into <= T - 1, counted <= most + into + 1,
         most + T < all
  PROVE  counted < all
OBVIOUS

(* The counters of the beat stage, with what earns the lock.              *)
StageInv == TrackerInv /\ BeatTypeOK /\ LockCounts

(* A stage as constructed has neither tempo nor lock.                     *)
LEMMA InitStage == BeatInit => StageInv
<1> SUFFICES ASSUME BeatInit PROVE StageInv
  OBVIOUS
<1>1. TrackerInv
  BY InitTracker DEF BeatInit
<1>2. samples = 0 /\ hops = 0 /\ confident = FALSE /\ above = 0 /\ locked = FALSE /\ confirmed = 0
  BY DEF BeatInit
<1>3. 0 \in 0 .. (LockedHold * TempoUpdateHops)
  <2>1. LockedHold * TempoUpdateHops \in Nat
    BY BeatStageAssumption
  <2> QED BY <2>1
<1>4. BeatTypeOK
  <2>1. samples \in 0..WarmSamples /\ hops \in 0 .. (TempoUpdateHops - 1)
        /\ confirmed \in 0..LockedHold
    BY <1>2, BeatStageAssumption
  <2>2. confident \in BOOLEAN /\ locked \in BOOLEAN
    BY <1>2
  <2> QED BY <1>1, <1>2, <1>3, <2>1, <2>2 DEF BeatTypeOK, TrackerInv
<1>5. LockCounts
  BY <1>2 DEF LockCounts, LockIsEarned
<1> QED BY <1>1, <1>4, <1>5 DEF StageInv

(* reset() forgets the tempo with the beat.                               *)
LEMMA ResetKeepsStage == BeatReset => StageInv'
<1> SUFFICES ASSUME BeatReset PROVE StageInv'
  OBVIOUS
<1>1. TrackerInv'
  BY ResetKeeps DEF BeatReset
<1>2. samples' = 0 /\ hops' = 0 /\ confident' = FALSE /\ above' = 0 /\ locked' = FALSE /\ confirmed' = 0
  BY DEF BeatReset
<1>3. 0 \in 0 .. (LockedHold * TempoUpdateHops)
  <2>1. LockedHold * TempoUpdateHops \in Nat
    BY BeatStageAssumption
  <2> QED BY <2>1
<1>4. BeatTypeOK'
  <2>1. samples' \in 0..WarmSamples /\ hops' \in 0 .. (TempoUpdateHops - 1)
        /\ confirmed' \in 0..LockedHold
    BY <1>2, BeatStageAssumption
  <2>2. confident' \in BOOLEAN /\ locked' \in BOOLEAN
    BY <1>2
  <2> QED BY <1>1, <1>2, <1>3, <2>1, <2>2 DEF BeatTypeOK, TrackerInv
<1>5. LockCounts'
  BY <1>2 DEF LockCounts, LockIsEarned
<1> QED BY <1>1, <1>4, <1>5 DEF StageInv

(* One frame: three cases, as confidence is lost or missing, comes up, or *)
(* stays; it can only come up with an update that was due.                *)
LEMMA ProcessKeepsStage ==
  ASSUME StageInv, BeatProcess
  PROVE  StageInv'
<1> DEFINE T == TempoUpdateHops
           H == LockedHold
           due == hops + 1 >= T
<1>1. PICK arg \in Periods : Track(arg)
  BY DEF BeatProcess
<1>2. TrackerInv'
  BY <1>1, TrackKeeps DEF StageInv
<1>3. /\ samples' = Least(samples + 1, WarmSamples)
      /\ hops' = IF due THEN 0 ELSE hops + 1
      /\ confident' \in IF due /\ Warm(samples') THEN BOOLEAN ELSE {confident}
      /\ above' = IF confident' THEN Least(above + 1, H * T) ELSE 0
      /\ locked' = (confident' /\ (locked \/ above' >= H * T))
      /\ confirmed' = IF ~confident' THEN 0
                      ELSE IF due THEN Least(confirmed + 1, H)
                      ELSE confirmed
  BY DEF BeatProcess, TempoUpdate, Push, Estimate
<1>4. /\ samples \in 0..WarmSamples /\ hops \in 0 .. (T - 1)
      /\ confident \in BOOLEAN /\ locked \in BOOLEAN
      /\ above \in 0 .. (H * T) /\ confirmed \in 0..H
  BY DEF StageInv, BeatTypeOK
<1>5. T \in Nat /\ T >= 1 /\ H \in Nat /\ H >= 1 /\ WarmSamples \in Nat
  BY BeatStageAssumption
<1>11. H * T \in Nat
  BY <1>5
<1>6. /\ ~confident => above = 0 /\ confirmed = 0 /\ ~locked
      /\ confident => confirmed >= 1 /\ (confirmed = H \/ above <= (confirmed - 1) * T + hops + 1)
      /\ locked => confirmed = H
  BY DEF StageInv, LockCounts, LockIsEarned
<1> HIDE DEF T, H
<1>7. confident' \in BOOLEAN /\ (confident' # confident => due)
  BY <1>3, <1>4
<1>8. BeatTypeOK'
  <2>1. samples' \in 0..WarmSamples
    BY <1>3, <1>4, <1>5 DEF Least
  <2>2. hops' \in 0 .. (T - 1)
    BY <1>3, <1>4, <1>5
  <2>3. above' \in 0 .. (H * T)
    BY <1>3, <1>4, <1>11, <1>7 DEF Least
  <2>4. confirmed' \in 0..H
    BY <1>3, <1>4, <1>5, <1>7 DEF Least
  <2>5. locked' \in BOOLEAN
    BY <1>3
  <2> QED BY <1>2, <1>7, <2>1, <2>2, <2>3, <2>4, <2>5 DEF BeatTypeOK, TrackerInv, T, H
<1>9. CASE ~confident'
  <2>1. above' = 0 /\ confirmed' = 0 /\ ~locked'
    BY <1>3, <1>9
  <2>2. LockCounts'
    BY <1>9, <2>1 DEF LockCounts, LockIsEarned
  <2> QED BY <1>2, <1>8, <2>2 DEF StageInv
<1>10. CASE confident'
  <2>1. /\ above' <= above + 1
        /\ hops' = IF due THEN 0 ELSE hops + 1
        /\ confirmed' = IF due THEN Least(confirmed + 1, H) ELSE confirmed
        /\ locked' => locked \/ above' >= H * T
    BY <1>3, <1>4, <1>5, <1>11, <1>10 DEF Least
  <2>2. above' \in Int /\ hops' \in Int /\ confirmed' \in Int /\ confirmed' <= H
    BY <1>8 DEF BeatTypeOK, T, H
  <2>3. confirmed' >= 1
    <3>1. CASE due
      BY <3>1, <1>4, <1>5, <2>1 DEF Least
    <3>2. CASE ~due
      BY <3>2, <1>6, <1>7, <1>10, <2>1
    <3> QED BY <3>1, <3>2
  <2>7. confirmed' \in Nat /\ confirmed' - 1 \in Nat /\ (confirmed' - 1) + 1 = confirmed'
    BY <2>2, <2>3, OneLess
  <2>4. confirmed' = H \/ above' <= (confirmed' - 1) * T + hops' + 1
    <3> SUFFICES ASSUME confirmed' # H
                 PROVE  above' <= (confirmed' - 1) * T + hops' + 1
      OBVIOUS
    <3>1. CASE ~confident
      <4>1. due
        BY <3>1, <1>7, <1>10
      <4>2. above' <= 1 /\ hops' = 0
        BY <3>1, <4>1, <1>6, <2>1
      <4>3. confirmed' - 1 \in Nat
        BY <2>7
      <4>4. (confirmed' - 1) * T \in Nat
        BY <4>3, <1>5
      <4> QED BY <4>2, <4>4, <2>2
    <3>2. CASE confident /\ due
      <4>1. confirmed' = confirmed + 1 /\ hops' = 0 /\ hops = T - 1
        BY <3>2, <2>1, <1>4, <1>5 DEF Least
      <4>2. above <= (confirmed - 1) * T + hops + 1
        BY <3>2, <4>1, <1>4, <1>5, <1>6, <2>2
      <4>3. ((confirmed - 1) + 1) * T = (confirmed - 1) * T + T
        BY <1>4, <1>5, <1>6, <3>2, OneMoreInterval
      <4>4. (confirmed' - 1) * T = (confirmed - 1) * T + T
        BY <4>1, <4>3, <1>4
      <4>5. (confirmed - 1) * T \in Int
        BY <1>4, <1>5
      <4> QED BY <4>1, <4>2, <4>4, <4>5, <2>1, <2>2, <1>4, <1>5
    <3>3. CASE confident /\ ~due
      <4>1. confirmed' = confirmed /\ hops' = hops + 1
        BY <3>3, <2>1
      <4>2. (confirmed - 1) * T \in Int
        BY <1>4, <1>5
      <4> QED BY <3>3, <4>1, <4>2, <2>1, <2>2, <1>4, <1>6
    <3> QED BY <3>1, <3>2, <3>3
  <2>5. locked' => confirmed' = H
    <3> SUFFICES ASSUME locked', confirmed' # H PROVE FALSE
      OBVIOUS
    <3>1. CASE locked
      BY <3>1, <1>4, <1>5, <1>6, <2>1 DEF Least
    <3>2. CASE above' >= H * T
      <4>1. confirmed' < H
        BY <2>2, <1>5
      <4>2. confirmed' * T <= (H - 1) * T
        <5>1. T \in Nat \ {0} /\ H \in Nat \ {0}
          BY BeatStageAssumption DEF T, H
        <5> QED BY <4>1, <5>1, <2>7, FewerIntervals, Zenon
      <4>3. confirmed' * T = (confirmed' - 1) * T + T
        BY <2>7, <1>5, OneMoreInterval
      <4>4. H * T = (H - 1) * T + T
        BY <1>5, OneMoreInterval
      <4> DEFINE most == (confirmed' - 1) * T
                 held == (H - 1) * T
                 all == H * T
      <4>5. most \in Int /\ held \in Int /\ all \in Int
        BY <2>7, <1>5, <1>11
      <4>6. hops' <= T - 1
        BY <1>8 DEF BeatTypeOK, T
      <4>7. above' <= most + hops' + 1
        BY <2>4
      <4>8. most + T <= held /\ all = held + T
        BY <4>2, <4>3, <4>4
      <4> HIDE DEF most, held, all
      <4>9. most + T < all
        BY <4>5, <4>8, <1>5
      <4>10. above' < all
        <5>1. T \in Int
          BY <1>5
        <5> QED BY <4>5, <4>6, <4>7, <4>9, <2>2, <5>1, NotAllOfIt, Zenon
      <4> QED BY <4>10, <4>5, <3>2, <2>2 DEF all
    <3> QED BY <2>1, <3>1, <3>2
  <2>6. LockCounts'
    BY <1>10, <2>3, <2>4, <2>5 DEF LockCounts, LockIsEarned, T, H
  <2> QED BY <1>2, <1>8, <2>6 DEF StageInv
<1> QED BY <1>7, <1>9, <1>10

(* Steps that leave the beat stage alone.                                 *)
LEMMA IdleKeepsStage ==
  StageInv /\ UNCHANGED <<trackerVars, tempoVars>> => StageInv'
<1> SUFFICES ASSUME StageInv, UNCHANGED <<trackerVars, tempoVars>> PROVE StageInv'
  OBVIOUS
<1>1. TrackerInv'
  BY StutterKeeps DEF StageInv
<1> QED BY <1>1 DEF StageInv, BeatTypeOK, LockCounts, LockIsEarned, TrackerInv, tempoVars

(* Locked is shown only after as many updates as the hold asks for, in    *)
(* every order of frames, exceptions, edits and restarts.                 *)
THEOREM LockIsAlwaysEarned == Spec => []BeatInv
<1>1. Init => StageInv
  BY InitStage DEF Init
<1>2. StageInv /\ [Next]_vars => StageInv'
  <2> SUFFICES ASSUME StageInv, [Next]_vars PROVE StageInv'
    OBVIOUS
  <2>1. CASE \E bad \in BOOLEAN : Analyse(bad)
    BY <2>1, ProcessKeepsStage DEF Analyse
  <2>2. CASE \E s \in Throwing, bad \in BOOLEAN : StageThrows(s, bad)
    BY <2>2, IdleKeepsStage DEF StageThrows
  <2>3. CASE Edit
    BY <2>3, IdleKeepsStage DEF Edit
  <2>4. CASE Restart
    BY <2>4, ResetKeepsStage DEF Restart
  <2>5. CASE UNCHANGED vars
    BY <2>5, IdleKeepsStage DEF vars
  <2> QED BY <2>1, <2>2, <2>3, <2>4, <2>5 DEF Next
<1>3. StageInv => BeatInv
  BY DEF StageInv, BeatInv, LockCounts
<1> QED BY <1>1, <1>2, <1>3, PTL DEF Spec

-------------------------------------------------------------------------------
(* The stages.  F is the set of streams fed since the reset; B bounds the *)
(* raw fields of the frame, O its onset, K and K2 what the onset function *)
(* remembers.                                                             *)

Limits(F, B, O) ==
  /\ F \subseteq Nat /\ F \subseteq B /\ B \subseteq F \cup {Nan}
  /\ F \subseteq O

Fits(x, F, B, O, K, K2) ==
  /\ x.format \in {0, 1}
  /\ x.mem \in Memory(F, K, K2) /\ x.mem.csd.mag = x.mem.csd.phase
  /\ Within(x.fields, F, B, O)

(* Putting fields leaves the others, the format and the memory.           *)
LEMMA PutIs ==
  ASSUME NEW x, NEW names, NEW value
  PROVE  /\ Put(x, names, value).mem = x.mem
         /\ Put(x, names, value).format = x.format
         /\ DOMAIN Put(x, names, value).fields = names \cup DOMAIN x.fields
         /\ \A f \in names : Put(x, names, value).fields[f] = value
         /\ \A f \in DOMAIN x.fields \ names :
              Put(x, names, value).fields[f] = x.fields[f]
BY DEF Put

(* Keeping a memory leaves the fields and the format.                     *)
LEMMA KeepIs ==
  ASSUME NEW x, NEW m
  PROVE  Keep(x, m).mem = m /\ Keep(x, m).format = x.format
         /\ Keep(x, m).fields = x.fields
BY DEF Keep

(* A value within the bounds of the fields it is put in.                  *)
LEMMA PutWithin ==
  ASSUME NEW F, NEW B, NEW O, NEW x, NEW names, NEW value,
         Within(x.fields, F, B, O),
         \A f \in names : value \subseteq Bound(f, F, B, O)
  PROVE  Within(Put(x, names, value).fields, F, B, O)
<1> SUFFICES ASSUME NEW f \in DOMAIN Put(x, names, value).fields
             PROVE  Put(x, names, value).fields[f] \subseteq Bound(f, F, B, O)
  BY DEF Within
<1>1. CASE f \in names
  BY <1>1, PutIs
<1>2. CASE f \in DOMAIN x.fields \ names
  BY <1>2, PutIs DEF Within
<1> QED BY <1>1, <1>2, PutIs

(* A field that was written is read within its bound.                     *)
LEMMA GetWithin ==
  ASSUME NEW F, NEW B, NEW O, NEW x, NEW f,
         Within(x.fields, F, B, O), f \in DOMAIN x.fields
  PROVE  Get(x, f) \subseteq Bound(f, F, B, O)
BY DEF Get, Within

(* The bounds of the fields by name.                                      *)
LEMMA Bounds ==
  ASSUME NEW F, NEW B, NEW O
  PROVE  /\ \A f \in RawFields : Bound(f, F, B, O) = B
         /\ Bound("Onset", F, B, O) = O
         /\ Bound("Direction8", F, B, O) = Nat
         /\ \A f : f \notin RawFields \cup {"Onset", "Direction8"} =>
              Bound(f, F, B, O) = F
BY DEF Bound, RawFields

(* A comparison lets nothing through but streams.                         *)
LEMMA SaneIs ==
  ASSUME NEW F, NEW v, v \subseteq F \cup {Nan}
  PROVE  Sane(v) \subseteq F
BY DEF Sane

(* VolumeStage: levels of the two channels as they are, the others sane.  *)
LEMMA VolumeFits ==
  ASSUME NEW F, NEW B, NEW O, NEW K, NEW K2, NEW x,
         Limits(F, B, O), Fits(x, F, B, O, K, K2),
         "Samples" \in DOMAIN x.fields
  PROVE  /\ Fits(Volume(x), F, B, O, K, K2)
         /\ DOMAIN Volume(x).fields =
              {"Volume", "VolumeLeft", "VolumeRight", "VolumeNorm", "VolumeAtt"}
                \cup DOMAIN x.fields
<1> DEFINE M == x.mem
           heard == Get(x, "Samples")
           mean == x.mem.volume \cup Sane(heard)
           y == Put(x, {"Volume"}, Sane(heard))
           z == Put(y, {"VolumeLeft", "VolumeRight"}, heard)
           w == Put(z, {"VolumeNorm", "VolumeAtt"}, mean)
           m == [M EXCEPT !.volume = mean]
<1>1. Volume(x) = Keep(w, m)
  BY DEF Volume
<1>2. heard \subseteq B /\ Sane(heard) \subseteq F
  <2>1. Bound("Samples", F, B, O) = B
    BY DEF Bound, RawFields
  <2>2. heard \subseteq B
    BY <2>1, GetWithin DEF Fits
  <2> QED BY <2>2, SaneIs DEF Limits
<1>3. mean \in SUBSET F
  BY <1>2 DEF Fits, Memory
<1>11. M \in Memory(F, K, K2) /\ M.csd.mag = M.csd.phase
  BY DEF Fits
<1> HIDE DEF M, mean
<1>4. m \in Memory(F, K, K2) /\ m.csd = M.csd
  BY <1>3, <1>11 DEF Memory
<1>5. \A f \in {"Volume", "VolumeNorm", "VolumeAtt"} : Bound(f, F, B, O) = F
  BY DEF Bound, RawFields
<1>6. \A f \in {"VolumeLeft", "VolumeRight"} : Bound(f, F, B, O) = B
  BY DEF Bound, RawFields
<1> HIDE DEF heard, m
<1>7. Within(y.fields, F, B, O)
  BY <1>2, <1>5, PutWithin DEF Fits
<1>8. Within(z.fields, F, B, O)
  BY <1>2, <1>6, <1>7, PutWithin
<1>9. Within(w.fields, F, B, O)
  BY <1>3, <1>5, <1>8, PutWithin
<1>10. /\ w.format = x.format
       /\ DOMAIN w.fields = {"VolumeNorm", "VolumeAtt"} \cup
            ({"VolumeLeft", "VolumeRight"} \cup ({"Volume"} \cup DOMAIN x.fields))
  BY PutIs
<1> HIDE DEF w
<1> QED BY <1>1, <1>4, <1>9, <1>10, <1>11, KeepIs DEF Fits

(* FftStage: the spectrum is what the samples are.                        *)
LEMMA FftFits ==
  ASSUME NEW F, NEW B, NEW O, NEW K, NEW K2, NEW x,
         Limits(F, B, O), Fits(x, F, B, O, K, K2),
         "Samples" \in DOMAIN x.fields, settings \in Settings
  PROVE  /\ Fits(Fft(x), F, B, O, K, K2)
         /\ DOMAIN Fft(x).fields = {"Magnitudes", "Phases"} \cup DOMAIN x.fields
<1> DEFINE M == x.mem
           heard == Get(x, "Samples")
           w == Put(x, {"Magnitudes", "Phases"}, heard)
           m == [M EXCEPT !.bins = settings.fft]
<1>1. Fft(x) = Keep(w, m)
  BY DEF Fft
<1>2. \A f \in {"Samples", "Magnitudes", "Phases"} : Bound(f, F, B, O) = B
  BY DEF Bound, RawFields
<1>3. heard \subseteq B
  BY <1>2, GetWithin DEF Fits
<1>4. settings.fft \in Sizes
  BY DEF Sizes
<1>5. M \in Memory(F, K, K2) /\ M.csd.mag = M.csd.phase
  BY DEF Fits
<1> HIDE DEF heard, M
<1>6. m \in Memory(F, K, K2) /\ m.csd = M.csd
  BY <1>4, <1>5 DEF Memory
<1>7. Within(w.fields, F, B, O)
  BY <1>2, <1>3, PutWithin DEF Fits
<1>8. w.format = x.format /\ DOMAIN w.fields = {"Magnitudes", "Phases"} \cup DOMAIN x.fields
  BY PutIs
<1> HIDE DEF w, m
<1> QED BY <1>1, <1>5, <1>6, <1>7, <1>8, KeepIs DEF Fits

(* BandsStage: the bands are sane.                                        *)
LEMMA BandsFit ==
  ASSUME NEW F, NEW B, NEW O, NEW K, NEW K2, NEW x,
         Limits(F, B, O), Fits(x, F, B, O, K, K2),
         "Magnitudes" \in DOMAIN x.fields
  PROVE  /\ Fits(Bands(x), F, B, O, K, K2)
         /\ DOMAIN Bands(x).fields = {"RawBands", "Bands16", "Bands32"} \cup DOMAIN x.fields
<1> DEFINE read == Get(x, "Magnitudes")
           value == Sane(read)
<1>1. Bands(x) = Put(x, {"RawBands", "Bands16", "Bands32"}, value)
  BY DEF Bands
<1>2. Bound("Magnitudes", F, B, O) = B /\ \A f \in {"RawBands", "Bands16", "Bands32"} : Bound(f, F, B, O) = F
  BY DEF Bound, RawFields
<1>3. value \subseteq F
  <2>1. read \subseteq B
    BY <1>2, GetWithin DEF Fits
  <2> QED BY <2>1, SaneIs DEF Limits
<1> HIDE DEF value
<1>4. Within(Put(x, {"RawBands", "Bands16", "Bands32"}, value).fields, F, B, O)
  BY <1>2, <1>3, PutWithin DEF Fits
<1> QED BY <1>1, <1>4, PutIs DEF Fits

(* LogBoostStage: the bands again.                                        *)
LEMMA LogBoostFits ==
  ASSUME NEW F, NEW B, NEW O, NEW K, NEW K2, NEW x,
         Limits(F, B, O), Fits(x, F, B, O, K, K2),
         "RawBands" \in DOMAIN x.fields
  PROVE  /\ Fits(LogBoost(x), F, B, O, K, K2)
         /\ DOMAIN LogBoost(x).fields = {"RawBands"} \cup DOMAIN x.fields
<1> DEFINE read == Get(x, "RawBands")
           value == read
<1>1. LogBoost(x) = Put(x, {"RawBands"}, value)
  BY DEF LogBoost
<1>2. Bound("RawBands", F, B, O) = F /\ \A f \in {"RawBands"} : Bound(f, F, B, O) = F
  BY DEF Bound, RawFields
<1>3. value \subseteq F
  <2>1. read \subseteq F
    BY <1>2, GetWithin DEF Fits
  <2> QED BY <2>1, SaneIs DEF Limits
<1> HIDE DEF value
<1>4. Within(Put(x, {"RawBands"}, value).fields, F, B, O)
  BY <1>2, <1>3, PutWithin DEF Fits
<1> QED BY <1>1, <1>4, PutIs DEF Fits

(* EqualizerStage: the bands with the gains.                              *)
LEMMA EqualizerFits ==
  ASSUME NEW F, NEW B, NEW O, NEW K, NEW K2, NEW x,
         Limits(F, B, O), Fits(x, F, B, O, K, K2),
         "RawBands" \in DOMAIN x.fields
  PROVE  /\ Fits(Equalizer(x), F, B, O, K, K2)
         /\ DOMAIN Equalizer(x).fields = {"Bands"} \cup DOMAIN x.fields
<1> DEFINE read == Get(x, "RawBands")
           value == read
<1>1. Equalizer(x) = Put(x, {"Bands"}, value)
  BY DEF Equalizer
<1>2. Bound("RawBands", F, B, O) = F /\ \A f \in {"Bands"} : Bound(f, F, B, O) = F
  BY DEF Bound, RawFields
<1>3. value \subseteq F
  <2>1. read \subseteq F
    BY <1>2, GetWithin DEF Fits
  <2> QED BY <2>1, SaneIs DEF Limits
<1> HIDE DEF value
<1>4. Within(Put(x, {"Bands"}, value).fields, F, B, O)
  BY <1>2, <1>3, PutWithin DEF Fits
<1> QED BY <1>1, <1>4, PutIs DEF Fits

(* SpectralCentroidStage: sane.                                           *)
LEMMA SpectralCentroidFits ==
  ASSUME NEW F, NEW B, NEW O, NEW K, NEW K2, NEW x,
         Limits(F, B, O), Fits(x, F, B, O, K, K2),
         "Magnitudes" \in DOMAIN x.fields
  PROVE  /\ Fits(SpectralCentroid(x), F, B, O, K, K2)
         /\ DOMAIN SpectralCentroid(x).fields = {"SpectralCentroid"} \cup DOMAIN x.fields
<1> DEFINE read == Get(x, "Magnitudes")
           value == Sane(read)
<1>1. SpectralCentroid(x) = Put(x, {"SpectralCentroid"}, value)
  BY DEF SpectralCentroid
<1>2. Bound("Magnitudes", F, B, O) = B /\ \A f \in {"SpectralCentroid"} : Bound(f, F, B, O) = F
  BY DEF Bound, RawFields
<1>3. value \subseteq F
  <2>1. read \subseteq B
    BY <1>2, GetWithin DEF Fits
  <2> QED BY <2>1, SaneIs DEF Limits
<1> HIDE DEF value
<1>4. Within(Put(x, {"SpectralCentroid"}, value).fields, F, B, O)
  BY <1>2, <1>3, PutWithin DEF Fits
<1> QED BY <1>1, <1>4, PutIs DEF Fits

(* BandNormStage: after the equalizer the bands are never empty.          *)
LEMMA BandNormFits ==
  ASSUME NEW F, NEW B, NEW O, NEW K, NEW K2, NEW x,
         Limits(F, B, O), Fits(x, F, B, O, K, K2),
         "Bands" \in DOMAIN x.fields
  PROVE  /\ Fits(BandNorm(x), F, B, O, K, K2)
         /\ DOMAIN BandNorm(x).fields = BandFields \cup DOMAIN x.fields
<1> DEFINE M == x.mem
           read == Get(x, "Bands")
           mean == M.bands \cup read
           w == Put(x, BandFields, mean)
           m == [M EXCEPT !.bands = mean]
<1>1. Bound("Bands", F, B, O) = F /\ \A f \in BandFields : Bound(f, F, B, O) = F
  BY DEF Bound, RawFields, BandFields
<1>2. read \subseteq F
  BY <1>1, GetWithin DEF Fits
<1>3. BandNorm(x) = Keep(w, m)
  <2>1. read # {Missing}
    BY <1>2, DspAssumption DEF Limits
  <2> QED BY <2>1 DEF BandNorm
<1>4. M \in Memory(F, K, K2) /\ M.csd.mag = M.csd.phase
  BY DEF Fits
<1>5. mean \in SUBSET F
  BY <1>2, <1>4 DEF Memory
<1> HIDE DEF M, mean
<1>6. m \in Memory(F, K, K2) /\ m.csd = M.csd
  BY <1>4, <1>5 DEF Memory
<1>7. Within(w.fields, F, B, O)
  BY <1>1, <1>5, PutWithin DEF Fits
<1>8. w.format = x.format /\ DOMAIN w.fields = BandFields \cup DOMAIN x.fields
  BY PutIs
<1> HIDE DEF w, m
<1> QED BY <1>3, <1>4, <1>6, <1>7, <1>8, KeepIs DEF Fits

(* FluxStage: only what was sane of the spectrum before.                  *)
LEMMA FluxFits ==
  ASSUME NEW F, NEW B, NEW O, NEW K, NEW K2, NEW x,
         Limits(F, B, O), Fits(x, F, B, O, K, K2),
         "Magnitudes" \in DOMAIN x.fields
  PROVE  /\ Fits(Flux(x), F, B, O, K, K2)
         /\ DOMAIN Flux(x).fields = FluxFields \cup DOMAIN x.fields
<1> DEFINE M == x.mem
           mags == Sane(Get(x, "Magnitudes"))
           known == M.flux.size = M.bins
           now == [size |-> M.bins, prev |-> IF known THEN mags ELSE {}]
           value == IF known THEN mags \cup M.flux.prev ELSE {}
           w == Put(x, FluxFields, value)
           m == [M EXCEPT !.flux = now]
<1>1. Bound("Magnitudes", F, B, O) = B /\ \A f \in FluxFields : Bound(f, F, B, O) = F
  BY DEF Bound, RawFields, FluxFields
<1>2. Flux(x) = Keep(w, m)
  BY DEF Flux
<1>3. mags \subseteq F
  <2>1. Get(x, "Magnitudes") \subseteq B
    BY <1>1, GetWithin DEF Fits
  <2> QED BY <2>1, SaneIs DEF Limits
<1>4. M \in Memory(F, K, K2) /\ M.csd.mag = M.csd.phase
  BY DEF Fits
<1> HIDE DEF M, mags
<1>5. now \in [size : Sizes, prev : SUBSET F] /\ value \subseteq F
  BY <1>3, <1>4 DEF Memory
<1> HIDE DEF now, value
<1>6. m \in Memory(F, K, K2) /\ m.csd = M.csd
  BY <1>4, <1>5 DEF Memory
<1>7. Within(w.fields, F, B, O)
  BY <1>1, <1>5, PutWithin DEF Fits
<1>8. w.format = x.format /\ DOMAIN w.fields = FluxFields \cup DOMAIN x.fields
  BY PutIs
<1> HIDE DEF w, m
<1> QED BY <1>2, <1>4, <1>6, <1>7, <1>8, KeepIs DEF Fits, M

(* ChronotensityStage: the three phases of what was heard.                *)
LEMMA ChronotensityFits ==
  ASSUME NEW F, NEW B, NEW O, NEW K, NEW K2, NEW x,
         Limits(F, B, O), Fits(x, F, B, O, K, K2),
         {"VolumeNorm", "BassNorm", "TrebNorm"} \subseteq DOMAIN x.fields
  PROVE  /\ Fits(Chronotensity(x), F, B, O, K, K2)
         /\ DOMAIN Chronotensity(x).fields =
              {"PhaseVolume", "PhaseBass", "PhaseTreble"} \cup DOMAIN x.fields
<1> DEFINE M == x.mem
           names == {"PhaseVolume", "PhaseBass", "PhaseTreble"}
           phases == M.phases \cup Get(x, "VolumeNorm") \cup Get(x, "BassNorm")
                       \cup Get(x, "TrebNorm")
           w == Put(x, names, phases)
           m == [M EXCEPT !.phases = phases]
<1>1. \A f \in names \cup {"VolumeNorm", "BassNorm", "TrebNorm"} : Bound(f, F, B, O) = F
  BY DEF Bound, RawFields
<1>2. Chronotensity(x) = Keep(w, m)
  BY DEF Chronotensity
<1>3. \A f \in {"VolumeNorm", "BassNorm", "TrebNorm"} : Get(x, f) \subseteq F
  BY <1>1, GetWithin DEF Fits
<1>4. M \in Memory(F, K, K2) /\ M.csd.mag = M.csd.phase
  BY DEF Fits
<1>5. phases \in SUBSET F
  BY <1>3, <1>4 DEF Memory
<1> HIDE DEF M, phases
<1>6. m \in Memory(F, K, K2) /\ m.csd = M.csd
  BY <1>4, <1>5 DEF Memory
<1>7. Within(w.fields, F, B, O)
  BY <1>1, <1>5, PutWithin DEF Fits
<1>8. w.format = x.format /\ DOMAIN w.fields = names \cup DOMAIN x.fields
  BY PutIs
<1> HIDE DEF w, m
<1> QED BY <1>2, <1>4, <1>6, <1>7, <1>8, KeepIs DEF Fits

(* PanStage: the levels of the channels, once they are compared.          *)
LEMMA PanFits ==
  ASSUME NEW F, NEW B, NEW O, NEW K, NEW K2, NEW x,
         Limits(F, B, O), Fits(x, F, B, O, K, K2),
         {"VolumeLeft", "VolumeRight"} \subseteq DOMAIN x.fields
  PROVE  /\ Fits(Pan(x), F, B, O, K, K2)
         /\ DOMAIN Pan(x).fields = {"AudioPan"} \cup DOMAIN x.fields
<1> DEFINE M == x.mem
           now == Sane(Get(x, "VolumeLeft") \cup Get(x, "VolumeRight"))
           smoothed == IF M.pan = <<>> THEN now ELSE M.pan[1] \cup now
           value == IF settings.smoothing THEN smoothed ELSE now
           left == IF settings.smoothing THEN <<smoothed>> ELSE <<>>
           w == Put(x, {"AudioPan"}, value)
           m == [M EXCEPT !.pan = left]
<1>1. /\ \A f \in {"VolumeLeft", "VolumeRight"} : Bound(f, F, B, O) = B
      /\ Bound("AudioPan", F, B, O) = F
  BY DEF Bound, RawFields
<1>2. Pan(x) = Keep(w, m)
  BY DEF Pan
<1>3. now \subseteq F
  <2>1. Get(x, "VolumeLeft") \subseteq B /\ Get(x, "VolumeRight") \subseteq B
    BY <1>1, GetWithin DEF Fits
  <2>2. Get(x, "VolumeLeft") \cup Get(x, "VolumeRight") \subseteq F \cup {Nan}
    BY <2>1 DEF Limits
  <2> QED BY <2>2, SaneIs
<1>4. M \in Memory(F, K, K2) /\ M.csd.mag = M.csd.phase
  BY DEF Fits
<1> HIDE DEF M, now
<1>5. smoothed \in SUBSET F
  <2>1. M.pan \in {<<>>} \cup {<<v>> : v \in SUBSET F}
    BY <1>4 DEF Memory
  <2>2. M.pan # <<>> => M.pan[1] \subseteq F
    BY <2>1
  <2> QED BY <1>3, <2>2
<1> HIDE DEF smoothed
<1>9. value \subseteq F /\ left \in {<<>>} \cup {<<v>> : v \in SUBSET F}
  BY <1>3, <1>5
<1> HIDE DEF value, left
<1>6. m \in Memory(F, K, K2) /\ m.csd = M.csd
  BY <1>4, <1>9 DEF Memory
<1>7. Within(w.fields, F, B, O)
  BY <1>1, <1>9, PutWithin DEF Fits
<1>8. w.format = x.format /\ DOMAIN w.fields = {"AudioPan"} \cup DOMAIN x.fields
  BY PutIs
<1> HIDE DEF w, m
<1> QED BY <1>2, <1>4, <1>6, <1>7, <1>8, KeepIs DEF Fits, M

(* DirectionalStage: remembers streams of before the reset too.           *)
LEMMA DirectionalFits ==
  ASSUME NEW F, NEW B, NEW O, NEW K, NEW K2, NEW x,
         Limits(F, B, O), Fits(x, F, B, O, K, K2),
         "Samples" \in DOMAIN x.fields
  PROVE  /\ Fits(Directional(x), F, B, O, K, K2)
         /\ DOMAIN Directional(x).fields = {"Direction8"} \cup DOMAIN x.fields
<1> DEFINE M == x.mem
           now == Sane(Get(x, "Samples"))
           smoothed == IF settings.smoothing THEN M.direction \cup now ELSE now
           w == Put(x, {"Direction8"}, smoothed)
           m == [M EXCEPT !.direction = smoothed]
<1>1. Bound("Samples", F, B, O) = B /\ Bound("Direction8", F, B, O) = Nat
  BY DEF Bound, RawFields
<1>2. Directional(x) = Keep(w, m)
  BY DEF Directional, Directed
<1>3. now \subseteq F
  <2>1. Get(x, "Samples") \subseteq B
    BY <1>1, GetWithin DEF Fits
  <2> QED BY <2>1, SaneIs DEF Limits
<1>4. M \in Memory(F, K, K2) /\ M.csd.mag = M.csd.phase
  BY DEF Fits
<1> HIDE DEF M, now
<1>5. smoothed \in SUBSET Nat
  <2>1. M.direction \subseteq Nat
    BY <1>4 DEF Memory
  <2>2. now \subseteq Nat
    BY <1>3 DEF Limits
  <2> QED BY <2>1, <2>2
<1> HIDE DEF smoothed
<1>6. m \in Memory(F, K, K2) /\ m.csd = M.csd
  BY <1>4, <1>5 DEF Memory
<1>7. Within(w.fields, F, B, O)
  BY <1>1, <1>5, PutWithin DEF Fits
<1>8. w.format = x.format /\ DOMAIN w.fields = {"Direction8"} \cup DOMAIN x.fields
  BY PutIs
<1> HIDE DEF w, m
<1> QED BY <1>2, <1>4, <1>6, <1>7, <1>8, KeepIs DEF Fits, M

(* LoudnessStage: a NaN stays in the sum and is never published.          *)
LEMMA LoudnessFits ==
  ASSUME NEW F, NEW B, NEW O, NEW K, NEW K2, NEW x,
         Limits(F, B, O), Fits(x, F, B, O, K, K2),
         "Samples" \in DOMAIN x.fields, settings \in Settings
  PROVE  /\ Fits(Loudness(x), F, B, O, K, K2)
         /\ DOMAIN Loudness(x).fields = {"Loudness"} \cup DOMAIN x.fields
<1> DEFINE M == x.mem
           key == <<x.format, settings.window>>
           sum == Get(x, "Samples") \cup (IF M.loudness.key = key THEN M.loudness.sum ELSE {})
           left == [key |-> key, sum |-> sum]
           w == Put(x, {"Loudness"}, Sane(sum))
           m == [M EXCEPT !.loudness = left]
<1>1. Bound("Samples", F, B, O) = B /\ Bound("Loudness", F, B, O) = F
  BY DEF Bound, RawFields
<1>2. Loudness(x) = Keep(w, m)
  BY DEF Loudness
<1>3. M \in Memory(F, K, K2) /\ M.csd.mag = M.csd.phase /\ x.format \in {0, 1}
  BY DEF Fits
<1>4. sum \subseteq F \cup {Nan}
  <2>1. Get(x, "Samples") \subseteq B
    BY <1>1, GetWithin DEF Fits
  <2>2. M.loudness.sum \subseteq F \cup {Nan}
    BY <1>3 DEF Memory
  <2> QED BY <2>1, <2>2 DEF Limits
<1>5. key \in LoudnessKeys
  BY <1>3 DEF LoudnessKeys
<1> HIDE DEF M, key, sum
<1>6. left \in [key : LoudnessKeys, sum : SUBSET (F \cup {Nan})]
  BY <1>4, <1>5
<1>7. Sane(sum) \subseteq F
  BY <1>4, SaneIs
<1> HIDE DEF left
<1>8. m \in Memory(F, K, K2) /\ m.csd = M.csd
  BY <1>3, <1>6 DEF Memory
<1>9. Within(w.fields, F, B, O)
  BY <1>1, <1>7, PutWithin DEF Fits
<1>10. w.format = x.format /\ DOMAIN w.fields = {"Loudness"} \cup DOMAIN x.fields
  BY PutIs
<1> HIDE DEF w, m
<1> QED BY <1>2, <1>3, <1>8, <1>9, <1>10, KeepIs DEF Fits, M

(* BeatStage: the onset is nothing where a magnitude is not a number; the *)
(* phases of two frames ago are what may taint it.                        *)
LEMMA BeatFits ==
  ASSUME NEW F, NEW B, NEW O, NEW K, NEW K2, NEW x,
         Limits(F, B, O), Fits(x, F, B, O, K, K2), K2 \subseteq O,
         K \subseteq F \cup {Nan}, K2 \subseteq F \cup {Nan},
         "Magnitudes" \in DOMAIN x.fields
  PROVE  /\ Fits(Beat(x), F, B, O, B, K)
         /\ DOMAIN Beat(x).fields =
              {"Onset"} \cup ({"BeatPulseStrength"} \cup (BeatFields \cup DOMAIN x.fields))
<1> DEFINE M == x.mem
           mags == Get(x, "Magnitudes")
           c == CsdSized(M.csd, M.bins)
           next == CsdNext(M.csd, M.bins, mags)
           onset == Csd(M.csd, M.bins, mags)
           heard == M.onsets \cup Sane(onset)
           y == Put(x, BeatFields, heard)
           z == Put(y, {"BeatPulseStrength"}, {})
           w == Put(z, {"Onset"}, onset)
           n == [M EXCEPT !.onsets = heard]
           m == [n EXCEPT !.csd = next]
<1>1. /\ Bound("Magnitudes", F, B, O) = B /\ Bound("Onset", F, B, O) = O
      /\ \A f \in BeatFields : Bound(f, F, B, O) = F
      /\ Bound("BeatPulseStrength", F, B, O) = F
  BY DEF Bound, RawFields, BeatFields
<1>2. Beat(x) = Keep(w, m)
  BY DEF Beat
<1>3. M \in Memory(F, K, K2) /\ M.csd.mag = M.csd.phase
  BY DEF Fits
<1>4. mags \subseteq B
  BY <1>1, GetWithin DEF Fits
<1> HIDE DEF M, mags
<1>5. /\ c.size \in Sizes /\ c.seen \in 0..2 /\ c.mag \subseteq K /\ c.phase \subseteq K
      /\ c.phase2 \subseteq K2 /\ c.mag = c.phase /\ M.bins \in Sizes
  <2>1. /\ M.bins \in Sizes
        /\ M.csd \in [size : Sizes, seen : 0..2, mag : SUBSET K, phase : SUBSET K,
                      phase2 : SUBSET K2]
    BY <1>3 DEF Memory
  <2>2. CASE M.csd.size = M.bins
    BY <2>1, <2>2, <1>3 DEF CsdSized
  <2>3. CASE M.csd.size # M.bins
    BY <2>1, <2>3 DEF CsdSized, CsdReset
  <2> QED BY <2>2, <2>3
<1>6. next = [size |-> M.bins, seen |-> Least(c.seen + 1, 2), mag |-> mags,
              phase |-> mags, phase2 |-> c.phase]
  BY DEF CsdNext
<1>7. onset = IF c.seen < 2 \/ Nan \in mags \cup c.mag THEN {}
              ELSE mags \cup c.mag \cup c.phase \cup c.phase2
  BY DEF Csd
<1> HIDE DEF c, next, onset
<1>8. onset \subseteq F \cup K2
  <2>1. CASE c.seen < 2 \/ Nan \in mags \cup c.mag
    BY <2>1, <1>7
  <2>2. CASE ~(c.seen < 2 \/ Nan \in mags \cup c.mag)
    <3>1. mags \subseteq F /\ c.mag \subseteq F
      BY <2>2, <1>4, <1>5 DEF Limits
    <3> QED BY <3>1, <2>2, <1>5, <1>7
  <2> QED BY <2>1, <2>2
<1>9. onset \subseteq O /\ heard \in SUBSET F
  <2>1. Sane(onset) \subseteq F
    <3>1. onset \subseteq F \cup {Nan}
      BY <1>8
    <3> QED BY <3>1, SaneIs
  <2>2. M.onsets \subseteq F
    BY <1>3 DEF Memory
  <2> QED BY <1>8, <2>1, <2>2 DEF Limits
<1>10. next \in [size : Sizes, seen : 0..2, mag : SUBSET B, phase : SUBSET B, phase2 : SUBSET K]
  <2>1. Least(c.seen + 1, 2) \in 0..2
    BY <1>5 DEF Least
  <2> QED BY <1>4, <1>5, <1>6, <2>1
<1>11. next.mag = next.phase
  BY <1>6
<1> HIDE DEF heard
<1>12. n \in Memory(F, K, K2)
  BY <1>3, <1>9 DEF Memory
<1> HIDE DEF n
<1>13. m \in Memory(F, B, K) /\ m.csd = next
  BY <1>10, <1>12 DEF Memory
<1>14. Within(y.fields, F, B, O)
  BY <1>1, <1>9, PutWithin DEF Fits
<1>15. Within(z.fields, F, B, O)
  BY <1>1, <1>14, PutWithin
<1>16. Within(w.fields, F, B, O)
  BY <1>1, <1>9, <1>15, PutWithin
<1>17. /\ w.format = x.format
       /\ DOMAIN w.fields =
            {"Onset"} \cup ({"BeatPulseStrength"} \cup (BeatFields \cup DOMAIN x.fields))
  BY PutIs
<1> HIDE DEF w, m
<1> QED BY <1>2, <1>11, <1>13, <1>16, <1>17, KeepIs DEF Fits

(* What the stages up to "bands" and up to "equalizer" make of a frame.   *)
LEMMA UpToFits ==
  ASSUME NEW F, NEW B, NEW O, NEW K, NEW K2, NEW x,
         Limits(F, B, O), Fits(x, F, B, O, K, K2),
         "Samples" \in DOMAIN x.fields, settings \in Settings
  PROVE  /\ Fits(UpToBands(x), F, B, O, K, K2)
         /\ Fits(UpToEqualizer(x), F, B, O, K, K2)
         /\ DOMAIN UpToEqualizer(x).fields =
              Writes("volume") \cup Writes("fft") \cup Writes("bands") \cup DOMAIN x.fields
<1> DEFINE a == Volume(x)
           b == Fft(a)
           c == Bands(b)
           d == LogBoost(c)
<1>1. /\ Writes("volume") = {"Volume", "VolumeLeft", "VolumeRight", "VolumeNorm", "VolumeAtt"}
      /\ Writes("fft") = {"Magnitudes", "Phases"}
      /\ Writes("bands") = {"RawBands", "Bands16", "Bands32"}
  BY DEF Writes
<1>2. /\ Fits(a, F, B, O, K, K2)
      /\ DOMAIN a.fields = Writes("volume") \cup DOMAIN x.fields
  <2>1. /\ Fits(a, F, B, O, K, K2)
        /\ DOMAIN a.fields =
             {"Volume", "VolumeLeft", "VolumeRight", "VolumeNorm", "VolumeAtt"}
               \cup DOMAIN x.fields
    BY VolumeFits
  <2> QED BY <1>1, <2>1
<1> HIDE DEF a
<1>3. /\ Fits(b, F, B, O, K, K2)
      /\ DOMAIN b.fields = Writes("fft") \cup DOMAIN a.fields
  BY <1>1, <1>2, FftFits
<1> HIDE DEF b
<1>4. /\ Fits(c, F, B, O, K, K2)
      /\ DOMAIN c.fields = Writes("bands") \cup DOMAIN b.fields
  <2>1. "Magnitudes" \in DOMAIN b.fields
    BY <1>1, <1>3
  <2> QED BY <2>1, <1>1, <1>3, BandsFit
<1> HIDE DEF c
<1>5. /\ Fits(d, F, B, O, K, K2)
      /\ DOMAIN d.fields = {"RawBands"} \cup DOMAIN c.fields
  <2>1. "RawBands" \in DOMAIN c.fields
    BY <1>1, <1>4
  <2> QED BY <2>1, <1>4, LogBoostFits
<1> HIDE DEF d
<1>6. UpToBands(x) = b /\ UpToEqualizer(x) = d
  BY DEF UpToBands, UpToEqualizer, a, b, c, d
<1>7. DOMAIN d.fields =
        Writes("volume") \cup Writes("fft") \cup Writes("bands") \cup DOMAIN x.fields
  BY <1>1, <1>2, <1>3, <1>4, <1>5
<1> QED BY <1>3, <1>5, <1>6, <1>7

(* The published fields are the frame's, but for those nobody declares.   *)
LEMMA PublishedIs ==
  Published = {"Volume", "VolumeLeft", "VolumeRight", "VolumeNorm", "VolumeAtt",
               "RawBands", "Bands16", "Bands32", "Bands", "SpectralCentroid",
               "BeatPulseStrength", "PhaseVolume", "PhaseBass", "PhaseTreble",
               "AudioPan", "Direction8", "Loudness"}
              \cup BandFields \cup BeatFields
<1> DEFINE W(i) == Writes(Composition[i])
           inner == {"Magnitudes", "Phases"} \cup FluxFields
           outer == {"Volume", "VolumeLeft", "VolumeRight", "VolumeNorm", "VolumeAtt",
                     "RawBands", "Bands16", "Bands32", "Bands", "SpectralCentroid",
                     "BeatPulseStrength", "PhaseVolume", "PhaseBass", "PhaseTreble",
                     "AudioPan", "Direction8", "Loudness"}
<1>1. DOMAIN Composition = 1..13
  BY DEF Composition
<1>2. /\ W(1) = {"Volume", "VolumeLeft", "VolumeRight", "VolumeNorm", "VolumeAtt"}
      /\ W(2) = {"Magnitudes", "Phases"}
      /\ W(3) = {"RawBands", "Bands16", "Bands32"}
      /\ W(4) = {"RawBands"}
  BY DEF Composition, Writes
<1>3. W(5) = {"Bands"} /\ W(6) = BandFields /\ W(7) = {"SpectralCentroid"}
  BY DEF Composition, Writes
<1>4. W(8) = FluxFields /\ W(9) = BeatFields \cup {"BeatPulseStrength"}
  BY DEF Composition, Writes
<1>5. /\ W(10) = {"PhaseVolume", "PhaseBass", "PhaseTreble"}
      /\ W(11) = {"AudioPan"} /\ W(12) = {"Direction8"} /\ W(13) = {"Loudness"}
  BY DEF Composition, Writes
<1>6. Published = (UNION {W(i) : i \in 1..13}) \ inner
  BY <1>1 DEF Published
<1> HIDE DEF W
<1>7. UNION {W(i) : i \in 1..13} =
        W(1) \cup W(2) \cup W(3) \cup W(4) \cup W(5) \cup W(6) \cup W(7) \cup W(8)
          \cup W(9) \cup W(10) \cup W(11) \cup W(12) \cup W(13)
  <2>1. 1..13 = {1, 2, 3, 4, 5, 6, 7, 8, 9, 10, 11, 12, 13}
    OBVIOUS
  <2> HIDE DEF W
  <2>2. ASSUME NEW f
        PROVE  f \in (UNION {W(i) : i \in 1..13}) <=>
                 f \in W(1) \cup W(2) \cup W(3) \cup W(4) \cup W(5) \cup W(6) \cup W(7)
                   \cup W(8) \cup W(9) \cup W(10) \cup W(11) \cup W(12) \cup W(13)
    BY <2>1, Zenon
  <2> QED BY <2>2
<1>8. W(1) \cup W(2) \cup W(3) \cup W(4) \cup W(5) \cup W(6) \cup W(7) \cup W(8)
        \cup W(9) \cup W(10) \cup W(11) \cup W(12) \cup W(13)
      = outer \cup BandFields \cup BeatFields \cup inner
  BY <1>2, <1>3, <1>4, <1>5
<1>9. (outer \cup BandFields \cup BeatFields) \cap inner = {}
  BY DEF BandFields, BeatFields, FluxFields
<1> HIDE DEF outer, inner
<1>10. Published = outer \cup BandFields \cup BeatFields
  <2> DEFINE all == UNION {W(i) : i \in 1..13}
             seen == outer \cup BandFields \cup BeatFields
  <2>1. all = seen \cup inner
    BY <1>7, <1>8
  <2>2. seen \cap inner = {}
    BY <1>9
  <2>3. Published = all \ inner
    BY <1>6
  <2> HIDE DEF all, seen
  <2>4. Published = seen
    BY <2>1, <2>2, <2>3
  <2> QED BY <2>4 DEF seen
<1> QED BY <1>10 DEF outer

(* What the whole pipeline makes of a frame: it stays within the bounds,  *)
(* and nothing that a stage declares to write is left out.                *)
LEMMA ProcessFits ==
  ASSUME NEW F, NEW B, NEW O, NEW K, NEW K2, NEW x,
         Limits(F, B, O), Fits(x, F, B, O, K, K2), K2 \subseteq O,
         K \subseteq F \cup {Nan}, K2 \subseteq F \cup {Nan},
         "Samples" \in DOMAIN x.fields, settings \in Settings
  PROVE  /\ Fits(Process(x), F, B, O, B, K)
         /\ Published \subseteq DOMAIN Process(x).fields
<1> DEFINE d == UpToEqualizer(x)
           e == Equalizer(d)
           f == BandNorm(e)
           g == SpectralCentroid(f)
           h == Flux(g)
           i == Beat(h)
           j == Chronotensity(i)
           k == Pan(j)
           l == Directional(k)
           n == Loudness(l)
<1>1. Process(x) = n
  BY DEF Process
<1>2. /\ Fits(d, F, B, O, K, K2)
      /\ {"Samples", "Volume", "VolumeLeft", "VolumeRight", "VolumeNorm", "VolumeAtt",
          "Magnitudes", "RawBands", "Bands16", "Bands32"} \subseteq DOMAIN d.fields
  <2>1. /\ Writes("volume") = {"Volume", "VolumeLeft", "VolumeRight", "VolumeNorm", "VolumeAtt"}
        /\ Writes("fft") = {"Magnitudes", "Phases"}
        /\ Writes("bands") = {"RawBands", "Bands16", "Bands32"}
    BY DEF Writes
  <2>2. /\ Fits(d, F, B, O, K, K2)
        /\ DOMAIN d.fields =
             Writes("volume") \cup Writes("fft") \cup Writes("bands") \cup DOMAIN x.fields
    BY UpToFits
  <2> HIDE DEF d
  <2> QED BY <2>1, <2>2
<1> HIDE DEF d
<1>3. Fits(e, F, B, O, K, K2) /\ DOMAIN e.fields = {"Bands"} \cup DOMAIN d.fields
  <2>1. "RawBands" \in DOMAIN d.fields
    BY <1>2
  <2> QED BY <2>1, <1>2, EqualizerFits
<1> HIDE DEF e
<1>4. Fits(f, F, B, O, K, K2) /\ DOMAIN f.fields = BandFields \cup DOMAIN e.fields
  <2>1. "Bands" \in DOMAIN e.fields
    BY <1>3
  <2> QED BY <2>1, <1>3, BandNormFits
<1> HIDE DEF f
<1>5. Fits(g, F, B, O, K, K2) /\ DOMAIN g.fields = {"SpectralCentroid"} \cup DOMAIN f.fields
  <2>1. "Magnitudes" \in DOMAIN f.fields
    BY <1>2, <1>3, <1>4
  <2> QED BY <2>1, <1>4, SpectralCentroidFits
<1> HIDE DEF g
<1>6. Fits(h, F, B, O, K, K2) /\ DOMAIN h.fields = FluxFields \cup DOMAIN g.fields
  <2>1. "Magnitudes" \in DOMAIN g.fields
    BY <1>2, <1>3, <1>4, <1>5
  <2> QED BY <2>1, <1>5, FluxFits
<1> HIDE DEF h
<1>7. /\ Fits(i, F, B, O, B, K)
      /\ DOMAIN i.fields =
           {"Onset"} \cup ({"BeatPulseStrength"} \cup (BeatFields \cup DOMAIN h.fields))
  <2>1. "Magnitudes" \in DOMAIN h.fields
    BY <1>2, <1>3, <1>4, <1>5, <1>6
  <2> QED BY <2>1, <1>6, BeatFits
<1> HIDE DEF i
<1>8. /\ Fits(j, F, B, O, B, K)
      /\ DOMAIN j.fields = {"PhaseVolume", "PhaseBass", "PhaseTreble"} \cup DOMAIN i.fields
  <2>1. {"VolumeNorm", "BassNorm", "TrebNorm"} \subseteq DOMAIN i.fields
    BY <1>2, <1>3, <1>4, <1>5, <1>6, <1>7 DEF BandFields
  <2> QED BY <2>1, <1>7, ChronotensityFits
<1> HIDE DEF j
<1>9. /\ Fits(k, F, B, O, B, K)
      /\ DOMAIN k.fields = {"AudioPan"} \cup DOMAIN j.fields
  <2>1. {"VolumeLeft", "VolumeRight"} \subseteq DOMAIN j.fields
    BY <1>2, <1>3, <1>4, <1>5, <1>6, <1>7, <1>8
  <2> QED BY <2>1, <1>8, PanFits
<1> HIDE DEF k
<1>10. DOMAIN d.fields \cup {"Bands", "SpectralCentroid", "BeatPulseStrength", "PhaseVolume",
                             "PhaseBass", "PhaseTreble", "AudioPan"}
         \cup BandFields \cup BeatFields \subseteq DOMAIN k.fields
  BY <1>3, <1>4, <1>5, <1>6, <1>7, <1>8, <1>9
<1>11. /\ Fits(l, F, B, O, B, K)
       /\ DOMAIN l.fields = {"Direction8"} \cup DOMAIN k.fields
  <2>1. "Samples" \in DOMAIN k.fields
    BY <1>2, <1>10
  <2> QED BY <2>1, <1>9, DirectionalFits
<1> HIDE DEF l
<1>12. /\ Fits(n, F, B, O, B, K)
       /\ DOMAIN n.fields = {"Loudness"} \cup DOMAIN l.fields
  <2>1. "Samples" \in DOMAIN l.fields
    BY <1>2, <1>10, <1>11
  <2> QED BY <2>1, <1>11, LoudnessFits
<1> HIDE DEF n
<1>13. Published \subseteq DOMAIN n.fields
  BY <1>2, <1>10, <1>11, <1>12, PublishedIs
<1> QED BY <1>1, <1>12, <1>13

(* Memory bounded by fewer streams is bounded by more.                    *)
LEMMA MemoryGrows ==
  ASSUME NEW F, NEW K, NEW K2, NEW G, NEW L, NEW L2,
         F \subseteq G, K \subseteq L, K2 \subseteq L2, NEW m \in Memory(F, K, K2)
  PROVE  m \in Memory(G, L, L2)
BY DEF Memory

(* So are fields.                                                         *)
LEMMA BoundGrows ==
  ASSUME NEW F, NEW B, NEW O, NEW G, NEW C, NEW P,
         F \subseteq G, B \subseteq C, O \subseteq P, NEW fields, Within(fields, F, B, O)
  PROVE  Within(fields, G, C, P)
BY DEF Within, Bound

(* A frame starts within the bounds of its stream and its bad samples.    *)
LEMMA ArrivalIs ==
  ASSUME PipelineTypeOK
  PROVE  Arrival \in Nat /\ Arrival % 2 \in {0, 1}
<1>1. Arrival \in Nat
  BY DEF Arrival, PipelineTypeOK
<1>2. \A a \in Nat : a % 2 \in {0, 1}
  OBVIOUS
<1> QED BY <1>1, <1>2

(* The ring and the streams after a frame was taken.                      *)
LEMMA TakenKeeps ==
  ASSUME PipelineTypeOK, Taken
  PROVE  /\ fed' \subseteq Nat /\ stream' \in Nat /\ ring' \in Seq(Nat)
         /\ settings' \in Settings
         /\ fed' = fed \cup {Arrival}
<1>1. fed' = fed \cup {Arrival} /\ stream' = stream /\ settings' = settings
  BY DEF Taken
<1>2. ring' \in Seq(Nat)
  BY DEF Taken, PipelineTypeOK
<1> QED BY <1>1, <1>2, ArrivalIs DEF PipelineTypeOK

(* What a frame starts with.                                              *)
LEMMA FreshFits ==
  ASSUME PipelineTypeOK, MemoryIsRecent, NEW bad \in BOOLEAN, NEW O
  PROVE  LET F == fed \cup {Arrival}
             B == Tainted(F, ~bad)
             K == Tainted(F, clean >= 1)
             K2 == Tainted(F, clean >= 2)
         IN  /\ Fits(Fresh(bad), F, B, O, K, K2)
             /\ "Samples" \in DOMAIN Fresh(bad).fields
             /\ K \subseteq F \cup {Nan} /\ K2 \subseteq F \cup {Nan} /\ F \subseteq Nat
             /\ F \subseteq B /\ B \subseteq F \cup {Nan}
<1> DEFINE F == fed \cup {Arrival}
           B == Tainted(F, ~bad)
           K == Tainted(F, clean >= 1)
           K2 == Tainted(F, clean >= 2)
           x == Fresh(bad)
<1>1. /\ x.fields = [f \in {"Samples"} |-> {Arrival} \cup IF bad THEN {Nan} ELSE {}]
      /\ x.format = Arrival % 2 /\ x.mem = mem
  BY DEF Fresh
<1>2. F \subseteq Nat
  BY ArrivalIs DEF PipelineTypeOK
<1>3. mem \in Memory(F, K, K2)
  <2>1. /\ Tainted(fed, clean >= 1) \subseteq K /\ Tainted(fed, clean >= 2) \subseteq K2
        /\ fed \subseteq F
    BY DEF Tainted
  <2>2. mem \in Memory(fed, Tainted(fed, clean >= 1), Tainted(fed, clean >= 2))
    BY DEF MemoryIsRecent
  <2> HIDE DEF F, K, K2
  <2> QED BY <2>1, <2>2, MemoryGrows
<1>4. Within(x.fields, F, B, O)
  <2>1. DOMAIN x.fields = {"Samples"} /\ x.fields["Samples"] \subseteq B
    BY <1>1 DEF Tainted
  <2>2. Bound("Samples", F, B, O) = B
    BY DEF Bound, RawFields
  <2> HIDE DEF x
  <2> QED BY <2>1, <2>2 DEF Within
<1>5. x.format \in {0, 1} /\ x.mem.csd.mag = x.mem.csd.phase
  BY <1>1, ArrivalIs DEF MemoryIsRecent
<1>6. Fits(x, F, B, O, K, K2)
  BY <1>1, <1>3, <1>4, <1>5 DEF Fits
<1>7. "Samples" \in DOMAIN x.fields
  BY <1>1
<1> QED BY <1>2, <1>6, <1>7 DEF Tainted

(* A frame that is analysed: what was not a number in the last frame is   *)
(* one frame older, and what it left before it two.                       *)
LEMMA AnalyseKeeps ==
  ASSUME PipelineInv, NEW bad \in BOOLEAN, Analyse(bad)
  PROVE  PipelineInv'
<1> DEFINE F == fed \cup {Arrival}
           B == Tainted(F, ~bad)
           O == Tainted(F, clean' = 3)
           K == Tainted(F, clean >= 1)
           K2 == Tainted(F, clean >= 2)
           y == Process(Fresh(bad))
<1>1. /\ mem' = y.mem /\ snapshot' = y.fields
      /\ clean' = IF bad THEN 0 ELSE Least(clean + 1, 3)
  BY DEF Analyse
<1>2. PipelineTypeOK /\ MemoryIsRecent /\ clean \in 0..3
  BY DEF PipelineInv, PipelineTypeOK
<1>3. /\ clean' \in 0..3 /\ (bad => clean' = 0)
      /\ ~bad => clean' >= 1 /\ (clean' >= 2 <=> clean >= 1) /\ (clean' = 3 <=> clean >= 2)
  BY <1>1, <1>2 DEF Least
<1>4. /\ Fits(Fresh(bad), F, B, O, K, K2) /\ "Samples" \in DOMAIN Fresh(bad).fields
      /\ K \subseteq F \cup {Nan} /\ K2 \subseteq F \cup {Nan} /\ F \subseteq Nat
      /\ F \subseteq B /\ B \subseteq F \cup {Nan}
  BY <1>2, FreshFits, Zenon
<1>5. F \subseteq O /\ K2 \subseteq O
  <2>1. CASE bad
    BY <2>1, <1>3 DEF Tainted
  <2>2. CASE ~bad
    BY <2>2, <1>3 DEF Tainted
  <2> QED BY <2>1, <2>2
<1>6. settings \in Settings
  BY <1>2 DEF PipelineTypeOK
<1>7. Limits(F, B, O)
  BY <1>4, <1>5 DEF Limits
<1>8. fed' = F /\ PipelineTypeOK'
  BY <1>2, <1>3, TakenKeeps DEF Analyse, PipelineTypeOK
<1> HIDE DEF F, B, O, K, K2
<1>9. Fits(y, F, B, O, B, K) /\ Published \subseteq DOMAIN y.fields
  BY <1>4, <1>5, <1>6, <1>7, ProcessFits
<1> HIDE DEF y
<1>10. B \subseteq Tainted(F, clean' >= 1) /\ K \subseteq Tainted(F, clean' >= 2)
  <2>1. CASE bad
    BY <2>1, <1>3, <1>4 DEF Tainted
  <2>2. CASE ~bad
    BY <2>2, <1>3, <1>4 DEF Tainted, B, K
  <2> QED BY <2>1, <2>2
<1>11. MemoryIsRecent'
  <2>1. y.mem \in Memory(F, B, K) /\ y.mem.csd.mag = y.mem.csd.phase
    BY <1>9 DEF Fits
  <2>2. y.mem \in Memory(F, Tainted(F, clean' >= 1), Tainted(F, clean' >= 2))
    BY <2>1, <1>10, MemoryGrows
  <2> QED BY <1>1, <1>8, <2>1, <2>2 DEF MemoryIsRecent
<1>12. SnapshotIsRecent'
  <2>1. Within(y.fields, F, B, O)
    BY <1>9 DEF Fits
  <2>2. Within(y.fields, F, Tainted(F, clean' >= 1), Tainted(F, clean' = 3))
    BY <2>1, <1>10, BoundGrows DEF O
  <2> QED BY <1>1, <1>8, <1>9, <2>2 DEF SnapshotIsRecent
<1> QED BY <1>8, <1>11, <1>12 DEF PipelineInv

(* A frame that is dropped half way: the stages before kept what they     *)
(* computed, and what is published is still of an earlier frame.          *)
LEMMA ThrowKeeps ==
  ASSUME PipelineInv, NEW s \in Throwing, NEW bad \in BOOLEAN, StageThrows(s, bad)
  PROVE  PipelineInv'
<1> DEFINE F == fed \cup {Arrival}
           B == Tainted(F, ~bad)
           K == Tainted(F, clean >= 1)
           K2 == Tainted(F, clean >= 2)
           y == UpTo(s, Fresh(bad))
<1>1. /\ mem' = y.mem /\ snapshot' = snapshot
      /\ clean' = IF bad THEN 0 ELSE clean
  BY DEF StageThrows
<1>2. PipelineTypeOK /\ MemoryIsRecent /\ SnapshotIsRecent /\ clean \in 0..3
  BY DEF PipelineInv, PipelineTypeOK
<1>3. clean' \in 0..3 /\ clean' <= clean
  BY <1>1, <1>2
<1>4. /\ Fits(Fresh(bad), F, B, B, K, K2) /\ "Samples" \in DOMAIN Fresh(bad).fields
      /\ F \subseteq Nat /\ F \subseteq B /\ B \subseteq F \cup {Nan}
  BY <1>2, FreshFits, Zenon
<1>5. Limits(F, B, B) /\ settings \in Settings
  BY <1>2, <1>4 DEF Limits, PipelineTypeOK
<1>6. fed' = F /\ PipelineTypeOK'
  BY <1>2, <1>3, TakenKeeps DEF StageThrows, PipelineTypeOK
<1>7. fed \subseteq F
  OBVIOUS
<1>8. /\ K \subseteq Tainted(F, clean' >= 1) /\ K2 \subseteq Tainted(F, clean' >= 2)
      /\ Tainted(fed, clean >= 1) \subseteq Tainted(F, clean' >= 1)
      /\ Tainted(fed, clean = 3) \subseteq Tainted(F, clean' = 3)
  BY <1>2, <1>3 DEF Tainted
<1> HIDE DEF F, B, K, K2
<1>9. Fits(y, F, B, B, K, K2)
  BY <1>4, <1>5, UpToFits DEF UpTo
<1> HIDE DEF y
<1>10. MemoryIsRecent'
  <2>1. y.mem \in Memory(F, K, K2) /\ y.mem.csd.mag = y.mem.csd.phase
    BY <1>9 DEF Fits
  <2>2. F \subseteq F /\ y.mem \in Memory(F, Tainted(F, clean' >= 1), Tainted(F, clean' >= 2))
    BY <2>1, <1>8, MemoryGrows
  <2> QED BY <1>1, <1>6, <2>1, <2>2 DEF MemoryIsRecent
<1>11. SnapshotIsRecent'
  <2>1. Within(snapshot, fed, Tainted(fed, clean >= 1), Tainted(fed, clean = 3))
    BY <1>2 DEF SnapshotIsRecent
  <2>2. Within(snapshot, F, Tainted(F, clean' >= 1), Tainted(F, clean' = 3))
    BY <2>1, <1>7, <1>8, BoundGrows
  <2> QED BY <1>1, <1>2, <1>6, <2>2 DEF SnapshotIsRecent
<1> QED BY <1>6, <1>10, <1>11 DEF PipelineInv

(* A memory that was reset remembers nothing but the direction.           *)
LEMMA ForgottenIs ==
  ASSUME NEW bins \in Sizes, NEW size \in Sizes, NEW direction \in SUBSET Nat,
         NEW F, NEW K, NEW K2
  PROVE  LET m == Forgotten(bins, CsdReset(size), direction)
         IN  m \in Memory(F, K, K2) /\ m.csd.mag = m.csd.phase
<1>1. 0 \in Sizes /\ <<>> \in LoudnessKeys
  BY DEF Sizes, LoudnessKeys
<1>2. CsdReset(size) \in [size : Sizes, seen : 0..2, mag : SUBSET K,
                          phase : SUBSET K, phase2 : SUBSET K2]
  BY DEF CsdReset
<1>3. CsdReset(size).mag = CsdReset(size).phase
  BY DEF CsdReset
<1>4. /\ [size |-> 0, prev |-> {}] \in [size : Sizes, prev : SUBSET F]
      /\ [key |-> <<>>, sum |-> {}] \in [key : LoudnessKeys, sum : SUBSET (F \cup {Nan})]
  BY <1>1
<1> QED BY <1>2, <1>3, <1>4 DEF Forgotten, Memory

(* A snapshot without fields is within any bounds.                        *)
LEMMA NothingIsWithin ==
  ASSUME NEW F, NEW B, NEW O
  PROVE  Within(Fields0, F, B, O)
BY DEF Within, Fields0

(* As constructed.                                                        *)
LEMMA InitPipeline == Init => PipelineInv
<1> SUFFICES ASSUME Init PROVE PipelineInv
  OBVIOUS
<1>1. PipelineTypeOK
  BY DEF Init, PipelineTypeOK
<1>2. MemoryIsRecent
  <2>1. mem = Forgotten(0, CsdReset(0), {})
    BY DEF Init, Memory0
  <2>2. 0 \in Sizes
    BY DEF Sizes
  <2> QED BY <2>1, <2>2, ForgottenIs DEF MemoryIsRecent
<1>3. SnapshotIsRecent
  BY NothingIsWithin DEF Init, SnapshotIsRecent
<1> QED BY <1>1, <1>2, <1>3 DEF PipelineInv

(* A stop and a start: what is fed next starts the count anew, also when  *)
(* it is still of the stream before.                                      *)
LEMMA RestartKeeps ==
  ASSUME PipelineInv, Restart
  PROVE  PipelineInv'
<1>1. /\ stream' = stream + 1 /\ mem' = PipelineReset /\ snapshot' = Fields0
      /\ fed' = {} /\ clean' = 3 /\ settings' = settings
  BY DEF Restart
<1>2. PipelineTypeOK /\ MemoryIsRecent
  BY DEF PipelineInv
<1>3. ring' \in Seq(Nat)
  <2>1. PICK n \in 0 .. (Leftover - Len(ring)) : ring' = ring \o [i \in 1..n |-> stream]
    BY DEF Restart
  <2>2. ring \in Seq(Nat) /\ stream \in Nat /\ Leftover \in Nat /\ Len(ring) \in Nat
    BY <1>2, DspAssumption DEF PipelineTypeOK
  <2>3. n \in Nat
    BY <2>1, <2>2
  <2>4. [i \in 1..n |-> stream] \in Seq(Nat)
    BY <2>2, <2>3
  <2> QED BY <2>1, <2>2, <2>4
<1>4. PipelineTypeOK'
  BY <1>1, <1>2, <1>3 DEF PipelineTypeOK
<1>5. MemoryIsRecent'
  <2>1. mem.bins \in Sizes /\ mem.csd.size \in Sizes /\ mem.direction \in SUBSET Nat
    BY <1>2 DEF MemoryIsRecent, Memory
  <2> QED BY <2>1, <1>1, ForgottenIs DEF PipelineReset, MemoryIsRecent
<1>6. SnapshotIsRecent'
  BY <1>1, NothingIsWithin DEF SnapshotIsRecent
<1> QED BY <1>4, <1>5, <1>6 DEF PipelineInv

(* Whatever is fed, thrown, edited or restarted.                          *)
THEOREM PipelineInvariant == Spec => []PipelineInv
<1>1. PipelineInv /\ [Next]_vars => PipelineInv'
  <2> SUFFICES ASSUME PipelineInv, [Next]_vars PROVE PipelineInv'
    OBVIOUS
  <2>1. CASE \E bad \in BOOLEAN : Analyse(bad)
    BY <2>1, AnalyseKeeps
  <2>2. CASE \E s \in Throwing, bad \in BOOLEAN : StageThrows(s, bad)
    BY <2>2, ThrowKeeps
  <2>3. CASE Edit
    BY <2>3 DEF Edit, PipelineInv, PipelineTypeOK, MemoryIsRecent, SnapshotIsRecent
  <2>4. CASE Restart
    BY <2>4, RestartKeeps
  <2>5. CASE UNCHANGED vars
    BY <2>5 DEF vars, PipelineInv, PipelineTypeOK, MemoryIsRecent, SnapshotIsRecent
  <2> QED BY <2>1, <2>2, <2>3, <2>4, <2>5 DEF Next
<1> QED BY InitPipeline, <1>1, PTL DEF Spec

(* Nothing published after a reset was computed from a frame before it,   *)
(* but for the direction.                                                 *)
THEOREM ResetAlwaysForgets == Spec => []ResetForgets
<1>1. PipelineInv => ResetForgets
  <2> SUFFICES ASSUME PipelineInv, NEW f \in DOMAIN snapshot \ {"Direction8"}
               PROVE  snapshot[f] \subseteq fed \cup {Nan, Missing}
    BY DEF ResetForgets
  <2>1. snapshot[f] \subseteq
          Bound(f, fed, Tainted(fed, clean >= 1), Tainted(fed, clean = 3))
    BY DEF PipelineInv, SnapshotIsRecent, Within
  <2> QED BY <2>1 DEF Bound, Tainted
<1> QED BY <1>1, PipelineInvariant, PTL

(* A bad sample does not outlive its frame in anything published, nor two *)
(* more frames in what the stages remember.                               *)
THEOREM BadSamplesAlwaysPass == Spec => []BadSamplesPass
<1>1. PipelineInv => BadSamplesPass
  <2> SUFFICES ASSUME PipelineInv PROVE BadSamplesPass
    OBVIOUS
  <2>1. fed \subseteq Nat /\ clean \in 0..3 /\ Nan \notin fed /\ Nan \notin Nat
    BY DspAssumption DEF PipelineInv, PipelineTypeOK
  <2>2. \A f \in DOMAIN snapshot : snapshot[f] \subseteq
          Bound(f, fed, Tainted(fed, clean >= 1), Tainted(fed, clean = 3))
    BY DEF PipelineInv, SnapshotIsRecent, Within
  <2>3. ASSUME NEW f \in DOMAIN snapshot \cap Published, Nan \in snapshot[f]
        PROVE  f \in {"VolumeLeft", "VolumeRight"} /\ clean = 0
    <3>1. f \notin {"Samples", "Magnitudes", "Phases", "Onset"}
      BY PublishedIs DEF BandFields, BeatFields
    <3>2. Nan \in Bound(f, fed, Tainted(fed, clean >= 1), Tainted(fed, clean = 3))
      BY <2>2, <2>3
    <3>3. f \in {"VolumeLeft", "VolumeRight"} /\ Nan \in Tainted(fed, clean >= 1)
      BY <3>1, <3>2, <2>1 DEF Bound, RawFields
    <3> QED BY <3>3, <2>1 DEF Tainted
  <2>4. ASSUME clean = 3
        PROVE  /\ Nan \notin UNION {snapshot[f] : f \in DOMAIN snapshot}
               /\ Nan \notin mem.csd.mag \cup mem.csd.phase \cup mem.csd.phase2
               /\ Nan \notin mem.volume \cup mem.bands \cup mem.phases
                               \cup mem.direction \cup mem.onsets
    <3>1. \A f \in DOMAIN snapshot : Nan \notin snapshot[f]
      BY <2>1, <2>2, <2>4 DEF Bound, Tainted
    <3>2. mem \in Memory(fed, fed, fed)
      BY <2>4 DEF PipelineInv, MemoryIsRecent, Tainted
    <3>3. /\ mem.volume \subseteq fed /\ mem.bands \subseteq fed /\ mem.phases \subseteq fed
          /\ mem.onsets \subseteq fed /\ mem.direction \subseteq Nat
          /\ mem.csd \in [size : Sizes, seen : 0..2, mag : SUBSET fed,
                          phase : SUBSET fed, phase2 : SUBSET fed]
      BY <3>2 DEF Memory
    <3> QED BY <3>1, <3>3, <2>1
  <2> QED BY <2>3, <2>4 DEF BadSamplesPass
<1> QED BY <1>1, PipelineInvariant, PTL

(* What the stages declare to read, an earlier one declares to write.     *)
LEMMA CompositionIsValid == Valid
<1>1. DOMAIN Composition = 1..13
  BY DEF Composition
<1> DEFINE R(i) == Reads(Composition[i])
           W(i) == Writes(Composition[i])
           E(i) == {"Samples"} \cup UNION {W(j) : j \in 1 .. (i - 1)}
<1>2. \A i \in 1..13 : \A j \in 1 .. (i - 1) : W(j) \subseteq E(i) /\ "Samples" \in E(i)
  OBVIOUS
<1>3. /\ W(1) = {"Volume", "VolumeLeft", "VolumeRight", "VolumeNorm", "VolumeAtt"}
      /\ W(2) = {"Magnitudes", "Phases"}
      /\ W(3) = {"RawBands", "Bands16", "Bands32"}
      /\ W(5) = {"Bands"} /\ W(6) = BandFields /\ W(8) = FluxFields
  BY DEF Composition, Writes
<1>4. /\ R(1) = {"Samples"} /\ R(2) = {"Samples"} /\ R(12) = {"Samples"} /\ R(13) = {"Samples"}
      /\ R(3) = {"Magnitudes"} /\ R(7) = {"Magnitudes"} /\ R(8) = {"Magnitudes"}
      /\ R(4) = {"RawBands"} /\ R(5) = {"RawBands"} /\ R(6) = {"Bands"}
  BY DEF Composition, Reads
<1>5. /\ R(9) = {"Magnitudes", "Phases", "FluxTotal"}
      /\ R(10) = {"VolumeNorm", "BassNorm", "TrebNorm"}
      /\ R(11) = {"Samples", "VolumeLeft", "VolumeRight"}
  BY DEF Composition, Reads
<1>6. \A i \in 1..13 : "Samples" \in E(i)
  OBVIOUS
<1> HIDE DEF R, W, E
<1>7. /\ R(1) \subseteq E(1) /\ R(2) \subseteq E(2) /\ R(12) \subseteq E(12) /\ R(13) \subseteq E(13)
  BY <1>4, <1>6
<1>8. /\ R(3) \subseteq E(3) /\ R(7) \subseteq E(7) /\ R(8) \subseteq E(8)
      /\ R(4) \subseteq E(4) /\ R(5) \subseteq E(5) /\ R(6) \subseteq E(6)
  BY <1>2, <1>3, <1>4
<1>9. R(9) \subseteq E(9) /\ R(10) \subseteq E(10) /\ R(11) \subseteq E(11)
  <2>1. W(2) \subseteq E(9) /\ W(8) \subseteq E(9)
    BY <1>2
  <2>2. W(1) \subseteq E(10) /\ W(6) \subseteq E(10) /\ W(1) \subseteq E(11)
    BY <1>2
  <2> QED BY <2>1, <2>2, <1>3, <1>5, <1>6 DEF BandFields, FluxFields
<1>10. \A i \in 1..13 : R(i) \subseteq E(i)
  BY <1>7, <1>8, <1>9
<1> QED BY <1>1, <1>10 DEF Valid, Validate, R, W, E

(* No field of an analysed frame is published with its default.           *)
THEOREM NothingIsEverMissing == Spec => []NothingMissing
<1>1. PipelineInv => NothingMissing
  <2> SUFFICES ASSUME PipelineInv, snapshot # Fields0, NEW f \in Published
               PROVE  f \in DOMAIN snapshot /\ Missing \notin snapshot[f]
    BY CompositionIsValid DEF NothingMissing
  <2>1. f \in DOMAIN snapshot
    BY DEF PipelineInv, SnapshotIsRecent
  <2>2. snapshot[f] \subseteq
          Bound(f, fed, Tainted(fed, clean >= 1), Tainted(fed, clean = 3))
    BY <2>1 DEF PipelineInv, SnapshotIsRecent, Within
  <2>3. Missing \notin Nat \cup {Nan} /\ fed \subseteq Nat
    BY DspAssumption DEF PipelineInv, PipelineTypeOK
  <2> QED BY <2>1, <2>2, <2>3 DEF Bound, Tainted
<1> QED BY <1>1, PipelineInvariant, PTL

-------------------------------------------------------------------------------
(* The tempo estimate, with the program's own numbers.  What a quotient   *)
(* is between ...                                                         *)
LEMMA Division ==
  ASSUME NEW m \in Nat, NEW d \in Nat \ {0}
  PROVE  /\ m \div d \in Nat
         /\ (m \div d) * d <= m
         /\ m < (m \div d + 1) * d
OBVIOUS

(* ... what multiplying does to the order ...                             *)
LEMMA LessByFactor ==
  ASSUME NEW a \in Int, NEW b \in Int, NEW d \in Nat \ {0}, a * d < b * d
  PROVE  a < b
OBVIOUS

(* ... and when it lies between two numbers.                              *)
LEMMA QuotientBetween ==
  ASSUME NEW m \in Nat, NEW d \in Nat \ {0}, NEW lo \in Nat, NEW hi \in Nat,
         lo * d <= m, m < (hi + 1) * d
  PROVE  m \div d \in lo .. hi
<1> DEFINE q == m \div d
<1>1. q \in Nat /\ q * d <= m /\ m < (q + 1) * d
  BY Division
<1> HIDE DEF q
<1>2. q * d \in Nat /\ (q + 1) * d \in Nat /\ lo * d \in Nat /\ (hi + 1) * d \in Nat
  BY <1>1
<1>3. lo * d < (q + 1) * d /\ q * d < (hi + 1) * d
  BY <1>1, <1>2
<1>4. lo < q + 1 /\ q < hi + 1
  BY <1>1, <1>3, LessByFactor
<1> QED BY <1>1, <1>4 DEF q

(* The teeth of a comb stay inside the autocorrelation.                   *)
LEMMA TeethExist ==
  ASSUME NEW lag \in Lags
  PROVE  Teeth(lag) \subseteq 0 .. (OdfLength - 1)
<1> SUFFICES ASSUME NEW a \in 1 .. NumHarmonics, NEW b \in (1 - a) .. (a - 1)
             PROVE  a * lag + b - 1 \in 0 .. (OdfLength - 1)
  BY DEF Teeth
<1>1. lag \in 2 .. 127 /\ a \in 1 .. 4 /\ b \in Int /\ 1 - a <= b /\ b <= a - 1
  BY DEF Lags, NumHarmonics
<1>2. CASE a = 1
  BY <1>1, <1>2 DEF OdfLength
<1>3. CASE a = 2
  BY <1>1, <1>3 DEF OdfLength
<1>4. CASE a = 3
  BY <1>1, <1>4 DEF OdfLength
<1>5. CASE a = 4
  BY <1>1, <1>5 DEF OdfLength
<1> QED BY <1>1, <1>2, <1>3, <1>4, <1>5

(* The longer lag of a tempo of d beats per minute.                       *)
LEMMA LongLag ==
  ASSUME NEW d \in 80 .. 160
  PROVE  Round(5160, d) \in 32 .. 65
<1> DEFINE m == 10320 + d
           f == 2 * d
<1>1. m \in Nat /\ f \in Nat \ {0} /\ 32 * f <= m /\ m < (65 + 1) * f
  OBVIOUS
<1>2. Round(5160, d) = m \div f
  BY DEF Round
<1> HIDE DEF m, f
<1>3. 32 \in Nat /\ 65 \in Nat
  OBVIOUS
<1>4. m \div f \in 32 .. 65
  BY <1>1, <1>3, QuotientBetween
<1> QED BY <1>2, <1>4

(* The shorter lag, half of it.                                           *)
LEMMA ShortLag ==
  ASSUME NEW d \in 160 .. 320
  PROVE  Round(5160, d) \in 16 .. 32
<1> DEFINE m == 10320 + d
           f == 2 * d
<1>1. m \in Nat /\ f \in Nat \ {0} /\ 16 * f <= m /\ m < (32 + 1) * f
  OBVIOUS
<1>2. Round(5160, d) = m \div f
  BY DEF Round
<1> HIDE DEF m, f
<1>3. 16 \in Nat /\ 32 \in Nat
  OBVIOUS
<1>4. m \div f \in 16 .. 32
  BY <1>1, <1>3, QuotientBetween
<1> QED BY <1>2, <1>4

(* Ten beats more make the longer lag shorter.                            *)
LEMMA LagsFall ==
  ASSUME NEW d \in 80 .. 150
  PROVE  Round(5160, d + 10) < Round(5160, d)
<1> DEFINE q == Round(5160, d)
           p == Round(5160, d + 10)
<1>1. d + 10 \in 80 .. 160 /\ d \in 80 .. 160
  OBVIOUS
<1>2. p \in 32 .. 65 /\ q \in 32 .. 65
  BY <1>1, LongLag
<1>3. 10320 + d < (q + 1) * (2 * d)
  <2> DEFINE m == 10320 + d
             f == 2 * d
  <2>1. m \in Nat /\ f \in Nat \ {0} /\ q = m \div f
    BY DEF Round
  <2> HIDE DEF m, f, q
  <2>2. m < (q + 1) * f
    BY <2>1, Division
  <2> QED BY <2>2 DEF m, f
<1>4. p * (2 * d + 20) <= 10330 + d
  <2> DEFINE m == 10330 + d
             f == 2 * d + 20
  <2>1. m \in Nat /\ f \in Nat \ {0} /\ p = m \div f
    BY DEF Round
  <2> HIDE DEF m, f, p
  <2>2. p * f <= m
    BY <2>1, Division
  <2> QED BY <2>2 DEF m, f
<1> HIDE DEF p, q
<1>5. ASSUME q <= p PROVE FALSE
  <2>1. (q + 1) * (2 * d) <= (p + 1) * (2 * d)
    BY <1>2, <1>5
  <2>2. (p + 1) * (2 * d) = 2 * (p * d) + 2 * d /\ p * (2 * d + 20) = 2 * (p * d) + 20 * p
    BY <1>2
  <2>3. p * d \in Nat
    BY <1>2
  <2> DEFINE pd == p * d
  <2> HIDE DEF pd
  <2>4. 10320 + d < 2 * pd + 2 * d /\ 2 * pd + 20 * p <= 10330 + d /\ pd \in Nat
    BY <1>2, <1>3, <1>4, <2>1, <2>2, <2>3 DEF pd
  <2> QED BY <1>2, <2>4
<1> QED BY <1>2, <1>5 DEF p, q

(* Both lags of a tempo have a comb, and tempos do not share them.        *)
LEMMA TemposApart ==
  ASSUME NEW k \in TempoStates
  PROVE  /\ TempoLags(k) \subseteq Lags
         /\ k + 5 \in TempoStates => TempoLags(k) # TempoLags(k + 5)
<1>1. k \in 0 .. 40
  BY DEF TempoStates
<1>2. Round(5160, 2 * k + 80) \in 32 .. 65 /\ Round(5160, 4 * k + 160) \in 16 .. 32
  <2>1. 2 * k + 80 \in 80 .. 160 /\ 4 * k + 160 \in 160 .. 320
    BY <1>1
  <2> QED BY <2>1, LongLag, ShortLag
<1>3. TempoLags(k) \subseteq Lags
  BY <1>2 DEF TempoLags, Lags
<1>4. ASSUME k + 5 \in TempoStates PROVE TempoLags(k) # TempoLags(k + 5)
  <2>1. k + 5 \in 0 .. 40
    BY <1>4 DEF TempoStates
  <2>2. 2 * k + 80 \in 80 .. 150 /\ 2 * (k + 5) + 80 = (2 * k + 80) + 10
    BY <1>1, <2>1
  <2>3. Round(5160, (2 * k + 80) + 10) < Round(5160, 2 * k + 80)
    BY <2>2, LagsFall
  <2>4. 4 * (k + 5) + 160 \in 160 .. 320 /\ (2 * k + 80) + 10 \in 80 .. 160
    BY <1>1, <2>1
  <2>5. Round(5160, 4 * (k + 5) + 160) \in 16 .. 32 /\ Round(5160, (2 * k + 80) + 10) \in 32 .. 65
    BY <2>4, LongLag, ShortLag
  <2>6. Round(5160, 2 * k + 80) \in TempoLags(k)
    BY DEF TempoLags
  <2>7. TempoLags(k + 5) = {Round(5160, (2 * k + 80) + 10), Round(5160, 4 * (k + 5) + 160)}
    BY <2>2 DEF TempoLags
  <2> QED BY <1>2, <2>3, <2>5, <2>6, <2>7
<1> QED BY <1>3, <1>4

(* The window of a sample's threshold is an interval around it.           *)
LEMMA IntervalSize ==
  ASSUME NEW a \in Int, NEW b \in Int, a <= b
  PROVE  Cardinality(a .. b) = b - a + 1
BY FS_Interval

(* Eight to fifteen samples, the one itself among them.                   *)
LEMMA WindowsFit ==
  ASSUME NEW n \in {OdfLength, CombSize}, NEW i \in 0 .. (n - 1)
  PROVE  /\ i \in ThresholdWindow(i, n)
         /\ Cardinality(ThresholdWindow(i, n)) \in 8 .. 15
<1> USE DEF AdaptPre, AdaptPost
<1>1. n \in {512, 128} /\ n \in Nat /\ i \in Nat /\ i < n
  BY DEF OdfLength, CombSize
<1>2. CASE i >= n - 7
  <2>1. i >= n - AdaptPost /\ ~(i < n - AdaptPost)
    BY <1>1, <1>2
  <2>2. ThresholdWindow(i, n) = InRange(i - AdaptPost, n, n)
    BY <2>1 DEF ThresholdWindow
  <2>3. InRange(i - AdaptPost, n, n) = (i - 7) .. (n - 1)
    BY <1>1, <1>2 DEF InRange
  <2>4. Cardinality((i - 7) .. (n - 1)) = (n - 1) - (i - 7) + 1
    BY <1>1, IntervalSize
  <2> QED BY <1>1, <1>2, <2>2, <2>3, <2>4
<1>3. CASE i < n - 7 /\ i <= 7
  <2>1. ThresholdWindow(i, n) = InRange(0, i + 8, n)
    BY <1>1, <1>3 DEF ThresholdWindow
  <2>2. InRange(0, i + 8, n) = 0 .. (i + 7)
    BY <1>1, <1>3 DEF InRange
  <2>3. Cardinality(0 .. (i + 7)) = (i + 7) - 0 + 1
    BY <1>1, IntervalSize
  <2> QED BY <1>1, <1>3, <2>1, <2>2, <2>3
<1>4. CASE i < n - 7 /\ i > 7
  <2>1. ThresholdWindow(i, n) = InRange(i - 8, i + 7, n)
    BY <1>1, <1>4 DEF ThresholdWindow
  <2>2. InRange(i - 8, i + 7, n) = (i - 8) .. (i + 6)
    BY <1>1, <1>4 DEF InRange
  <2>3. Cardinality((i - 8) .. (i + 6)) = (i + 6) - (i - 8) + 1
    BY <1>1, IntervalSize
  <2> QED BY <1>1, <1>4, <2>1, <2>2, <2>3
<1> QED BY <1>1, <1>2, <1>3, <1>4

(* An estimate uses nothing that does not exist.                          *)
LEMMA EstimatesAreWhole == EstimateIsWhole
BY TeethExist, TemposApart, WindowsFit DEF EstimateIsWhole

(* Whenever the stage calls estimate(), every sample, lag and tooth that  *)
(* the estimate needs exists.                                             *)
THEOREM EstimatesAreAlwaysWhole == Spec => []WarmEstimatesAreWhole
<1>1. WarmEstimatesAreWhole
  BY EstimatesAreWhole DEF WarmEstimatesAreWhole
<1> QED BY <1>1, PTL
===============================================================================
