------------------------------ MODULE BeatTracker -----------------------------
(***************************************************************************)
(* BeatTracker (src/audio/dsp/beat/beat_tracker.cpp): one call of          *)
(* process() per analysed frame counts down to the next beat and, half a   *)
(* beat after it, to the next prediction.  A period is a whole number of   *)
(* frames here; where the projected score peaks, which is the outcome of   *)
(* predict_beat(), is a free choice within the window it searches.         *)
(***************************************************************************)
EXTENDS Integers

CONSTANTS
  MinPeriod,       (* the shortest period process() works with: 10       *)
  MaxPeriod,       (* the longest: kBufferSize / 2 = 256                 *)
  InitialPeriod,   (* the period reset() leaves: 86                      *)
  FirstPrediction, (* frames from a reset to the first prediction: 10    *)
  Periods          (* the periods the stage may pass to process()        *)

(* std::round of half a period: halves round away from zero.              *)
Half(p) == (p + 1) \div 2

ASSUME PeriodAssumption ==
  /\ MinPeriod \in Nat /\ MinPeriod >= 2
  /\ MaxPeriod \in Nat /\ MaxPeriod >= MinPeriod
  /\ InitialPeriod \in MinPeriod..MaxPeriod
  /\ FirstPrediction \in 1..Half(MaxPeriod)
  /\ Periods \subseteq Nat

VARIABLES
  period,          (* beat_period_                                       *)
  toBeat,          (* time_to_next_beat_                                 *)
  toPrediction,    (* time_to_next_prediction_                           *)
  phase,           (* beat_phase_counter_: frames since the last beat    *)
  pending,         (* history: the next beat is a predicted one          *)
  lead             (* history: frames the last beat left before the next *)
                   (* prediction; 0 if nobody predicted that beat, or if *)
                   (* its placeholder ends before the wait does          *)

trackerVars == <<period, toBeat, toPrediction, phase, pending, lead>>

-------------------------------------------------------------------------------
(* kBufferSize: samples of the cumulative score.                          *)
BufferSize == 2 * MaxPeriod

(* The samples that the score at index `at` is computed from: those from  *)
(* two periods to half a period before it.                                *)
LookBack(p, at) == (at - 2 * p) .. (at - Half(p))

(* beat_window: the samples predict_beat() projects and searches.         *)
BeatWindow(p) == IF p < 2 THEN 2 ELSE p

(* A mutant of Clamped: long periods are let through.                     *)
ClampedBelow(p) == IF p < MinPeriod THEN MinPeriod ELSE p

Clamped(p) ==
  IF p < MinPeriod THEN MinPeriod ELSE IF p > MaxPeriod THEN MaxPeriod ELSE p

TrackerReset ==
  /\ period' = InitialPeriod
  /\ toBeat' = -1
  /\ toPrediction' = FirstPrediction
  /\ phase' = 0
  /\ pending' = FALSE
  /\ lead' = 0

TrackerInit ==
  /\ period = InitialPeriod
  /\ toBeat = -1
  /\ toPrediction = FirstPrediction
  /\ phase = 0
  /\ pending = FALSE
  /\ lead = 0

(* A mutant of TrackSample: the next beat is due again at once.           *)
TrackSampleLoops(arg, best) ==
  LET p == Clamped(arg)
      predicts == toPrediction - 1 <= 0
      next == IF predicts THEN best ELSE toBeat - 1
      due == next <= 0
      predicted == pending \/ predicts
  IN  /\ period' = p
      /\ toPrediction' = IF predicts THEN best + Half(p) ELSE toPrediction - 1
      /\ toBeat' = IF due THEN 1 ELSE next
      /\ phase' = IF due THEN 0 ELSE phase + 1
      /\ pending' = (predicted /\ ~due)
      /\ lead' = IF ~due THEN lead
                 ELSE IF predicted /\ p >= toPrediction' THEN toPrediction'
                 ELSE 0

(* process() for one sample; `best` is what predict_beat(), if it is      *)
(* called, finds in its window.                                           *)
TrackSample(arg, best) ==
  LET p == Clamped(arg)
      predicts == toPrediction - 1 <= 0
      next == IF predicts THEN best ELSE toBeat - 1
      due == next <= 0
      predicted == pending \/ predicts
  IN  /\ period' = p
      /\ toPrediction' = IF predicts THEN best + Half(p) ELSE toPrediction - 1
      /\ toBeat' = IF due THEN p ELSE next
      /\ phase' = IF due THEN 0 ELSE phase + 1
      /\ pending' = (predicted /\ ~due)
      /\ lead' = IF ~due THEN lead
                 ELSE IF predicted /\ p >= toPrediction' THEN toPrediction'
                 ELSE 0

(* predict_beat() searches 0..beat_window-1; its argmax starts at 0.      *)
Track(arg) == \E best \in 0 .. (BeatWindow(Clamped(arg)) - 1) :
                TrackSample(arg, best)

TrackerNext == TrackerReset \/ \E arg \in Periods : Track(arg)

TrackerSpec == TrackerInit /\ [][TrackerNext]_trackerVars

-------------------------------------------------------------------------------
TrackerTypeOK ==
  /\ period \in MinPeriod..MaxPeriod
  /\ toBeat \in Int
  /\ toPrediction \in Nat \ {0}
  /\ phase \in Nat
  /\ pending \in BOOLEAN
  /\ lead \in Nat

(* The score is looked up within the buffer: neither a new sample nor the *)
(* projected ones need a sample older than the buffer or not yet computed.*)
LooksBackInBuffer ==
  \A i \in 0 .. (BeatWindow(period) - 1) :
    /\ LookBack(period, BufferSize + i) # {}
    /\ LookBack(period, BufferSize + i) \subseteq 0 .. (BufferSize + i - 1)

(* A beat is never further away than the two countdowns allow.            *)
Longest == Half(MaxPeriod) + MaxPeriod - 1

(* While a prediction is awaited its wait began at the last beat; once it *)
(* is made, the beat comes first and the next wait is what lies between.  *)
CountdownsAgree ==
  /\ toBeat >= 1 \/ (toBeat = -1 /\ phase = 0 /\ ~pending)
  /\ ~pending => phase + toPrediction <= Half(MaxPeriod)
  /\ pending => /\ toPrediction - toBeat \in 1..Half(MaxPeriod)
                /\ phase + toBeat <= Longest

(* The placeholder of a beat with a lead does not end before the lead.    *)
LeadIsKept ==
  lead > 0 => /\ phase + toBeat >= lead
              /\ ~pending => phase + toPrediction = lead

(* Beats recur: whatever the periods passed in, the tracker is never      *)
(* longer without a beat than half the longest period and one period, and *)
(* it looks at nothing outside its buffer.                                *)
BeatsRecur == phase < Longest /\ LooksBackInBuffer

TrackerInv == TrackerTypeOK /\ CountdownsAgree /\ LeadIsKept /\ BeatsRecur

(* "Set a placeholder so we don't loop-fire": after a predicted beat the  *)
(* next one comes after the wait for the next prediction, half a period,  *)
(* unless the period falls below that wait.                               *)
BeatsKeepApart == [][phase' = 0 /\ toBeat' # -1 => phase + 1 >= lead]_trackerVars
===============================================================================
