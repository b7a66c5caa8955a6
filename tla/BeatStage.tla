------------------------------- MODULE BeatStage ------------------------------
(***************************************************************************)
(* BeatStage (src/audio/dsp/stages/beat_stage.cpp) around its tracker: the *)
(* onset function and its history (OdfCsd, OdfBuffer), the throttled tempo *)
(* estimate (CombTempo) and the "Locked" indicator.                        *)
(*                                                                         *)
(* Numbers are abstracted to what they are computed from: the streams      *)
(* whose frames went into them, and Nan when they are not a number.        *)
(***************************************************************************)
EXTENDS BeatTracker, FiniteSets

CONSTANTS
  Nan,              (* a NaN, or what an infinite sample makes of a sum   *)
  TempoUpdateHops,  (* kTempoUpdateHops: 25                               *)
  LockedHold,       (* kLockedHoldUpdates: 12                             *)
  WarmSamples       (* kSnapshotLength / 2: 256                           *)

ASSUME BeatStageAssumption ==
  /\ TempoUpdateHops \in Nat \ {0}
  /\ LockedHold \in Nat \ {0}
  /\ WarmSamples \in Nat \ {0}

VARIABLES
  samples,          (* size_ of the ODF buffer, counted up to WarmSamples *)
  hops,             (* frames_since_tempo_update_                         *)
  confident,        (* comb_.confidence() >= kConfidenceLockThreshold     *)
  above,            (* confidence_above_thresh_frames_, counted up to the *)
                    (* threshold                                          *)
  locked,           (* auto_locked_                                       *)
  confirmed         (* history: updates due since confidence came up,     *)
                    (* counted up to LockedHold                           *)

tempoVars == <<samples, hops, confident, above, locked, confirmed>>

(* What a comparison lets through: it is false for a NaN.                 *)
Sane(v) == v \ {Nan}

Least(a, b) == IF a < b THEN a ELSE b

-------------------------------------------------------------------------------
(* OdfCsd: the magnitudes of the last frame, the phases of the last two.  *)
CsdReset(size) == [size |-> size, seen |-> 0, mag |-> {}, phase |-> {}, phase2 |-> {}]

(* ensure_size() forgets everything when the number of bins changes.      *)
CsdSized(csd, size) == IF csd.size = size THEN csd ELSE CsdReset(size)

(* The first two frames are only stored.                                  *)
CsdNext(csd, size, mags) ==
  LET c == CsdSized(csd, size)
  IN  [size |-> size, seen |-> Least(c.seen + 1, 2), mag |-> mags,
       phase |-> mags, phase2 |-> c.phase]

(* The onset function: only bins whose magnitude rose count, and none     *)
(* rises from or to a NaN; the phases of two frames ago have no such test.*)
Csd(csd, size, mags) ==
  LET c == CsdSized(csd, size)
  IN  IF c.seen < 2 \/ Nan \in mags \cup c.mag THEN {}
      ELSE mags \cup c.mag \cup c.phase \cup c.phase2

-------------------------------------------------------------------------------
(* OdfBuffer::push().                                                     *)
Push == samples' = Least(samples + 1, WarmSamples)

(* snapshot_to() is warm once it has half a window of samples, which it   *)
(* never has when so few arrive per second that the window holds fewer.   *)
Warm(n) == n >= WarmSamples

(* CombTempo::estimate() is called with a warm one, and how far the best  *)
(* tempo stands out may come out on either side of the threshold; without *)
(* an estimate the confidence stays what it was.                          *)
Estimate(due) ==
  confident' \in IF due /\ Warm(samples') THEN BOOLEAN ELSE {confident}

(* A mutant of TempoUpdate: low confidence unlocks but counts on.         *)
TempoUpdateCountsOn ==
  LET due == hops + 1 >= TempoUpdateHops
  IN  /\ Push
      /\ hops' = IF due THEN 0 ELSE hops + 1
      /\ Estimate(due)
      /\ above' = IF confident'
                  THEN Least(above + 1, LockedHold * TempoUpdateHops) ELSE above
      /\ locked' = (confident' /\ above' >= LockedHold * TempoUpdateHops)
      /\ confirmed' = IF ~confident' THEN 0
                      ELSE IF due THEN Least(confirmed + 1, LockedHold)
                      ELSE confirmed

TempoUpdate ==
  LET due == hops + 1 >= TempoUpdateHops
  IN  /\ Push
      /\ hops' = IF due THEN 0 ELSE hops + 1
      /\ Estimate(due)
      /\ above' = IF confident'
                  THEN Least(above + 1, LockedHold * TempoUpdateHops) ELSE 0
      /\ locked' = (confident' /\ (locked \/ above' >= LockedHold * TempoUpdateHops))
      /\ confirmed' = IF ~confident' THEN 0
                      ELSE IF due THEN Least(confirmed + 1, LockedHold)
                      ELSE confirmed

(* process(): tempo first, then one sample for the tracker, with a period *)
(* that follows the estimate and the measured rate of frames.             *)
BeatProcess ==
  TempoUpdate /\ \E arg \in Periods : Track(arg)

BeatReset ==
  /\ TrackerReset
  /\ samples' = 0 /\ hops' = 0 /\ confident' = FALSE
  /\ above' = 0 /\ locked' = FALSE /\ confirmed' = 0

BeatInit ==
  /\ TrackerInit
  /\ samples = 0 /\ hops = 0 /\ confident = FALSE
  /\ above = 0 /\ locked = FALSE /\ confirmed = 0

-------------------------------------------------------------------------------
BeatTypeOK ==
  /\ TrackerTypeOK
  /\ samples \in 0..WarmSamples
  /\ hops \in 0 .. (TempoUpdateHops - 1)
  /\ confident \in BOOLEAN /\ locked \in BOOLEAN
  /\ above \in 0 .. (LockedHold * TempoUpdateHops)
  /\ confirmed \in 0..LockedHold

(* "How many consecutive estimate updates need to be above the threshold  *)
(* before we report Locked": frames are counted, and no sequence of       *)
(* updates, of which any may meet a window that is not warm, locks sooner.*)
LockIsEarned == locked => confirmed = LockedHold

(* What makes it so: counting starts with an update that was due, and     *)
(* between two of them no more frames are counted than one interval has.  *)
LockCounts ==
  /\ ~confident => above = 0 /\ confirmed = 0 /\ ~locked
  /\ confident => /\ confirmed >= 1
                  /\ \/ confirmed = LockedHold
                     \/ above <= (confirmed - 1) * TempoUpdateHops + hops + 1
  /\ LockIsEarned
===============================================================================
