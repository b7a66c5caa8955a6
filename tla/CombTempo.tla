------------------------------- MODULE CombTempo ------------------------------
(***************************************************************************)
(* The index arithmetic of CombTempo (src/audio/dsp/beat/comb_tempo.cpp)   *)
(* with the program's own sizes: which samples each step of an estimate    *)
(* reads.  The weights it gives them are left out.                         *)
(***************************************************************************)
EXTENDS Integers, FiniteSets

OdfLength == 512         \* kOdfLength
CombSize == 128          \* kCombOutputSize
Lags == 2..127           \* kLagMin..kLagMax
NumHarmonics == 4        \* kNumHarmonics
TempoStates == 0..40     \* kNumTempoStates = 41
AdaptPre == 8            \* kAdaptPre
AdaptPost == 7           \* kAdaptPost

Round(a, b) == (2 * a + b) \div (2 * b)
InRange(lo, hi, n) == {k \in 0 .. (n - 1) : lo <= k /\ k < hi}

(* A mutant of ThresholdWindow: the tail's window is the head's.          *)
ThresholdWindowHead(i, n) ==
  IF i <= AdaptPost \/ i >= n - AdaptPost THEN InRange(0, i + AdaptPre, n)
  ELSE InRange(i - AdaptPre, i + AdaptPost, n)

(* adaptive_threshold(): the samples whose mean is taken off sample i of  *)
(* n; the head, the middle and the tail are three loops, and a sample the *)
(* last two both reach has the threshold of the last.                     *)
ThresholdWindow(i, n) ==
  CASE i >= n - AdaptPost -> InRange(i - AdaptPost, n, n)
    [] i < n - AdaptPost /\ i <= AdaptPost -> InRange(0, i + AdaptPre, n)
    [] OTHER -> InRange(i - AdaptPre, i + AdaptPost, n)

(* comb_filterbank(): the lags of the autocorrelation that teeth 1..4 of  *)
(* the comb for a lag touch, before those outside it are skipped.         *)
Teeth(lag) ==
  UNION {{a * lag + b - 1 : b \in (1 - a) .. (a - 1)} : a \in 1..NumHarmonics}

(* estimate(): the two entries of the comb that speak for tempo state k,  *)
(* of 80 + 2k beats per minute, before they are clamped to the comb.      *)
TempoLags(k) == {Round(5160, 2 * k + 80), Round(5160, 4 * k + 160)}

(* Everything an estimate uses exists: no tooth is skipped, no lag is     *)
(* clamped or lacks its comb, no tempo has the same two lags' worth of    *)
(* evidence as one ten beats away, and every sample is compared with      *)
(* eight to fifteen neighbours, itself among them.                        *)
EstimateIsWhole ==
  /\ \A lag \in Lags : Teeth(lag) \subseteq 0 .. (OdfLength - 1)
  /\ \A k \in TempoStates : TempoLags(k) \subseteq Lags
  /\ \A k \in TempoStates : k + 5 \in TempoStates => TempoLags(k) # TempoLags(k + 5)
  /\ \A n \in {OdfLength, CombSize} : \A i \in 0 .. (n - 1) :
       /\ i \in ThresholdWindow(i, n)
       /\ Cardinality(ThresholdWindow(i, n)) \in 8..15
===============================================================================
