------------------------------ MODULE LedPatterns -----------------------------
(***************************************************************************)
(* The patterns of src/output/openrgb_patterns: what each LED of a zone    *)
(* shows of a snapshot, and what a zone remembers from frame to frame.     *)
(*                                                                         *)
(* A colour is abstracted to the snapshot it was computed from and the     *)
(* part of the zone it was computed for; hue, brightness and the scaling   *)
(* to bytes are left out.  Levels are whole numbers up to Full, positions  *)
(* are exact fractions.  LEDs, rows and columns count from 0.              *)
(***************************************************************************)
EXTENDS Integers, FiniteSets, Sequences

CONSTANTS
  Full,          (* the level that 1.0 stands for                          *)
  HoldTime,      (* how long the VU meter holds its peak: 0.6 s            *)
  Silence,       (* a row of zeros                                         *)
  NoLed          (* 0xFFFFFFFF in a matrix map; also cell_to_led's SIZE_MAX*)

ASSUME PatternAssumption == Full \in Nat \ {0} /\ HoldTime \in Nat \ {0}

(* OpenRgbConfig: what the user may choose for a zone of each type.       *)
SinglePattern ==
  {"BeatFlash", "VolumePulse", "SpectralHue", "ChronotensityCycle", "Static", "Off"}

LinearPattern ==
  {"SpectrumBar", "VuMeter", "ChaseOrbit", "PulseFromCenter", "StereoSplit",
   "ColorWash", "Static", "Off"}

MatrixPattern ==
  {"SpatialMap", "EqualizerColumns", "PerRegion", "SpectrogramWaterfall",
   "BeatFlash", "ColorWash", "Static", "Off"}

Larger(a, b) == IF a < b THEN b ELSE a
Smaller(a, b) == IF a < b THEN a ELSE b

Black == <<>>

(* The colour of part `part` of a zone, computed from snapshot s.         *)
Lit(s, part) == <<s, part>>

(* PatternState, and two histories: the snapshots the waterfall was fed,  *)
(* newest first, and the time since the peak rose.                        *)
State0 ==
  [peak |-> 0, hold |-> 0, rows |-> <<>>, head |-> 0, past |-> <<>>, since |-> 0]

(* The buffer a zone is painted into: black at the start of every frame.  *)
Blank(n) == [i \in 0 .. (n - 1) |-> Black]

Fill(n, colour) == [i \in 0 .. (n - 1) |-> colour]

-------------------------------------------------------------------------------
(* Where LED i of n lies, of den steps: t = num / den.                    *)
Den(n) == IF n = 1 THEN 2 ELSE n - 1
Num(i, n) == IF n = 1 THEN 1 ELSE i

(* The two of nb bands between which LED i of n lies.                     *)
BandBelow(i, n, nb) == (Num(i, n) * (nb - 1)) \div Den(n)
BandAbove(i, n, nb) == Smaller(BandBelow(i, n, nb) + 1, nb - 1)

(* The level there, times Den(n).                                         *)
SampleBand(bands, i, n) ==
  LET nb == Len(bands)
      frac == (Num(i, n) * (nb - 1)) % Den(n)
  IN  IF nb = 0 THEN 0
      ELSE bands[BandBelow(i, n, nb) + 1] * (Den(n) - frac)
             + bands[BandAbove(i, n, nb) + 1] * frac

-------------------------------------------------------------------------------
(* render_single().                                                       *)
RenderSingle(pattern, s) == IF pattern = "Off" THEN Black ELSE Lit(s, <<"all">>)

(* A mutant of Peak: the peak falls while it is held.                     *)
PeakFalls(st, v, dt) ==
  IF v > st.peak THEN [st EXCEPT !.peak = v, !.hold = HoldTime, !.since = 0]
  ELSE [st EXCEPT !.peak = Larger(v, st.peak - dt), !.since = st.since + dt,
                  !.hold = Larger(0, st.hold - dt)]

(* render_vu_meter(): the peak jumps up, is held, then falls.             *)
Peak(st, v, dt) ==
  IF v > st.peak THEN [st EXCEPT !.peak = v, !.hold = HoldTime, !.since = 0]
  ELSE IF st.hold > 0
  THEN [st EXCEPT !.hold = Larger(0, st.hold - dt),
                  !.since = Smaller(HoldTime, st.since + dt)]
  ELSE [st EXCEPT !.peak = Larger(v, st.peak - dt)]

(* A mutant of PeakLed: the dot is drawn where the bar ends.              *)
PeakLedAbove(peak, n) == (peak * n + Full - 1) \div Full

(* round(x - 0.5) for x = peak * n: halves are rounded away from zero, so *)
(* it is the whole part of x, and -1 for 0.                               *)
PeakLed(peak, n) == IF peak = 0 THEN -1 ELSE (peak * n) \div Full

VuMeter(s, n, peak) ==
  [i \in 0 .. (n - 1) |->
     IF i = PeakLed(peak, n) THEN Lit(s, <<"peak", i>>)
     ELSE IF i * Full < s.volume * n THEN Lit(s, <<"fill", i>>)
     ELSE Black]

(* render_chase_orbit(): the head is at `phase` of `turn` of the strip.   *)
Behind(i, n, phase, turn) ==
  LET d == phase * n - i * turn IN IF d < 0 THEN d + n * turn ELSE d

TailLen == 4

OnTail(i, n, phase, turn) == Behind(i, n, phase, turn) <= TailLen * turn

ChaseOrbit(s, n) ==
  [i \in 0 .. (n - 1) |->
     IF OnTail(i, n, s.phase, s.turn) THEN Lit(s, <<"tail", i>>) ELSE Black]

(* The half of the strip a channel has: n / 2 rounds down.                *)
StereoSplit(s, n) ==
  [i \in 0 .. (n - 1) |->
     Lit(s, <<IF i < n \div 2 THEN "left" ELSE "right", i>>)]

(* A level, by where the LED lies: near a band, or near the centre.       *)
SpectrumBar(s, n) == [i \in 0 .. (n - 1) |-> Lit(s, <<"led", i>>)]
PulseFromCenter(s, n) == [i \in 0 .. (n - 1) |-> Lit(s, <<"led", i>>)]

(* render_linear().                                                       *)
RenderLinear(pattern, s, n, peak) ==
  CASE pattern = "VuMeter" -> VuMeter(s, n, peak)
    [] pattern = "ChaseOrbit" -> ChaseOrbit(s, n)
    [] pattern = "StereoSplit" -> StereoSplit(s, n)
    [] pattern = "SpectrumBar" -> SpectrumBar(s, n)
    [] pattern = "PulseFromCenter" -> PulseFromCenter(s, n)
    [] pattern \in {"ColorWash", "Static"} -> Fill(n, Lit(s, <<"all">>))
    [] pattern = "Off" -> Blank(n)

-------------------------------------------------------------------------------
(* A matrix zone has height, width, and either a map of its cells or none.*)
CellToLed(z, row, col) ==
  IF z.values = <<>> THEN row * z.width + col
  ELSE IF row * z.width + col >= Len(z.values) THEN NoLed
  ELSE z.values[row * z.width + col + 1]

HasCells(z) == z.width > 0 /\ z.height > 0

Cells(z) == (0 .. z.height - 1) \X (0 .. z.width - 1)

RowMajor(z) ==
  [k \in 1 .. (z.height * z.width) |-> <<(k - 1) \div z.width, (k - 1) % z.width>>]

ColumnMajor(z) ==
  [k \in 1 .. (z.height * z.width) |-> <<(k - 1) % z.height, (k - 1) \div z.height>>]

(* The turns at which LED led is set, when the cells that have a colour   *)
(* are coloured one after the other; the last of them stays.              *)
Hits(z, cells, colour, led) ==
  {k \in DOMAIN cells :
     cells[k] \in DOMAIN colour /\ CellToLed(z, cells[k][1], cells[k][2]) = led}

LastHit(z, cells, colour, led) ==
  {k \in Hits(z, cells, colour, led) :
     \A j \in Hits(z, cells, colour, led) : j <= k}

Draw(z, cells, colour) ==
  [led \in 0 .. (z.leds - 1) |->
     LET last == LastHit(z, cells, colour, led)
     IN  IF last = {} THEN Black ELSE colour[cells[CHOOSE k \in last : TRUE]]]

CellColours(cells, s) == [c \in cells |-> Lit(s, <<"cell", c[1], c[2]>>)]

(* Row `row` is lit while the rows under it do not reach the level.       *)
Reaches(z, s, c) ==
  (z.height - 1 - c[1]) * Full * Den(z.width)
    < Smaller(Full * Den(z.width), SampleBand(s.bands, c[2], z.width)) * z.height

EqualizerColumns(z, s) ==
  Draw(z, ColumnMajor(z), CellColours({c \in Cells(z) : Reaches(z, s, c)}, s))

(* Every cell has a colour, by the directions it lies near or by its row. *)
SpatialMap(z, s) == Draw(z, RowMajor(z), CellColours(Cells(z), s))
PerRegion(z, s) == Draw(z, RowMajor(z), CellColours(Cells(z), s))

(* render_spectrogram_waterfall(): the rows are a ring; the frame's row   *)
(* is written at the head, drawn, and the head moves on.                  *)
Sized(z, st) ==
  IF DOMAIN st.rows = 0 .. (z.height - 1) THEN st
  ELSE [st EXCEPT !.rows = [row \in 0 .. (z.height - 1) |-> Silence], !.head = 0]

Fed(z, st, s) ==
  LET sized == Sized(z, st)
  IN  [sized EXCEPT !.rows[sized.head] = s,
                    !.past = [k \in 1 .. Smaller(z.height, Len(st.past) + 1) |->
                                IF k = 1 THEN s ELSE st.past[k - 1]]]

(* A mutant of RowShown: time runs the other way.                         *)
RowShownUp(z, st, row) == (st.head + row) % z.height

RowShown(z, st, row) == (st.head + z.height - row) % z.height

Waterfall(z, st) ==
  Draw(z, RowMajor(z),
       [c \in Cells(z) |-> Lit(st.rows[RowShown(z, st, c[1])], <<"cell", c[1], c[2]>>)])

Advanced(z, st) == [st EXCEPT !.head = (st.head + 1) % z.height]

(* render_matrix().  Four patterns need cells, the rest only LEDs.        *)
NeedsCells == {"SpatialMap", "PerRegion", "EqualizerColumns", "SpectrogramWaterfall"}

RenderMatrix(pattern, z, s, st) ==
  CASE pattern \in {"BeatFlash", "ColorWash", "Static"} -> Fill(z.leds, Lit(s, <<"all">>))
    [] pattern = "Off" -> Blank(z.leds)
    [] pattern \in NeedsCells /\ ~HasCells(z) -> Blank(z.leds)
    [] pattern = "SpatialMap" /\ HasCells(z) -> SpatialMap(z, s)
    [] pattern = "PerRegion" /\ HasCells(z) -> PerRegion(z, s)
    [] pattern = "EqualizerColumns" /\ HasCells(z) -> EqualizerColumns(z, s)
    [] pattern = "SpectrogramWaterfall" /\ HasCells(z) -> Waterfall(z, st)
===============================================================================
