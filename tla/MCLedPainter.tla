----------------------------- MODULE MCLedPainter -----------------------------
(***************************************************************************)
(* The instance of LedPainter that TLC checks: a server with two devices   *)
(* of which one has a zone of every type, one without LEDs and a matrix    *)
(* with a gap and a LED that does not exist, and has one LED less than its *)
(* zones; a server with a plain matrix of one column and a device without  *)
(* LEDs; and a server with nothing.                                        *)
(***************************************************************************)
EXTENDS LedPainter

Strip(n) == [type |-> "Linear", leds |-> n, height |-> 0, width |-> 0, values |-> <<>>]
Bulb(n) == [type |-> "Single", leds |-> n, height |-> 0, width |-> 0, values |-> <<>>]

Keys ==
  [type |-> "Matrix", leds |-> 3, height |-> 2, width |-> 2, values |-> <<2, NoLed, 0, 7>>]

Column == [type |-> "Matrix", leds |-> 3, height |-> 3, width |-> 1, values |-> <<>>]

MCServers ==
  { << [leds |-> 6, zones |-> <<Bulb(1), Strip(0), Keys, Strip(3)>>],
       [leds |-> 2, zones |-> <<Bulb(1)>>] >>,
    << [leds |-> 0, zones |-> <<Strip(2)>>],
       [leds |-> 4, zones |-> <<Column, Strip(1)>>] >>,
    << >> }

MCSnapshots ==
  { [volume |-> 0, bands |-> <<>>, phase |-> 0, turn |-> 2],
    [volume |-> 2, bands |-> <<1, 4>>, phase |-> 1, turn |-> 2],
    [volume |-> 4, bands |-> <<4, 0, 2>>, phase |-> 1, turn |-> 3] }

Choice(s, l, m) == [single |-> s, linear |-> l, matrix |-> m]

MCPatterns ==
  { Choice("Static", "VuMeter", "SpectrogramWaterfall"),
    Choice("Off", "Off", "Off"),
    Choice("Off", "VuMeter", "EqualizerColumns"),
    Choice("BeatFlash", "ChaseOrbit", "SpatialMap"),
    Choice("Static", "StereoSplit", "SpectrogramWaterfall"),
    Choice("VolumePulse", "SpectrumBar", "ColorWash") }
===============================================================================
