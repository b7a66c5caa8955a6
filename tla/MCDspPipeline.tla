----------------------------- MODULE MCDspPipeline ----------------------------
(***************************************************************************)
(* The instance of DspPipeline that TLC checks: settings that differ in    *)
(* the size of the FFT, in the loudness window, and in smoothing.          *)
(***************************************************************************)
EXTENDS DspPipeline

MCSettings ==
  {[fft |-> 1, window |-> 1, smoothing |-> TRUE],
   [fft |-> 2, window |-> 2, smoothing |-> FALSE]}

MCPeriods == {1, 6}
===============================================================================
