------------------------------ MODULE DspPipeline -----------------------------
(***************************************************************************)
(* The DSP pipeline (src/audio/dsp) as app.cpp composes it: thirteen       *)
(* stages that transform a frame in turn, and what each remembers from one *)
(* frame to the next.  A number is abstracted to the set of streams it was *)
(* computed from, with Nan among them when it is not a number; Missing     *)
(* stands for a field that no stage has written.                           *)
(*                                                                         *)
(* The DSP thread analyses one frame per step.  Stopping joins it first,   *)
(* so a reset happens between two frames; the ring is not emptied, and the *)
(* first frames after a restart may come from the stream before.           *)
(***************************************************************************)
EXTENDS BeatStage, CombTempo, Sequences

CONSTANTS
  Missing,
  Settings,     (* records [fft, window, smoothing] the user may choose   *)
  MaxStreams,   (* bound: how many times a source is started              *)
  Leftover,     (* bound: frames that stopped sources leave in the ring   *)
  MaxUpsets     (* bound: bad samples, exceptions and edits together      *)

ASSUME DspAssumption ==
  /\ MaxStreams \in Nat \ {0} /\ Leftover \in Nat /\ MaxUpsets \in Nat
  /\ Nan \notin Nat /\ Missing \notin Nat /\ Nan # Missing

VARIABLES
  mem,          (* what the stages remember                               *)
  settings,     (* cached_settings of the DSP thread                      *)
  stream,       (* the number of the stream being captured                *)
  ring,         (* streams of the frames earlier sources left in the ring *)
  snapshot,     (* the fields of the last frame analysed                  *)
  fed,          (* history: streams analysed since the last reset         *)
  clean,        (* history: frames since one with a bad sample, up to 3   *)
  upsets        (* bad samples, exceptions and edits so far               *)

vars == <<trackerVars, tempoVars, mem, settings, stream, ring, snapshot, fed,
          clean, upsets>>

-------------------------------------------------------------------------------
(* A frame under way: its fields, and the memory of the stages.           *)
Get(x, field) == IF field \in DOMAIN x.fields THEN x.fields[field] ELSE {Missing}

Put(x, names, value) ==
  [fields |-> [f \in names \cup DOMAIN x.fields |->
                 IF f \in names THEN value ELSE x.fields[f]],
   format |-> x.format, mem |-> x.mem]

(* A stage leaves the memory m to the frames after this one.              *)
Keep(x, m) == [fields |-> x.fields, format |-> x.format, mem |-> m]

Volume(x) ==
  LET samples_ == Get(x, "Samples")
      mean == x.mem.volume \cup Sane(samples_)      \* min(1, v) of a NaN is 1
      y == Put(x, {"Volume"}, Sane(samples_))
      z == Put(y, {"VolumeLeft", "VolumeRight"}, samples_)
  IN  Keep(Put(z, {"VolumeNorm", "VolumeAtt"}, mean),
           [x.mem EXCEPT !.volume = mean])

Fft(x) ==
  Keep(Put(x, {"Magnitudes", "Phases"}, Get(x, "Samples")),
       [x.mem EXCEPT !.bins = settings.fft])

Bands(x) ==
  Put(x, {"RawBands", "Bands16", "Bands32"}, Sane(Get(x, "Magnitudes")))

LogBoost(x) == Put(x, {"RawBands"}, Get(x, "RawBands"))

(* A mutant of Equalizer: neutral gains leave the frame as it is.         *)
EqualizerIdle(x) == x

Equalizer(x) == Put(x, {"Bands"}, Get(x, "RawBands"))

BandFields == {"BassNorm", "MidNorm", "TrebNorm", "BassAtt", "MidAtt", "TrebAtt"}

BandNorm(x) ==
  LET mean == x.mem.bands \cup Get(x, "Bands")
  IN  IF Get(x, "Bands") = {Missing} THEN x         \* frame.bands.empty()
      ELSE Keep(Put(x, BandFields, mean), [x.mem EXCEPT !.bands = mean])

SpectralCentroid(x) ==
  Put(x, {"SpectralCentroid"}, Sane(Get(x, "Magnitudes")))

(* The flux against the spectrum before; after a change of size there is  *)
(* none, and the next frame is compared with silence.                     *)
FluxFields == {"FluxTotal", "FluxLow", "FluxMid", "FluxHigh"}

Flux(x) ==
  LET mags == Sane(Get(x, "Magnitudes"))
      known == x.mem.flux.size = x.mem.bins
      now == [size |-> x.mem.bins, prev |-> IF known THEN mags ELSE {}]
  IN  Keep(Put(x, FluxFields, IF known THEN mags \cup x.mem.flux.prev ELSE {}),
           [x.mem EXCEPT !.flux = now])

(* What the onsets of the frame become: the history of onsets and, from   *)
(* it, tempo, beat and phase.  A NaN among them is held off by the         *)
(* comparisons of adaptive_threshold() and weighted_max_in_window().      *)
BeatFields == {"Beat", "BeatPhase", "TempoBpm", "TempoConfidence",
               "TempoDetected", "BeatAutoLocked"}

Beat(x) ==
  LET mags == Get(x, "Magnitudes")
      onset == Csd(x.mem.csd, x.mem.bins, mags)
      heard == x.mem.onsets \cup Sane(onset)
      y == Put(Put(x, BeatFields, heard), {"BeatPulseStrength"}, {})
  IN  Keep(Put(y, {"Onset"}, onset),
           [[x.mem EXCEPT !.onsets = heard]
              EXCEPT !.csd = CsdNext(x.mem.csd, x.mem.bins, mags)])

Chronotensity(x) ==
  LET phases == x.mem.phases \cup Get(x, "VolumeNorm") \cup Get(x, "BassNorm")
                  \cup Get(x, "TrebNorm")
  IN  Keep(Put(x, {"PhaseVolume", "PhaseBass", "PhaseTreble"}, phases),
           [x.mem EXCEPT !.phases = phases])

(* With smoothing the pan remembers, from the first frame it is on; with- *)
(* out, it forgets.  l + r > 0.0001 is false for a NaN.                   *)
Pan(x) ==
  LET now == Sane(Get(x, "VolumeLeft") \cup Get(x, "VolumeRight"))
      smoothed == IF x.mem.pan = <<>> THEN now ELSE x.mem.pan[1] \cup now
  IN  IF settings.smoothing
      THEN Keep(Put(x, {"AudioPan"}, smoothed), [x.mem EXCEPT !.pan = <<smoothed>>])
      ELSE Keep(Put(x, {"AudioPan"}, now), [x.mem EXCEPT !.pan = <<>>])

(* What the directional stage leaves of the eight levels `now`.           *)
Directed(x, now) ==
  LET smoothed == IF settings.smoothing THEN x.mem.direction \cup now ELSE now
  IN  Keep(Put(x, {"Direction8"}, smoothed), [x.mem EXCEPT !.direction = smoothed])

(* A mutant of Directional: the last line's max(0, v) is missing.         *)
DirectionalUnclamped(x) == Directed(x, Get(x, "Samples"))

Directional(x) == Directed(x, Sane(Get(x, "Samples")))  \* max(0, v) of a NaN is 0

(* configure() starts anew when the format or the window changes.  The    *)
(* filters and the running sum never lose a NaN; min(1, v) hides it.      *)
Loudness(x) ==
  LET key == <<x.format, settings.window>>
      sum == Get(x, "Samples") \cup (IF x.mem.loudness.key = key
                                    THEN x.mem.loudness.sum ELSE {})
  IN  Keep(Put(x, {"Loudness"}, Sane(sum)),
           [x.mem EXCEPT !.loudness = [key |-> key, sum |-> sum]])

-------------------------------------------------------------------------------
(* compose_pipeline() and what the stages declare.                        *)
Composition ==
  <<"volume", "fft", "bands", "log_boost", "equalizer", "band_norm",
    "spectral_centroid", "flux", "beat", "chronotensity", "pan",
    "directional", "loudness">>

Reads(s) ==
  CASE s \in {"volume", "fft", "directional", "loudness"} -> {"Samples"}
    [] s \in {"bands", "spectral_centroid", "flux"} -> {"Magnitudes"}
    [] s \in {"log_boost", "equalizer"} -> {"RawBands"}
    [] s = "band_norm" -> {"Bands"}
    [] s = "beat" -> {"Magnitudes", "Phases", "FluxTotal"}
    [] s = "chronotensity" -> {"VolumeNorm", "BassNorm", "TrebNorm"}
    [] s = "pan" -> {"Samples", "VolumeLeft", "VolumeRight"}

Writes(s) ==
  CASE s = "volume" ->
         {"Volume", "VolumeLeft", "VolumeRight", "VolumeNorm", "VolumeAtt"}
    [] s = "fft" -> {"Magnitudes", "Phases"}
    [] s = "bands" -> {"RawBands", "Bands16", "Bands32"}
    [] s = "log_boost" -> {"RawBands"}
    [] s = "equalizer" -> {"Bands"}
    [] s = "band_norm" -> BandFields
    [] s = "spectral_centroid" -> {"SpectralCentroid"}
    [] s = "flux" -> FluxFields
    [] s = "beat" -> BeatFields \cup {"BeatPulseStrength"}
    [] s = "chronotensity" -> {"PhaseVolume", "PhaseBass", "PhaseTreble"}
    [] s = "pan" -> {"AudioPan"}
    [] s = "directional" -> {"Direction8"}
    [] s = "loudness" -> {"Loudness"}

(* Pipeline::validate(): every field read is written by an earlier stage. *)
Validate(stages) ==
  \A i \in DOMAIN stages :
    Reads(stages[i]) \subseteq
      {"Samples"} \cup UNION {Writes(stages[j]) : j \in 1 .. (i - 1)}

(* What a debug build's boot insists on; release builds do not look.      *)
Valid == Validate(Composition)

(* Pipeline::process() runs the stages in that order; what it has made of *)
(* a frame when it reaches "bands", "equalizer" and its end.              *)
UpToBands(x) == Fft(Volume(x))

UpToEqualizer(x) == LogBoost(Bands(UpToBands(x)))

Process(x) ==
  LET bands == BandNorm(Equalizer(UpToEqualizer(x)))
      spectrum == Flux(SpectralCentroid(bands))
  IN  Loudness(Directional(Pan(Chronotensity(Beat(spectrum)))))

(* Two stages allocate before they change anything, and so may throw.     *)
Throwing == {"bands", "equalizer"}

UpTo(s, x) == IF s = "bands" THEN UpToBands(x) ELSE UpToEqualizer(x)

Arrival == IF ring # <<>> THEN Head(ring) ELSE stream

Fresh(bad) ==
  [fields |-> [f \in {"Samples"} |-> {Arrival} \cup IF bad THEN {Nan} ELSE {}],
   format |-> Arrival % 2, mem |-> mem]

Taken ==
  /\ ring' = IF ring = <<>> THEN ring ELSE Tail(ring)
  /\ fed' = fed \cup {Arrival}
  /\ UNCHANGED <<settings, stream>>

(* dsp_thread_main(): one frame, analysed and published.                  *)
Analyse(bad) ==
  /\ bad => upsets < MaxUpsets
  /\ upsets' = IF bad THEN upsets + 1 ELSE upsets
  /\ Taken
  /\ mem' = Process(Fresh(bad)).mem
  /\ snapshot' = Process(Fresh(bad)).fields
  /\ BeatProcess
  /\ clean' = IF bad THEN 0 ELSE Least(clean + 1, 3)

(* "Swallow any stage exception": the stages before it keep what they     *)
(* computed, those behind it never see the frame, nothing is published.   *)
StageThrows(s, bad) ==
  /\ upsets < MaxUpsets /\ upsets' = upsets + 1
  /\ Taken
  /\ mem' = UpTo(s, Fresh(bad)).mem
  /\ clean' = IF bad THEN 0 ELSE clean
  /\ UNCHANGED <<trackerVars, tempoVars, snapshot>>

(* The user changes a setting; the next frame is analysed with it.        *)
Edit ==
  /\ settings' \in Settings \ {settings}
  /\ upsets < MaxUpsets /\ upsets' = upsets + 1
  /\ UNCHANGED <<trackerVars, tempoVars, mem, stream, ring, snapshot, fed, clean>>

Fields0 == [f \in {} |-> {}]

Forgotten(bins, csd, direction) ==
  [volume |-> {}, bins |-> bins, bands |-> {}, flux |-> [size |-> 0, prev |-> {}],
   csd |-> csd, onsets |-> {}, phases |-> {}, pan |-> <<>>,
   direction |-> direction, loudness |-> [key |-> <<>>, sum |-> {}]]

Memory0 == Forgotten(0, CsdReset(0), {})

(* A mutant of PipelineReset: the beat stage keeps its onsets.            *)
PipelineResetNotBeat ==
  [Forgotten(mem.bins, CsdReset(mem.csd.size), mem.direction)
     EXCEPT !.onsets = mem.onsets]

(* Pipeline::reset(): each stage's reset().  The FFT keeps its size, and  *)
(* the directional stage has no reset() of its own.                       *)
PipelineReset == Forgotten(mem.bins, CsdReset(mem.csd.size), mem.direction)

(* AudioSystem::stop_locked() and a start after it: the pipeline is reset *)
(* and the snapshot zeroed; the ring keeps the frames not yet taken.      *)
Restart ==
  /\ stream < MaxStreams
  /\ stream' = stream + 1
  /\ \E n \in 0 .. (Leftover - Len(ring)) : ring' = ring \o [i \in 1..n |-> stream]
  /\ mem' = PipelineReset
  /\ BeatReset
  /\ snapshot' = Fields0
  /\ fed' = {}
  /\ clean' = 3
  /\ UNCHANGED <<settings, upsets>>

Init ==
  /\ BeatInit
  /\ mem = Memory0
  /\ settings \in Settings
  /\ stream = 1
  /\ ring = <<>>
  /\ snapshot = Fields0
  /\ fed = {}
  /\ clean = 3
  /\ upsets = 0

Next ==
  \/ \E bad \in BOOLEAN : Analyse(bad)
  \/ \E s \in Throwing, bad \in BOOLEAN : StageThrows(s, bad)
  \/ Edit
  \/ Restart

Spec == Init /\ [][Next]_vars

-------------------------------------------------------------------------------
(* What AudioSystem projects to the published snapshot.                   *)
Published ==
  (UNION {Writes(Composition[i]) : i \in DOMAIN Composition})
    \ ({"Magnitudes", "Phases"} \cup FluxFields)

(* "Reset stage state (after stop/restart)": nothing published after a    *)
(* reset was computed from a frame analysed before it.  The direction is  *)
(* the exception the code makes: that stage has no reset().               *)
ResetForgets ==
  \A f \in DOMAIN snapshot \ {"Direction8"} : snapshot[f] \subseteq fed \cup {Nan, Missing}

(* One bad sample does not outlive its frame in anything published: only  *)
(* the two channel levels are then not numbers.  In the onset function it *)
(* shows once more two frames later, and after that in none of the stages *)
(* but the running sum of the loudness, which only a reset, another       *)
(* format or another window clears.                                       *)
BadSamplesPass ==
  /\ \A f \in DOMAIN snapshot \cap Published :
       Nan \in snapshot[f] => f \in {"VolumeLeft", "VolumeRight"} /\ clean = 0
  /\ clean = 3 => /\ Nan \notin UNION {snapshot[f] : f \in DOMAIN snapshot}
                  /\ Nan \notin mem.csd.mag \cup mem.csd.phase \cup mem.csd.phase2
                  /\ Nan \notin mem.volume \cup mem.bands \cup mem.phases
                                  \cup mem.direction \cup mem.onsets

(* Every field the snapshot takes from a frame was written by a stage,    *)
(* from fields that were: no value_or() default is ever published for a   *)
(* frame that was analysed, whatever was thrown or edited before it; and  *)
(* validate(), which sees declarations only, agrees.                      *)
NothingMissing ==
  /\ Valid
  /\ snapshot # Fields0 =>
       \A f \in Published : f \in DOMAIN snapshot /\ Missing \notin snapshot[f]

(* As soon as the onset history is warm and estimate() is called, every   *)
(* sample, lag and tooth it needs exists (EstimateIsWhole).               *)
WarmEstimatesAreWhole == Warm(samples) => EstimateIsWhole

(* The beat stage's own counters, and its "Locked" indicator.             *)
BeatInv == BeatTypeOK /\ LockIsEarned

-------------------------------------------------------------------------------
(* What makes it so.  Every field of the snapshot and all that a stage    *)
(* remembers is bounded by the streams fed since the reset, and by these  *)
(* and Nan only where a bad sample of the last frames can still be.       *)
Tainted(streams, sane) == IF sane THEN streams ELSE streams \cup {Nan}

RawFields == {"Samples", "Magnitudes", "Phases", "VolumeLeft", "VolumeRight"}

Bound(f, streams, raw, onset) ==
  IF f \in RawFields THEN raw
  ELSE IF f = "Onset" THEN onset ELSE IF f = "Direction8" THEN Nat ELSE streams

Within(fields, streams, raw, onset) ==
  \A f \in DOMAIN fields : fields[f] \subseteq Bound(f, streams, raw, onset)

Sizes == {0} \cup {s.fft : s \in Settings}

LoudnessKeys == {<<>>} \cup ({0, 1} \X {s.window : s \in Settings})

(* `last` bounds what the onset function remembers of the last frame,     *)
(* `before` its phases of the frame before.                               *)
Memory(streams, last, before) ==
  [volume : SUBSET streams, bins : Sizes, bands : SUBSET streams,
   flux : [size : Sizes, prev : SUBSET streams],
   csd : [size : Sizes, seen : 0..2, mag : SUBSET last, phase : SUBSET last,
          phase2 : SUBSET before],
   onsets : SUBSET streams, phases : SUBSET streams,
   pan : {<<>>} \cup {<<v>> : v \in SUBSET streams}, direction : SUBSET Nat,
   loudness : [key : LoudnessKeys, sum : SUBSET (streams \cup {Nan})]]

PipelineTypeOK ==
  /\ fed \subseteq Nat /\ stream \in Nat /\ ring \in Seq(Nat)
  /\ settings \in Settings /\ clean \in 0..3

MemoryIsRecent ==
  /\ mem \in Memory(fed, Tainted(fed, clean >= 1), Tainted(fed, clean >= 2))
  /\ mem.csd.mag = mem.csd.phase

SnapshotIsRecent ==
  /\ Within(snapshot, fed, Tainted(fed, clean >= 1), Tainted(fed, clean = 3))
  /\ snapshot # Fields0 => Published \subseteq DOMAIN snapshot

PipelineInv == PipelineTypeOK /\ MemoryIsRecent /\ SnapshotIsRecent
===============================================================================
