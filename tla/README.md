# Listeningway in TLA+

Listeningway is a ReShade add-on. It captures the audio a machine (or one
process) plays, analyses it, and hands the result to shaders, to OSC receivers
and to an OpenRGB server. This directory holds a formal model of its concurrent
core, its signal path and its light patterns: TLA+ modules translated from the C++
sources, TLC configurations that check them on small instances, and proofs, checked
by TLAPS, of the main safety results for every value of the constants.

Paths below are relative to the repository, so `src/audio/...` is the add-on's
own source directory.

## 1. Inventory

### 1.1 The parts and how they interact

```
 Windows audio ──► capture thread ──push──► FrameRing ──pop──► DSP thread
                   (IAudioSource)                              │ pipeline stages
                        ▲                                      ▼ publish
       render thread ── start/stop/switch_source ── AudioSystem ── SeqlockSnapshot
            │                                                     │ read
            ├── overlay ── publish/mutate/save ── config::Store   ├─► UniformPublisher ─► shaders
            │                      ▲ version / snapshot           ├─► OSC worker ─► UDP
            └── ConsumerRegistry ──┴── start/stop ──► workers ────┴─► OpenRGB worker ─► TCP
```

| Part | State it keeps | Operations | Hard behaviours | What makes it correct |
|---|---|---|---|---|
| SeqlockSnapshot (`audio/snapshot/seqlock_snapshot.h`) | counter, one `AudioSnapshot` | `publish`, `read`, `has_data` | the two memcpys overlap; bounded retry; a writer that stops half way | a read that succeeds is one published snapshot; every read returns |
| FrameRing (`audio/ring/frame_ring.h`) | free list, queue, recycled chunks | `push`, `pop`, `recycle` | two threads pass chunks by pointer; the free list runs dry; a stage throws | no chunk lost or shared; first in, first out; back-pressure ends |
| AudioSystem (`audio/pipeline/audio_system.cpp`) | state, current source, two threads, ring, snapshot | `start`, `stop`, `switch_source`, `dsp_thread_main` | joins under a mutex, sources that die by themselves, failed starts | threads are owned and joined; one producer, one writer; operations return; Off is silent |
| Audio sources (`audio/source/*`) | thread, `running_`, restart request | `open`, `start`, `stop`, `capture_loop` | device loss, torn-down streams, notifications from Windows' threads | they end when told to; a restart they ask for happens |
| config::Store (`config/store.cpp`) | settings, version, file | `publish`, `mutate`, `snapshot`, `version`, `load`, `save` | replaced and announced in two steps; workers cache copies; the file may be cut short | an edit reaches whoever caches the settings |
| ConsumerRegistry (`output/consumer_registry.cpp`) | consumers, `active_` | `start_all`, `stop_all`, `on_settings_changed`, `poll_self_disarm` | workers that fail by themselves while the user toggles them | the record, the settings and the threads agree |
| OSC and OpenRGB consumers (`output/osc_consumer.cpp`, `output/openrgb_consumer.cpp`) | worker, `running_`, `wants_disarm_`, error | `start`, `stop`, `send_test_packet`, `worker_main` | failed connects, lost connections, edits while running | failures disarm and are shown; lost connections come back |
| Uniform publisher (`output/uniform_publisher.cpp`) | the shader's memory | `publish_uniforms` | two history rings unrolled by code in another file; band counts change | the history is complete, band by band, in the order documented |
| Boot, App, add-on (`app.cpp`, `boot/`, `listeningway_addon.cpp`) | boot phase | `tick`, `tick_running`, `stop` | a phase that fails; unloading half way | nothing is used before it is built |
| DSP pipeline and stages (`audio/dsp`) | thirteen stages with means, filters, previous frames | `validate`, `process`, `reset` | a stage throws half way; one bad sample in a recursive filter; a reset that forgets one of thirteen memories | what is published is complete, of this stream, and a number |
| Beat tracking (`audio/dsp/beat`, `beat_stage.cpp`) | onset history, tempo, two countdowns, the lock | `process`, `estimate`, `predict_beat` | countdowns re-primed from each other; windows at the ends of their buffers | beats recur and keep apart; the lock is earned; an estimate uses what it should |
| Overlay (`overlay/`) | the settings being edited | one draw function | the order of its calls on the other parts | as above |
| OpenRGB patterns (`output/openrgb_patterns`, the painting in `openrgb_consumer.cpp`) | per zone: peak, waterfall | `render_single`, `render_linear`, `render_matrix` | sizes and maps that come from a server; state kept over frames and changes of pattern | each LED shows its own zone's pattern |
| Log (`util/log.cpp`) | a file | text | none | not examined |

### 1.2 Which module models what

| Module | Models | Proofs |
|---|---|---|
| `SnapshotRegister` | what the snapshot channel promises: a register | |
| `SeqlockSnapshot`, `MCSeqlockSnapshot` | `SeqlockSnapshot::publish` and `read`, word by word | `Snapshot_proofs` |
| `FrameChannel` | what the ring promises: a bounded FIFO channel | |
| `FrameRing` | `push`, `pop`, `recycle` and the DSP loop around them | `FrameRing_proofs` |
| `AudioSystem` | the lifecycle, with the capture threads and the DSP thread | `AudioSystem_proofs` |
| `SettingsStore` | `Store` in memory and the workers that cache it | `Settings_proofs` |
| `Switchboard` | what the registry promises: threads that follow their toggles | |
| `ConsumerRegistry` | the registry and the two workers it toggles | `ConsumerRegistry_proofs` |
| `OpenRgbWorker` | the loop of the OpenRGB worker against its server | `OpenRgbWorker_proofs` |
| `Session` | boot, unloading, and the settings file across processes | `Settings_proofs` |
| `UniformPublisher` | history rings, snapshot, unrolling, uniforms | `Snapshot_proofs` |
| `BeatTracker` | the tracker's countdowns, windows and prediction | `Dsp_proofs` |
| `BeatStage` | the stage around it: onsets, history, throttled estimate, lock | `Dsp_proofs` |
| `CombTempo` | the index arithmetic of the tempo estimate | `Dsp_proofs` |
| `DspPipeline`, `MCDspPipeline` | the thirteen stages, composed, with exceptions, edits and restarts | `Dsp_proofs` |
| `LedPatterns` | what a zone shows and remembers | `Snapshot_proofs` |
| `LedPainter`, `MCLedPainter` | the frames the OpenRGB worker paints with them, zone by zone | `Snapshot_proofs` |
| `ProcessSource` | the process source: activation, late callbacks, the capture thread's exits | `ProcessSource_proofs` |

A proof module is named for its component; where two components that are proved
together share one (`Snapshot_proofs`: the snapshot and what its readers make of it, uniforms and lights;
`Settings_proofs`: the store in memory and on disk; `Dsp_proofs`: the tracker, its stage and the
pipeline), the names of the second one's specification carry a prefix
(`PublisherSpec`, `PaintSpec`, `StoreSpec`, `TrackerSpec`).

`AudioSystem` uses the ring and the snapshot through what their abstract
specifications promise: its `ring` is the sequence of frames in flight of
`FrameChannel`, its `snapshot` the register of `SnapshotRegister`, written and
read in one step. The refinements of section 4 are what entitles it to do so.
In the same way `SettingsStore` and `ConsumerRegistry` split a worker between
them: one models how it caches settings, the other how it starts and ends; `Session` has
the store's file, and takes for one step each what the registry and the audio
system do in many.

`DspPipeline` extends `BeatStage`, which extends `BeatTracker`: one step of the
pipeline is one step of each. It opens up what is `fed` in `AudioSystem`, and
`LedPainter` what is one step, `Paint`, in `OpenRgbWorker`; `ProcessSource` opens
up a source's `open()` and capture thread. Each of them takes from the larger
module only the order in which it is called.

## 2. How the modules correspond to the code

Variables bear the names of the members they stand for, without the trailing
underscore; actions bear the names of the functions, or of the step of a
function where another thread can see the middle of it.

**SeqlockSnapshot.** `seq` and `data` are `seq_` and `data_`; `data` is cut into
`Words`, and a word is told apart by the number of the publish it belongs to.
Each `memcpy` is a sequence of one-word steps in any order. The fences of the
code order the counter against the payload, so interleaving these steps gives
everything a reader can observe. The race of the two `memcpy`s is formally
undefined behaviour in C++; the model takes the outcomes the builds
produce, namely that each word is the old or the new one. `pc`, `spin`, `s1`,
`out` are the locals of a `read()`.

**FrameRing.** Chunks are numbered; holding a chunk is holding its number.
`filling` is the `unique_ptr` inside `push()`, `chunk` that of the DSP loop. A queue
operation is one step (the queues belong to moodycamel), and a refused
`try_enqueue` destroys the chunk: that it never happens is a result
(`AllChunksCirculate`), not an assumption.

**AudioSystem.** `ctl` is the place of the thread that holds `state_mutex_`.
`stop()` of a source is two steps, since clearing `running_` and joining are
apart. The process source may end by itself at any time in its loop; the system
source only before it. `OpenFails` and `StartSourceFails` are the two failures
the source interface allows. The overlay's restart button is
`Switch(configured)`. `fed` is the memory the pipeline's stages keep from
frames, emptied by `Pipeline::reset()`. Frames and snapshots are told apart by
the source they come from.

**SettingsStore.** Settings are numbered in the order in which they were stored;
`Fetch` reads the snapshot after `Check` read the version, as both workers and
the DSP thread do. `FirstSnapshot` and `FirstVersion` are the two lines before
each worker's loop.

**ConsumerRegistry.** A call of the registry is a `walk` over the consumers,
one step per consumer, which blocks in `JoinWorker`. The two consumers that
are always on have no thread and no flag and are left out. `Toggle` is an edit of a
flag, `Edit` of anything else. `Reload` is the
overlay's Load and Reset, which call nothing of the registry; `reloaded` is a
history variable that says so. `Switchboard` forgets the walk, the places of a worker
and its errors: it has the toggles, whether there is a thread behind each, and whether a
call is under way.

**Session.** One add-on in one game, over any number of processes. `phase` is
`App::phase_`; `process` adds the step of `App::stop()` it is at. `store`, `system` and
`consumers` say which of App's pointers are set. Settings are numbered by the user's choices; 0 are
the defaults. `save()` is two steps: opening empties the file, then it is written,
or is not, for want of space. The destructor's second `stop()` meets no part and does nothing.
The settings file's kind is what `load()` tells apart: absent, parsed, not parsed
("torn"), or of another schema ("foreign"). `saved` and `spoiled` are history variables.

**UniformPublisher.** A volume is the number of the frame it was computed from,
0 being silence. `Analyse` is the projection at the end of
`dsp_thread_main()`, `StopAudio` the zeroed snapshot, `PublishUniforms` the
whole of `publish_uniforms()` as far as these uniforms go; its other writes
copy one field each.

**OpenRgbWorker.** One worker, its `orgb::Client` (vendored under `third_party/`)
and the server. `link` is the client's socket with what the network knows of it:
"dead" is a connection the server gave up while the client does not know. `news` is
a DeviceListUpdated message not read yet, `outdated` the client's own flag,
`garbled` the rest of an answer that came after the 500 ms the client waits. Lists
are told apart by their lengths, which is what indexing `dev_frames` depends on.
`refresh_devices()` is `ListArrives` or `ListFails` followed by `Reshape`; the
check is one action per outcome. Two things the code does not show at first sight
come out of the vendored client: an end of stream makes
`checkForDeviceUpdates()` return `CantRestoreSocket`, since the socket has already
closed itself (`CheckClosed`), and `setDeviceColors()` never returns
`ConnectionClosed`, so that the branch at `openrgb_consumer.cpp:428` is
unreachable and has no action here.

**BeatTracker.** Periods are whole numbers of frames. `best`, the place where the
projected score peaks, is chosen freely within the window `predict_beat()`
searches; it includes 0, where the argmax starts. `toBeat`, `toPrediction` and
`phase` are the three counters. `pending` and `lead` are history variables: whether the
next beat is a predicted one, and the wait for the next prediction that the last
one left.

**BeatStage, DspPipeline.** A number is abstracted to the set of streams it was
computed from, with `Nan` among them when it is not a number (or infinite, which
the transform turns into one). What an operator does with `Nan` follows the
order of the operands in the code: `std::min(1, v)` and `std::max(0, v)` of a NaN
are the constant, a comparison with it is false, everything else passes it on.
Every stage is an operator from a frame under way and the stages' memory to the
same. `UpToBands`, `UpToEqualizer`, `UpTo(s, x)` and `Process` apply them in the order of
`compose_pipeline()`, which `Composition` states once more for `validate()`. A stage may
throw where it allocates; what the stages before it did stays done. `settings` is the copy of the DSP thread. The ring is reduced to what
a stopped source may have left in it. `validate()` guards nothing, since only debug
builds call it; that it accepts the composition is a conjunct of `NothingMissing`.

**CombTempo.** The program's own sizes; only which elements are read, by the
estimates that `BeatStage` makes once its history is warm (`WarmEstimatesAreWhole`).

**LedPatterns, LedPainter.** A colour is the snapshot and the part of the zone it
was computed for. Levels are whole numbers up to `Full` and positions exact
fractions, so the comparisons of the code are those of the model, without
rounding errors. A zone's state bears the names of `PatternState`; `past` and `since`
are history. A `Tick` is the part of the worker's turn that reads snapshot and settings; then
`PaintZone` and `SkipZone` are one round of the loop over a device's zones (`zone` and `offset`
are `zi` and `led_offset`), and `NextDevice` is the sending of the device's array. Whether it
arrives changes nothing here: `frames` (`dev_frames`) and the devices after it are painted
either way (the `break` for a closed connection is never reached, see section 6). The loops of
a matrix set LEDs one after the other; `Draw` says the same by the last cell in their order
that a LED belongs to.

**ProcessSource.** The activation is cut at every read and write that the
callback's thread can meet. `handler` has the reference count and the results,
`client` says who owns each `IAudioClient`. A handle is a value that
is free again once closed, so a late `SetEvent` may set another's event; `early` is a
history variable that says a wait ended before its own callback signalled.

## 3. The runs

| Run | Instance | Distinct states | What it shows |
|---|---|---|---|
| `seqlock` | 2 readers, 2 words, 2 attempts, 2 publishes | 247 thousand | good reads are whole; refinement of the register; reads return |
| `ring` | 3 chunks, 7 pushes | 2.7 thousand | chunk ownership, order, refinement of the channel, back-pressure ends |
| `lifecycle` | system, process and off sources, ring of 2 | 180 thousand | thread ownership, single writer, Off is quiet, operations return |
| `store` | 2 workers, 4 versions | 84 thousand | copies are never older than their versions; edits reach loops |
| `registry` | 2 consumers | 8.8 thousand | toggles match reality; refinement of the switchboard; failures disarm; calls return |
| `uniforms` | volume ring 4, band ring 3, 2 or 3 bands, 6 frames | 4 thousand | histories are complete, band by band |
| `session` | 3 choices, any number of processes | 1.3 thousand | parts go in order, saved settings are found again; boots and unloadings end |
| `openrgb` | 2 devices, a check every 2 ticks, 3 retries | 47 thousand | slots match devices, the status is honest; reconnects, sees hot-plugs, stops |
| `dsp` | 2 streams, 1 frame left over, 2 upsets, periods 2 to 5 | 207 thousand | what is published is complete, of this stream and a number; beats recur and keep apart; the lock is earned |
| `leds` | 3 device lists, 3 snapshots, 6 choices of patterns | 1.6 million | each LED shows its zone's pattern; the waterfall, the peak and its dot |
| `activation` | 3 activations, 2 handle values | 1.1 million | handlers live, clients have one owner, exits clean up, `open()` and `stop()` return |
| `uniforms_order` | as `uniforms` | violated | see section 6 |

Why the bounds are enough:

- **Seqlock.** Tearing needs two words. Two publishes let the counter pass by a
  reader that is between its two loads, and a second reader shows that
  readers do not disturb each other. The code makes four attempts; two already contain a failed
  attempt followed by a last one, and further attempts repeat the same steps.
- **Ring.** Three chunks let one be filled, one wait and one be processed at
  once, so the free list runs empty; seven pushes send each chunk
  round twice. `MaxPush` bounds the calls of `push()`.
- **Lifecycle.** Two capturing sources are what the code registers. The ring of
  two frames is enough for a frame of an old source to wait behind another.
  Nothing is bounded besides.
- **Store.** Two workers suffice as they do not interact; `MaxVersion` leaves
  three edits, one before, one during and one after a worker's start.
- **Registry.** There are two toggleable consumers in the code. Nothing is
  bounded.
- **Session.** Three choices tell what is live, what was saved and the defaults
  apart, with one to spare; processes are not counted, so any number of restarts is covered.
- **OpenRGB.** Lists of 0, 1 and 2 devices tell a partial list from an empty and a
  full one. A check every two ticks gives ticks with and without one. Nothing else
  is bounded.
- **DSP.** Two streams tell before and after a reset apart, and one frame left in the ring
  is analysed after it. Two upsets (bad samples, exceptions and edits together)
  allow each pair of them, in any order; a bad sample and the three frames after it
  see the last of it. Periods 1 and 6 lie outside the 2..5 that `process()` clamps
  to, as the code's do outside 10..256: the proofs hold for the real numbers. The
  code updates the tempo every 25 frames and locks after 12 updates; 2 and 2
  have every order of frames, updates and skipped estimates. Frames are not counted.
- **LEDs.** The device lists have a zone of every type, an empty zone, a device
  without LEDs, one that is shorter than its zones, a matrix with a gap and a
  number no LED has, and one without a map. Three levels include both ends of the
  scale; frames are not counted, so the waterfall's ring of three rows turns
  for ever.
- **Activation.** Three activations are an `open()`, its capture thread and another
  `open()`, each with a callback that may still be out; two handle values let the third
  get the value of a closed one. `MaxActivations` bounds them.
- **Uniforms.** Six frames go round both rings (4 and 3 slots), at different
  phases, with the band count changing at every frame; `MaxFrames` bounds them.
  The lengths 4 and 3 differ so that one cannot be mistaken for the other.

Three runs switch the deadlock check off, since `MaxPublish`, `MaxPush` and
`MaxActivations` end their behaviours when all readers, the DSP thread or the
control thread may rest.
The registry's `Done` keeps the end of the add-on from being taken for a deadlock.

### Fairness

Each specification says what keeps going and nothing else:

- a reader inside `read()` runs on; of the writer nothing is assumed
  (`ReadReturns` holds even if it stops half way through a publish);
- the DSP loop polls for ever; of the capture thread nothing is assumed;
- an operation of `AudioSystem`, once called, runs on when it is not waiting
  in a join; the device calls of a capture thread's set-up return and its loop
  looks at `running_` (its waits time out after 200 ms, `wasapi_loopback_source.cpp`
  and `process_audio_source.cpp`); no operation need ever be called;
- a `publish()` of the store returns and workers turn their loops (they sleep
  for bounded times); edits, starts and stops are the user's choice;
- frames keep being rendered until the add-on is unloaded, and with them
  `poll_self_disarm()`. This one is strong fairness, since the registry is busy with
  other calls again and again; workers' connects return (the resolver's and the
  socket's timeouts), and their loops look at `running_` each turn;
- frames are rendered, so that the boot goes on, and calls of `App::stop()` and
  `save()` return: for the joins this is what `lifecycle`, `registry` and `openrgb` show;
- the calls of the OpenRGB worker return, and neither connecting nor asking for the
  device list fails for ever when it is tried again and again (strong fairness of
  the two successes); the server may come and go for ever, except where the property says
  that it stays (`<>[]up`);
- of the process source, whoever waits for an activation goes on (the wait ends
  after five seconds), and so does the capture thread, whose waits end after 200 ms.
  Nothing is assumed of Windows: a callback may never come, nor a packet.
`DspPipeline` and `LedPainter` state safety only.

## 4. What is proved

All proofs are checked by TLAPS to the last leaf; the constants are arbitrary,
with the named assumptions of each module (natural numbers not zero, distinct
model values). Each safety proof has the same shape: the invariant holds
initially, each action keeps it (one step of the proof per action), and PTL
combines the two.

- `SeqlockInvariant`, `GoodReadsWhole`: `GoodReadsAreWhole` alone is not
  inductive. It needs `CounterDescribesPayload` (an even counter stands for a
  whole payload, and under an odd one the words still to be stored carry the
  previous number) and `CopyMatchesCounter` (what a reader copied so far is the
  snapshot of its `s1` as long as the counter still shows it).
- `SeqlockRefinesRegister`: every step of the seqlock is a step of
  `SnapshotRegister` or leaves it alone. `current` is read off the counter, so
  `EndPublish` is the publish, `Confirm` the read, and `GiveUp` the read that fails.
  Hence successive good reads of one thread never go back in time.
- `RingInvariant`: chunks are conserved and have one owner. The proof counts:
  the lengths of both queues and the two hands add up to the capacity, so
  `try_enqueue` always finds room.
- `RingRefinesChannel`: the ring implements `FrameChannel`. Refusing a push
  means all chunks are in flight.
- `RingAnalysisAdvances`: an action property, from the same invariant.
- `LifecycleInvariant`: `StateAt` and `ThreadsAt` say what holds at each place
  of the control thread; with them thread ownership is inductive.
- `StoreInvariant`: rests on the order of the two reads in `Check` and `Fetch`.
- `WorkerInvariant`: the places of the OpenRGB worker's loop are gathered in `Turning`;
  `reshape`, the step between a refresh and the loop, is the one place at which slots and devices may differ.
- `SessionInvariant`: `SavedIsKept` and `NeverBehindSaved` need each other (what `load()`
  finds is what was saved last) and `PartsOfPhase` (a save is under way only while there is a store).
- `TrackerInvariant`: that beats recur (`phase < Longest`) is not inductive. It needs
  `CountdownsAgree`: while a prediction is awaited, `phase` and the wait add up to at
  most half the longest period; once it is made the beat comes before the next
  prediction, within half a period of it. For `LooksBackInBuffer` only the bounds of the
  period matter.
- `TrackerKeepsBeatsApart`: an action property, from `LeadIsKept`: after a
  predicted beat the wait and the placeholder both last at least the lead.
- `RegistryInvariant`: `WalkedPast` says what a walk did to the consumers
  behind it; `JoinIsOfAStopped` what is known while it waits.
- `RegistryImplementsSwitchboard`: `Phase` and `HasThread` read the switchboard's state off the
  walk and the workers. The invariant says why a step is allowed there: `JoinIsOfAStopped` that
  the toggle is off, `OnlyFailuresDisarm` that a cleared flag had a failure, `WalkedPast` that
  toggles and threads agree when the walk ends. That a toggle goes off only for a failure is no part of the
  invariant: a `poll_self_disarm()` that took any error for a request would keep it, not the refinement.
- `PublisherInvariant`, for any lengths of the two rings and any band counts: the
  property is about the uniforms, so `HistoryInv` follows a value on its way. A slot `i`
  of a ring of `L` with its head at `h` holds the frame of age `(h - 1 - i) % L` (`RingsFollow`);
  `SnapshotFollows` says the same of the snapshot, `UniformsFollow` of what was unrolled. The
  arithmetic is in lemmas over plain numbers: one more frame ages every slot by one, except the
  slot written, whose age is 0; and unrolling from the slot after the head turns ages into
  positions. That what a band's slots hold depends on the band count at the time is why the
  history variable `counts` is carried along.
- `HandlersAlwaysLive`, `InTimeNoClientIsLost`, `EndedIsAlwaysClean` rest on `SourceInv`:
  a handler's count of references is what the waiter and the callback still hold
  (`HandlersLive`, with `CallsArePaired`), and an `IAudioClient` is where the handler and the
  place of the waiter say (`ClientsFollowed`). The last two hold as long as no wait ended early,
  and for that the event of the wait must belong to its own callback: `SignalsInTime`, no older
  callback is left that could still set it.
- `OnlyATimeoutIsEarlyFirst`: an action property from the same invariant: the first
  wait that ends before its callback does so by its own five seconds; another's `SetEvent`
  can only come after one that did.
- `PipelineImplementsTracker`: every step of the pipeline (a frame, a stage that throws, a reset,
  an edit) is a step of `BeatTracker` or leaves it alone, so `TrackerInv` and `BeatsKeepApart`
  carry over (`PipelineKeepsBeats`).
- `LockIsAlwaysEarned`: that the lock follows on `LockedHold` confirmations is not
  inductive; `LockCounts` bounds the frames counted by the updates seen, so that the counter of frames
  cannot run ahead of them.
- `PipelineInvariant`: whatever streams and settings there are, every memory of the thirteen stages and every
  field of the snapshot was computed from the streams of frames since the last
  reset (`fed`), and is a number except for a bounded time after a bad sample. The time is why
  the invariant tells ages apart: the onset function keeps the magnitudes and phases of the last
  frame and the phases of the one before, so `Nan` may be in the first until one good frame, in
  the second until two, and in what is published until three (`Memory(streams, last, before)`,
  `Within`); only the loudness sum keeps it. The proof takes the frame under way from stage to stage,
  one lemma each, through the order of `Process`.
- `ResetAlwaysForgets`, `BadSamplesAlwaysPass`, `NothingIsEverMissing` follow from it; the
  last adds that `validate()` accepts the composition, and rests on the constant that stands for an
  absent field being no number.
- `EstimatesAreAlwaysWhole`: with the program's own sizes, proved rather than enumerated. A
  quotient is put between two numbers by multiplying (`QuotientBetween`); the longer lag of a
  tempo is at least 32 samples and the shorter at most that (`LongLag`, `ShortLag`), and ten beats per minute
  more make the longer one shorter (`LagsFall`), so tempos ten beats apart are told apart; the
  threshold's windows are intervals of known size.
- `PainterInvariant`, for any devices, zones, maps, snapshots, patterns and frame times: the
  properties speak of LEDs, the code of offsets and of a state per zone, and `PainterInv` joins them.
  `OffsetIsStart`: the running offset is the number of LEDs before the zone (a cardinality, so that
  no induction is needed: `NextStart`, `ZonesApart`). `ZonesShow`: a zone painted in this frame
  shows its `Picture`, which is drawn from the snapshot and from the state the zone was left in;
  slices lie apart, so no later zone of the device touches it, and `OthersAreDark`. `ZonesRemember`: the ring of a
  waterfall is its past, row by row before the head (`RowsRemembered`), and the rest of a peak's
  hold and the time since it rose make up the hold time (`PeakRemembered`).
- `LedsAreTheirZones`, `WaterfallsShowThePast`, `DotIsAlwaysTheApex` and the action property
  `PeaksAreHeld` follow from it, with lemmas about the patterns: every colour of a picture is meant for its LED
  (`PictureIsOwn`, pattern by pattern), and the division that places the dot puts it on the last
  LED the bar could reach (`DotFits`).

Only model-checked is liveness (`ReadReturns`, `AcceptedFramesAreTaken`, `BackPressureEnds`,
`OperationsReturn`, `EditsReachLoops`, `FailureDisarms`, `CallsReturn`, `Reconnects`, `HotPlugIsSeen`,
`StopReturns`, `BootEnds`, `UnloadEnds`), which under fairness is out of the prover's reach.

## 5. What is not modelled

- The values the DSP stages compute, the weights of the tempo estimate and where the
  tracker's score peaks: floating point. What they are computed from is modelled.
- Rounding errors in the patterns' positions; hue, brightness and bytes of a colour.
- The format of the settings file and the clamping of values.
- Windows: the loader lock, the meaning of device errors, the calls of the system
  source. Sources are modelled by which steps can fail.
- The wire formats of OSC and OpenRGB; the layout of the overlay; the log.

## 6. Where the code and its documents part

Shown by a run of this project (a counterexample TLC prints):

- `uniforms_order`: `volume_history_head` is the slot written *next*, and
  `publish_uniforms()` starts unrolling one slot after it. The newest volume comes
  last but one and the oldest last, while `assets/ListeningwayUniforms.fxh:110`
  and `STABILITY.md:66` promise the newest last. The band history has
  the same shift. The histories do hold the right frames, which is what `uniforms` shows.

Known gaps that no run shows, found while modelling. In the audio system and the settings:

- `stop_locked()` does not empty the ring (`audio_system.cpp:107-112`): frames of the
  source that was stopped are analysed after the switch, with the off source too, and the
  snapshot of the last of them then stays published. `off_source.h:8-9` has the
  snapshot driven "to all zeros while the user has the dropdown set to Off". The
  `Restart` of `DspPipeline` and the DSP thread of `AudioSystem` behave so.
- Workers take their first snapshot of the settings (`osc_consumer.cpp:242`,
  `openrgb_consumer.cpp:152`, `audio_system.cpp:132`) before the version they compare
  with (`:256`, `:310`, `:133`). An edit in between is taken for seen and not taken up until
  the next edit; `EditsReachLoops` therefore speaks of workers in their loops.

- No code calls `restart_requested()`: a source that asks to be restarted
  (`process_audio_source.cpp:340`, `:400`; `wasapi_loopback_source.cpp:51-67`) leaves the system Running, and in the case
  of the process source without a thread, until the user switches.
  `i_audio_source.h:54-56` says it is polled. In `AudioSystem` no action reads `restart`.
- In `ProcessAudioSource` the watchdog (`process_audio_source.cpp:349-356`) runs only when no event
  came, and silent packets reset it; the comment at `:338-340` speaks of
  "silence-or-stall". A failed wait or a failed set-up asks for no restart.
- A callback that comes after the wait is over finds its handler alive, but the
  client it stores there is never released, since `ActivationHandler` has no
  destructor; its `SetEvent` (`:92`) may end another wait early, which then misses its
  own client. `CoUninitialize` (`:407`) runs before the `ComPtr`s of `:262` and `:316`
  release, and that of `open()` (`:213`) is missing.

In the signal path:

- `DirectionalStage` has no `reset()` (`directional_stage.h:136`), so the direction of
  the stream before fades into the next; `i_dsp_stage.h:52-55` has stages with internal
  state reset "when the pipeline is stopped or the source format changes". `ResetForgets` excepts this
  field. No code resets the pipeline for a change of format.
- After one NaN or infinite sample the loudness shows full scale until the next
  reset, change of format or change of window: `running_sum_` and the filters keep it
  and `std::min(1, v)` (`loudness_stage.h:84`) hides it. `BadSamplesPass` states what the
  other stages do.
- The first prediction after a reset may find no peak and fire at once; a reset's
  `time_to_next_beat_` of -1 fires on the first frame (`beat_tracker.cpp:19`, `:102`).
- When the period falls below the wait for the next prediction, the placeholder
  of `beat_tracker.cpp:108` ends first and a beat is fired that nothing predicted: `BeatsKeepApart`
  says what is left.
- Below about 43 frames per second half a window of onsets is never reached
  (`odf_buffer.cpp:33-39`, `:66`), so no tempo is ever estimated.
- `BeatStage` declares that it reads `FluxTotal` and does not; the four fluxes are
  not published. `bands_16` and `bands_32` are computed before the boost and the
  equalizer.

In the light patterns:

- The peak dot of the VU meter vanishes when the peak is the whole strip: `std::round(n - 0.5)` is
  `n` (`linear_patterns.cpp:101`), while the comment above it has the dot "at the apex".
  `DotIsTheApex` says where it is.
- `StereoSplit` on a strip of one LED shows the right channel only (`:157`). A zone's
  state outlives a change of pattern: an old waterfall or peak shows for a
  moment. `PatternState::idle_colour` is written and never read.

In the outputs:

- A failed request of the device list (`openrgb_consumer.cpp:292`, and all callers of
  `refresh_devices()`) is not repeated: one answer that comes later than the
  client's 500 ms leaves the worker connected to a server whose devices it does not
  paint, until the server reports a change or drops the connection.
  `docs/openrgb.md:56` has it "recover automatically rather than need manual restart".
- ADR-0012 (`docs/adr/0012-openrgb-output.md:139`) has the worker detect a lost
  connection by `RequestStatus::ConnectionClosed` and `UpdateStatus::ConnectionClosed`; the
  vendored client returns neither from the calls in question. Connections do
  come back (`Reconnects`), by way of the two paths described in section 2.
- A refresh that fails clears `connected_`, and one that works later does not set
  it: the status line shows the old error while devices are painted.
- A worker that fails to start clears `running_` (`osc_consumer.cpp:250-253`), and `status_line()` then
  says "off" (`:163`): the error it recorded is never shown, while ADR-0010
  (`docs/adr/0010-network-outputs.md:123`) asks for "the last error if `start()` failed" and "no silent failures".
- `Store::save()` returns true when the stream fails after it was opened
  (`store.cpp:44-46`); `store.h:27` says "Returns false on I/O error".
- A settings file that was cut short, or that another version wrote with another
  schema, is overwritten with defaults when the add-on is next unloaded, since
  `App::stop()` saves whatever the store holds.
- `SeqlockSnapshot::read()` hands out its last, possibly torn, copy when all
  attempts fail; the header speaks of `last_good_copy` (`seqlock_snapshot.h:21`)
  and of "one stale frame" (`:67`). `RegGiveUp` of `SnapshotRegister` states what
  is really promised.
- Load and Reset in the overlay (`overlay.cpp:1399-1415`) do not call
  `on_settings_changed()`: consumers follow at the next toggle. `TogglesMatchReality`
  is stated for settings not replaced in this way.
- After `stop()` the zeroed snapshot has `freq_band_count` 0, so no element of
  the band uniforms is written and a shader keeps seeing the last spectrum
  (`uniform_publisher.cpp:67`).

## 7. Plan

Done, in this order: the snapshot channel and the ring (the data path and its
two lock-free structures), the lifecycle that owns the threads, the settings
store, the registry with its workers, the uniforms, the OpenRGB worker, the
boot with the settings file; the beat tracker with its proofs, its stage and the
pipeline around them, the light patterns and their painting, the activation of the process source.

Next:

1. Proofs: that the store's refetch implements a cached register.
2. `BandsStage`: that its bands cover the spectrum, and `downsample` against a reference definition.
3. The OSC encoder's buffers and the rate its status line shows.
4. The capture loop of the system source in detail: packets, silence flags, the
   device notifications, each with the path that tears it down.
