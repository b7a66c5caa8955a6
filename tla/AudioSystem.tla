----------------------------- MODULE AudioSystem ------------------------------
(***************************************************************************)
(* AudioSystem (src/audio/pipeline/audio_system.cpp): the lifecycle of the *)
(* audio path.  Three kinds of threads meet here:                          *)
(*   - the control thread runs start(), stop() and switch_source(), one at *)
(*     a time under state_mutex_, and joins the other two;                 *)
(*   - the capture thread of the current source pushes frames into the     *)
(*     ring, and may end by itself when its device fails;                  *)
(*   - the DSP thread pops frames, runs the pipeline, publishes snapshots. *)
(*                                                                         *)
(* The ring is the bounded channel of FrameChannel and the snapshot the    *)
(* register of SnapshotRegister; a frame, and the snapshot made from it,   *)
(* are told apart only by the source they come from.                       *)
(***************************************************************************)
EXTENDS Naturals, Sequences

CONSTANTS
  Capturing,     (* sources with a capture thread: "system", "process"   *)
  Notified,      (* those told of device changes by Windows: "system"    *)
  OffSource,     (* the source of code "off": no thread, no frames       *)
  Available,     (* sources whose available() holds on this machine      *)
  Default,       (* the source whose info() says is_default              *)
  Unknown,       (* a configured code that no registered source has      *)
  NoSource,      (* the null current_                                    *)
  Zero,          (* the zeroed snapshot                                  *)
  RingCapacity   (* frames the ring holds                                *)

Sources == Capturing \cup {OffSource}

ASSUME SourcesAssumption ==
  /\ OffSource \notin Capturing
  /\ Notified \subseteq Capturing
  /\ Available \subseteq Sources
  /\ OffSource \in Available        \* "available() const { return true; }"
  /\ Default \in Sources
  /\ Unknown \notin Sources
  /\ NoSource \notin Sources
  /\ Zero \notin Sources

ASSUME RingCapacityAssumption == RingCapacity \in Nat \ {0}

VARIABLES
  state,         (* state_                                               *)
  configured,    (* capture_source_code in the settings store            *)
  current,       (* current_                                             *)
  ctl,           (* where the control thread is; "idle": mutex free      *)
  op,            (* the operation it runs                                *)
  captureThread, (* thread_ of each source: "none", or where it is:      *)
                 (* "setup", "running" (its loop) or "ended"             *)
  running,       (* running_ of each source                              *)
  restart,       (* restart_requested() of each source                   *)
  dspThread,     (* dsp_thread_: "none", the place it is at, or "ended"  *)
  dspRunning,    (* dsp_running_                                         *)
  frame,         (* the source of the frame the DSP thread works on      *)
  ring,          (* ring_: the sources of the frames in it               *)
  fed,           (* sources whose frames the pipeline's stages remember  *)
  snapshot       (* snapshot_: Zero or the source it was computed from   *)

controlVars == <<state, configured, current, ctl, op>>
captureVars == <<captureThread, running, restart>>
dspVars == <<dspThread, dspRunning, frame>>
vars == <<controlVars, captureVars, dspVars, ring, fed, snapshot>>

Init ==
  /\ state = "Off"
  /\ configured \in Sources \cup {Unknown}
  /\ current = NoSource
  /\ ctl = "idle"
  /\ op = "none"
  /\ captureThread = [s \in Sources |-> "none"]
  /\ running = [s \in Sources |-> FALSE]
  /\ restart = [s \in Sources |-> FALSE]
  /\ dspThread = "none"
  /\ dspRunning = FALSE
  /\ frame = NoSource
  /\ ring = <<>>
  /\ fed = {}
  /\ snapshot = Zero

-------------------------------------------------------------------------------
(* The control thread.  Goto(from, to) moves it; the mutex is held from   *)
(* leaving "idle" to returning there.                                     *)

Goto(from, to) == ctl = from /\ ctl' = to

(* start(): anything but Off returns at once and changes nothing.         *)
Start ==
  /\ Goto("idle", "choose")
  /\ state = "Off"
  /\ op' = "start"
  /\ UNCHANGED <<state, configured, current, captureVars, dspVars, ring, fed,
                 snapshot>>

(* stop(): stop_locked() returns at once when Off.                        *)
Stop ==
  /\ Goto("idle", "stopSource")
  /\ state # "Off"
  /\ op' = "stop"
  /\ state' = "Stopping"
  /\ UNCHANGED <<configured, current, captureVars, dspVars, ring, fed,
                 snapshot>>

(* switch_source(code): stop_locked(), set the code, start_locked().  The *)
(* overlay offers the available sources; its restart button passes the    *)
(* configured code, whatever it is.                                       *)
Switch(code) ==
  /\ ctl = "idle"
  /\ op' = code
  /\ IF state = "Off"
     THEN ctl' = "setCode" /\ UNCHANGED state
     ELSE ctl' = "stopSource" /\ state' = "Stopping"
  /\ UNCHANGED <<configured, current, captureVars, dspVars, ring, fed,
                 snapshot>>

(* The first half of current_->stop(): running_.store(false).             *)
StopSource ==
  /\ Goto("stopSource", "joinSource")
  /\ running' = [s \in Sources |-> running[s] /\ s # current]
  /\ UNCHANGED <<state, configured, current, op, captureThread, restart,
                 dspVars, ring, fed, snapshot>>

(* The second half: if (thread_.joinable()) thread_.join().               *)
JoinSource ==
  /\ Goto("joinSource", "stopDsp")
  /\ current \in Sources => captureThread[current] \in {"none", "ended"}
  /\ captureThread' =
       [s \in Sources |-> IF s = current THEN "none" ELSE captureThread[s]]
  /\ UNCHANGED <<state, configured, current, op, running, restart, dspVars,
                 ring, fed, snapshot>>

(* A mutant of StopDsp: the flag is not cleared before the join.          *)
StopDspNot ==
  /\ Goto("stopDsp", "joinDsp")
  /\ UNCHANGED <<state, configured, current, op, captureVars, dspVars, ring,
                 fed, snapshot>>

StopDsp ==
  /\ Goto("stopDsp", "joinDsp")
  /\ dspRunning' = FALSE
  /\ UNCHANGED <<state, configured, current, op, captureVars, dspThread,
                 frame, ring, fed, snapshot>>

(* A mutant of JoinDsp: the DSP thread is left to end on its own.         *)
JoinDspNot ==
  /\ Goto("joinDsp", IF state = "Starting" THEN "fail" ELSE "publishZero")
  /\ UNCHANGED <<state, configured, current, op, captureVars, dspVars, ring,
                 fed, snapshot>>

(* if (dsp_thread_.joinable()) dsp_thread_.join(), in stop_locked() and   *)
(* where start_locked() gives up because the source did not start.        *)
JoinDsp ==
  /\ Goto("joinDsp", IF state = "Starting" THEN "fail" ELSE "publishZero")
  /\ dspThread \in {"none", "ended"}
  /\ dspThread' = "none"
  /\ UNCHANGED <<state, configured, current, op, captureVars, dspRunning,
                 frame, ring, fed, snapshot>>

(* pipeline_.reset(), the zeroed snapshot, current_ = nullptr, Off.  The  *)
(* frames left in the ring stay there.                                    *)
PublishZero ==
  /\ ctl = "publishZero"
  /\ ctl' = IF op = "stop" THEN "idle" ELSE "setCode"
  /\ op' = IF op = "stop" THEN "none" ELSE op
  /\ fed' = {}
  /\ snapshot' = Zero
  /\ current' = NoSource
  /\ state' = "Off"
  /\ UNCHANGED <<configured, captureVars, dspVars, ring>>

(* store_->mutate(...) and store_->save() in switch_source().             *)
SetCode ==
  /\ Goto("setCode", "choose")
  /\ configured' = op
  /\ UNCHANGED <<state, current, op, captureVars, dspVars, ring, fed, snapshot>>

(* The overlay's Load and Reset replace the settings, the code included,  *)
(* and call no operation of the audio system.                             *)
Reload(code) ==
  /\ ctl = "idle"
  /\ code # configured
  /\ configured' = code
  /\ UNCHANGED <<state, current, ctl, op, captureVars, dspVars, ring, fed,
                 snapshot>>

-------------------------------------------------------------------------------
(* start_locked().                                                        *)

(* The configured source, whatever its available() says; else the default *)
(* one if it is available; else any available one, in registration order. *)
ChosenFor(code) ==
  IF code \in Sources THEN {code}
  ELSE IF Default \in Available THEN {Default}
  ELSE Available

Choose ==
  /\ Goto("choose", "open")
  /\ state' = "Starting"
  /\ current' \in ChosenFor(configured)
  /\ UNCHANGED <<configured, op, captureVars, dspVars, ring, fed, snapshot>>

(* current_->open(): the probe of the endpoint or the activation works.   *)
OpenSource ==
  /\ Goto("open", "startDsp")
  /\ UNCHANGED <<state, configured, current, op, captureVars, dspVars, ring,
                 fed, snapshot>>

(* open() returned nullopt; the off source never does.                    *)
OpenFails ==
  /\ Goto("open", "fail")
  /\ current \in Capturing
  /\ UNCHANGED <<state, configured, current, op, captureVars, dspVars, ring,
                 fed, snapshot>>

StartDsp ==
  /\ Goto("startDsp", "startSource")
  /\ dspRunning' = TRUE
  /\ dspThread' = "check"
  /\ UNCHANGED <<state, configured, current, op, captureVars, frame, ring, fed,
                 snapshot>>

(* current_->start(): a capturing source that runs already does nothing,  *)
(* otherwise it sets its flags and spawns its thread; then Running.       *)
StartSource ==
  /\ Goto("startSource", "idle")
  /\ op' = "none"
  /\ state' = "Running"
  /\ IF current \in Capturing /\ ~running[current]
     THEN /\ running' = [running EXCEPT ![current] = TRUE]
          /\ restart' = [restart EXCEPT ![current] = FALSE]
          /\ captureThread' = [captureThread EXCEPT ![current] = "setup"]
     ELSE UNCHANGED captureVars
  /\ UNCHANGED <<configured, current, dspVars, ring, fed, snapshot>>

(* start() returned false, as the interface allows a source to do.        *)
StartSourceFails ==
  /\ Goto("startSource", "stopDsp")
  /\ current \in Capturing
  /\ UNCHANGED <<state, configured, current, op, captureVars, dspVars, ring,
                 fed, snapshot>>

(* state_.store(State::Error); return false.                              *)
Fail ==
  /\ Goto("fail", "idle")
  /\ op' = "none"
  /\ state' = "Error"
  /\ UNCHANGED <<configured, current, captureVars, dspVars, ring, fed, snapshot>>

-------------------------------------------------------------------------------
(* The capture thread of source s, and Windows' device notifications.     *)

(* The device is opened and its stream started ...                        *)
CaptureReady(s) ==
  /\ captureThread[s] = "setup"
  /\ captureThread' = [captureThread EXCEPT ![s] = "running"]
  /\ UNCHANGED <<controlVars, running, restart, dspVars, ring, fed, snapshot>>

(* ... or a call fails: the thread ends by itself, asking for nothing.    *)
CaptureFails(s) ==
  /\ captureThread[s] = "setup"
  /\ captureThread' = [captureThread EXCEPT ![s] = "ended"]
  /\ running' = [running EXCEPT ![s] = FALSE]
  /\ UNCHANGED <<controlVars, restart, dspVars, ring, fed, snapshot>>

(* sink(...): the frame enters the ring, or is dropped when it is full.   *)
(* The thread looks at running_ only between bursts of packets.           *)
Push(s) ==
  /\ captureThread[s] = "running"
  /\ Len(ring) < RingCapacity
  /\ ring' = Append(ring, s)
  /\ UNCHANGED <<controlVars, captureVars, dspVars, fed, snapshot>>

(* The loop sees running_ cleared by stop().                              *)
CaptureStops(s) ==
  /\ captureThread[s] = "running"
  /\ ~running[s]
  /\ captureThread' = [captureThread EXCEPT ![s] = "ended"]
  /\ UNCHANGED <<controlVars, running, restart, dspVars, ring, fed, snapshot>>

(* The loop of the process source ends by itself: the stream is torn down *)
(* or the watchdog fires, which asks for a restart, or the wait fails,    *)
(* which does not.  The system source's loop has no such exit.            *)
CaptureTornDown(s) ==
  /\ s \notin Notified
  /\ captureThread[s] = "running"
  /\ captureThread' = [captureThread EXCEPT ![s] = "ended"]
  /\ running' = [running EXCEPT ![s] = FALSE]
  /\ \E asked \in BOOLEAN : restart' = [restart EXCEPT ![s] = @ \/ asked]
  /\ UNCHANGED <<controlVars, dspVars, ring, fed, snapshot>>

(* OnDefaultDeviceChanged sets device_change_pending_; start() clears it, *)
(* so notifications of a source that is not started are left out.         *)
DeviceChanges(s) ==
  /\ s \in Notified
  /\ captureThread[s] # "none"
  /\ ~restart[s]
  /\ restart' = [restart EXCEPT ![s] = TRUE]
  /\ UNCHANGED <<controlVars, captureThread, running, dspVars, ring, fed,
                 snapshot>>

-------------------------------------------------------------------------------
(* The DSP thread: dsp_thread_main().                                     *)

(* while (dsp_running_) -- the test.                                      *)
DspCheck ==
  /\ dspThread = "check"
  /\ dspThread' = IF dspRunning THEN "poll" ELSE "ended"
  /\ UNCHANGED <<controlVars, captureVars, dspRunning, frame, ring, fed,
                 snapshot>>

(* ring_.pop() finds nothing: sleep and look again.                       *)
DspSleep ==
  /\ dspThread = "poll"
  /\ ring = <<>>
  /\ dspThread' = "check"
  /\ UNCHANGED <<controlVars, captureVars, dspRunning, frame, ring, fed,
                 snapshot>>

DspPop ==
  /\ dspThread = "poll"
  /\ ring # <<>>
  /\ frame' = Head(ring)
  /\ ring' = Tail(ring)
  /\ dspThread' = "process"
  /\ UNCHANGED <<controlVars, captureVars, dspRunning, fed, snapshot>>

(* pipeline_.process(): the stages that ran keep state from the frame.    *)
DspProcess ==
  /\ dspThread = "process"
  /\ fed' = fed \cup {frame}
  /\ dspThread' = "publish"
  /\ UNCHANGED <<controlVars, captureVars, dspRunning, frame, ring, snapshot>>

(* A stage threw: no snapshot for this frame.                             *)
DspThrows ==
  /\ dspThread = "process"
  /\ fed' = fed \cup {frame}
  /\ frame' = NoSource
  /\ dspThread' = "check"
  /\ UNCHANGED <<controlVars, captureVars, dspRunning, ring, snapshot>>

DspPublish ==
  /\ dspThread = "publish"
  /\ snapshot' = frame
  /\ frame' = NoSource
  /\ dspThread' = "check"
  /\ UNCHANGED <<controlVars, captureVars, dspRunning, ring, fed>>

-------------------------------------------------------------------------------
(* The operations the application calls, and the steps that complete them.*)
Call ==
  \/ Start
  \/ Stop
  \/ \E code \in Available \cup {configured} : Switch(code)
  \/ \E code \in Sources \cup {Unknown} : Reload(code)

Continue ==
  \/ StopSource \/ JoinSource \/ StopDsp \/ JoinDsp \/ PublishZero \/ SetCode
  \/ Choose \/ OpenSource \/ OpenFails \/ StartDsp \/ StartSource
  \/ StartSourceFails \/ Fail

CaptureSetUp(s) == CaptureReady(s) \/ CaptureFails(s)

Capture(s) ==
  \/ CaptureSetUp(s) \/ Push(s) \/ CaptureStops(s) \/ CaptureTornDown(s)
  \/ DeviceChanges(s)

Dsp == DspCheck \/ DspSleep \/ DspPop \/ DspProcess \/ DspThrows \/ DspPublish

Next == Call \/ Continue \/ Dsp \/ \E s \in Capturing : Capture(s)

(* A called operation goes on, the DSP thread is scheduled, the device    *)
(* calls of a capture thread's set-up return, and its loop looks at       *)
(* running_ at least every 200 ms.  Nobody has to call an operation, and  *)
(* audio may stop arriving.                                               *)
Fairness ==
  /\ WF_vars(Continue)
  /\ WF_vars(Dsp)
  /\ \A s \in Capturing : WF_vars(CaptureSetUp(s)) /\ WF_vars(CaptureStops(s))

Spec == Init /\ [][Next]_vars /\ Fairness

-------------------------------------------------------------------------------
(* The variables hold what the code can store in them.                    *)
TypeOK ==
  /\ state \in {"Off", "Starting", "Running", "Stopping", "Error"}
  /\ configured \in Sources \cup {Unknown}
  /\ current \in Sources \cup {NoSource}
  /\ ctl \in {"idle", "stopSource", "joinSource", "stopDsp", "joinDsp",
              "publishZero", "setCode", "choose", "open", "startDsp",
              "startSource", "fail"}
  /\ op \in {"none", "start", "stop", Unknown} \cup Sources
  /\ captureThread \in [Sources -> {"none", "setup", "running", "ended"}]
  /\ running \in [Sources -> BOOLEAN]
  /\ restart \in [Sources -> BOOLEAN]
  /\ dspThread \in {"none", "check", "poll", "process", "publish", "ended"}
  /\ dspRunning \in BOOLEAN
  /\ frame \in Capturing \cup {NoSource}
  /\ ring \in Seq(Capturing)
  /\ fed \subseteq Capturing
  /\ snapshot \in Capturing \cup {Zero}

DspIsAlive == dspThread \notin {"none", "ended"}

(* Whatever sequence of operations ran, and wherever the capture threads  *)
(* died, no thread that was not joined belongs to a source that is no     *)
(* longer current: the ring keeps its single producer across switches.    *)
OneProducer ==
  \A s \in Sources : captureThread[s] # "none" => s = current

(* The std::thread objects are assigned only when nothing is joinable in  *)
(* them (assigning over a joinable one calls std::terminate), even when   *)
(* the thread in them ended by itself earlier.                            *)
NoThreadOverwritten ==
  /\ ctl = "startDsp" => dspThread = "none"
  /\ ctl = "startSource" /\ current \in Capturing =>
       captureThread[current] = "none" /\ ~running[current]

(* The control thread publishes the zeroed snapshot, and resets the       *)
(* pipeline, only when the DSP thread, the other writer of both, is gone. *)
SingleWriter == ctl = "publishZero" => dspThread = "none"

(* "Spin up DSP thread before starting source so no frame is dropped":    *)
(* while a capture thread exists, the DSP thread is alive and told to run.*)
FramesHaveAConsumer ==
  \A s \in Sources : captureThread[s] # "none" => DspIsAlive /\ dspRunning

(* Off is quiet: no thread is left, no source is current, the pipeline is *)
(* reset and the consumers see the zeroed snapshot.                       *)
OffIsQuiet ==
  state = "Off" =>
     /\ current = NoSource
     /\ \A s \in Sources : captureThread[s] = "none"
     /\ dspThread = "none"
     /\ fed = {}
     /\ snapshot = Zero

(* A start that failed leaves no thread behind.                           *)
ErrorLeavesNoThread ==
  state = "Error" =>
     dspThread = "none" /\ \A s \in Sources : captureThread[s] = "none"

(* Running means a source is current and the DSP thread serves it.        *)
RunningIsServed ==
  state = "Running" => current \in Sources /\ DspIsAlive /\ dspRunning

(* What holds at each place of the control thread: the public state, and  *)
(* which threads may exist.                                               *)
StateAt ==
  /\ ctl = "idle" => state \in {"Off", "Running", "Error"}
  /\ ctl \in {"stopSource", "joinSource", "publishZero"} => state = "Stopping"
  /\ ctl \in {"stopDsp", "joinDsp"} => state \in {"Starting", "Stopping"}
  /\ ctl \in {"setCode", "choose"} => state = "Off"
  /\ ctl \in {"open", "startDsp", "startSource", "fail"} => state = "Starting"
  /\ ctl = "setCode" => op \in Sources \cup {Unknown}
  /\ state = "Stopping" => op \in Sources \cup {Unknown, "stop"}
  /\ ctl \in {"open", "startDsp", "startSource"} => current \in Sources

ThreadsAt ==
  /\ ctl \notin {"idle", "stopSource", "joinSource"} =>
       \A s \in Sources : captureThread[s] = "none"
  /\ ctl \in {"publishZero", "setCode", "choose", "open", "startDsp", "fail"} =>
       dspThread = "none"
  /\ ctl = "startSource" => DspIsAlive /\ dspRunning
  /\ \A s \in Sources : running[s] => captureThread[s] \in {"setup", "running"}
  /\ dspThread \in {"process", "publish"} => frame \in Capturing

LifecycleInv ==
  /\ TypeOK
  /\ StateAt
  /\ ThreadsAt
  /\ OneProducer
  /\ NoThreadOverwritten
  /\ SingleWriter
  /\ FramesHaveAConsumer
  /\ OffIsQuiet
  /\ ErrorLeavesNoThread
  /\ RunningIsServed

(* start(), stop() and switch_source() return: no join waits for ever,    *)
(* whatever the capture and DSP threads are doing when it begins.         *)
OperationsReturn == ctl # "idle" ~> ctl = "idle"
===============================================================================
