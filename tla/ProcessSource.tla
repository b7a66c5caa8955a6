----------------------------- MODULE ProcessSource ----------------------------
(***************************************************************************)
(* ProcessAudioSource (src/audio/source/process_audio_source.cpp) and the  *)
(* asynchronous activation of its IAudioClient: open() activates one as a  *)
(* probe, on the control thread, and the capture thread activates its own. *)
(* Each activation has a handler, which Windows calls back, and an event,  *)
(* on which the caller waits for at most five seconds.                     *)
(*                                                                         *)
(* A callback may come after the wait is over, or never.  By then its      *)
(* event is closed, and Windows gives the values of closed handles away    *)
(* again.  AudioSystem models what the frames and the flags are used for;  *)
(* here it only opens, starts and stops the source in this order.          *)
(***************************************************************************)
EXTENDS Integers, FiniteSets

CONSTANTS
  MaxActivations,  (* bound: activations in a behaviour                    *)
  Handles,         (* the handle values Windows gives out                  *)
  NoHandle

ASSUME SourceAssumption ==
  /\ MaxActivations \in Nat \ {0}
  /\ NoHandle \notin Handles

VARIABLES
  control,   (* the control thread: "idle", "opening", "opened",           *)
             (* "started", "joining"                                       *)
  capture,   (* the capture thread: "none", "begin", "activating",         *)
             (* "setup", "loop", "ended"                                   *)
  running,   (* running_                                                   *)
  restart,   (* need_restart_                                              *)
  com,       (* the capture thread has initialised COM                     *)
  boosted,   (* ... and raised its priority (mmcss)                        *)
  audio,     (* the event of its stream                                    *)
  pc,        (* where the activation is: "none", "wait", "results",        *)
             (* "client", "take", "release"                                *)
  n,         (* activations so far; the n-th is the one under way          *)
  handler,   (* of each: [refs, ok, client, event, call], call being       *)
             (* where Windows is with it                                   *)
  client,    (* where the IAudioClient of each is: "none", "handler",      *)
             (* "waiter", "stream", "released", or "lost"                  *)
  read,      (* what the waiter has read: [ok, client]                     *)
  signalled, (* handles of the events that are set                         *)
  early      (* history: a wait has ended, by the timeout or by another's  *)
             (* signal, before its own callback signalled                  *)

threadVars == <<control, capture, running, restart, com, boosted, audio>>
activationVars == <<pc, n, handler, client, read, signalled, early>>
vars == <<threadVars, activationVars>>

Activations == 1..MaxActivations

Unused == [refs |-> 0, ok |-> FALSE, client |-> FALSE, event |-> NoHandle,
           call |-> "none"]

(* Handles in use: the event waited on, and that of the stream.           *)
Open == {audio} \cup (IF pc = "none" THEN {} ELSE {handler[n].event})

-------------------------------------------------------------------------------
(* The end of an activation, for whoever asked for it.  A failed capture  *)
(* thread clears running_ and undoes what it did.                         *)
CaptureEnds ==
  /\ capture' = "ended"
  /\ running' = FALSE
  /\ com' = FALSE /\ boosted' = FALSE
  /\ audio' = NoHandle

Returns(works) ==
  IF control = "opening"
  THEN /\ control' = IF works THEN "opened" ELSE "idle"
       /\ UNCHANGED <<capture, running, com, boosted, audio, restart>>
  ELSE /\ IF works THEN capture' = "setup" /\ UNCHANGED <<running, com, boosted, audio>>
          ELSE CaptureEnds
       /\ UNCHANGED <<control, restart>>

Asking == (control = "opening" \/ capture = "activating") /\ pc = "none"

(* CreateEvent or ActivateAudioInterfaceAsync fails.                      *)
ActivateFails ==
  /\ Asking
  /\ Returns(FALSE)
  /\ UNCHANGED activationVars

(* The handler starts with a reference of ours; Windows adds one.         *)
Activate(e) ==
  /\ Asking
  /\ n < MaxActivations
  /\ e \in Handles \ Open
  /\ n' = n + 1
  /\ handler' = [handler EXCEPT ![n + 1] =
                   [refs |-> 2, ok |-> FALSE, client |-> FALSE, event |-> e,
                    call |-> "pending"]]
  /\ signalled' = signalled \ {e}
  /\ pc' = "wait"
  /\ UNCHANGED <<client, read, early, threadVars>>

(* WaitForSingleObject(): the event resets itself when it is seen ...     *)
WaitSignalled ==
  /\ pc = "wait"
  /\ handler[n].event \in signalled
  /\ signalled' = signalled \ {handler[n].event}
  /\ early' = (early \/ handler[n].call \notin {"release", "done"})
  /\ pc' = "results"
  /\ UNCHANGED <<n, handler, client, read, threadVars>>

(* ... or five seconds pass; what the wait returned is not looked at.     *)
WaitTimesOut ==
  /\ pc = "wait"
  /\ handler[n].event \notin signalled
  /\ early' = TRUE
  /\ pc' = "results"
  /\ UNCHANGED <<n, handler, client, read, signalled, threadVars>>

(* activate_hr and result_hr, then client.                                *)
ReadResults ==
  /\ pc = "results"
  /\ read' = [read EXCEPT !.ok = handler[n].ok]
  /\ pc' = "client"
  /\ UNCHANGED <<n, handler, client, signalled, early, threadVars>>

ReadClient ==
  /\ pc = "client"
  /\ read' = [read EXCEPT !.client = handler[n].client]
  /\ client' = [client EXCEPT ![n] = IF handler[n].client THEN "waiter" ELSE @]
  /\ pc' = "take"
  /\ UNCHANGED <<n, handler, signalled, early, threadVars>>

(* handler->client = nullptr: one that arrived since is overwritten.      *)
Take ==
  /\ pc = "take"
  /\ handler' = [handler EXCEPT ![n].client = FALSE]
  /\ client' = [client EXCEPT ![n] = IF @ = "handler" THEN "lost" ELSE @]
  /\ pc' = "release"
  /\ UNCHANGED <<n, read, signalled, early, threadVars>>

(* The last reference deletes the handler; a client in it is not released.*)
Dropped(a) ==
  IF handler[a].refs = 1 /\ handler[a].client THEN "lost" ELSE client[a]

(* A mutant of Release: open() does not release its probe.                *)
ReleaseKeepsProbe ==
  /\ pc = "release"
  /\ handler' = [handler EXCEPT ![n].refs = @ - 1]
  /\ LET works == read.ok /\ read.client
     IN  /\ Returns(works)
         /\ client' = [client EXCEPT ![n] =
                         CASE works /\ control # "opening" -> "stream"
                           [] works /\ control = "opening" -> "waiter"
                           [] ~works /\ read.client -> "released"
                           [] OTHER -> Dropped(n)]
  /\ signalled' = signalled \ {handler[n].event}
  /\ read' = [ok |-> FALSE, client |-> FALSE]
  /\ pc' = "none"
  /\ UNCHANGED <<n, early>>

(* handler->Release(), then the results; the event is closed on return.   *)
(* The probe is released at once; a client with a bad result, too.        *)
Release ==
  /\ pc = "release"
  /\ handler' = [handler EXCEPT ![n].refs = @ - 1]
  /\ LET works == read.ok /\ read.client
     IN  /\ Returns(works)
         /\ client' = [client EXCEPT ![n] =
                         CASE works /\ control # "opening" -> "stream"
                           [] read.client /\ ~(works /\ control # "opening") -> "released"
                           [] OTHER -> Dropped(n)]
  /\ signalled' = signalled \ {handler[n].event}
  /\ read' = [ok |-> FALSE, client |-> FALSE]
  /\ pc' = "none"
  /\ UNCHANGED <<n, early>>

Waiter == ActivateFails \/ (\E e \in Handles : Activate(e)) \/ WaitSignalled
            \/ WaitTimesOut \/ ReadResults \/ ReadClient \/ Take \/ Release

-------------------------------------------------------------------------------
(* A mutant of CallResults: the event is set before the client is stored. *)
CallResultsSignals(a, ok, unk) ==
  /\ handler[a].call = "pending"
  /\ handler' = [handler EXCEPT ![a].ok = ok,
                                ![a].call = IF ok /\ unk THEN "client" ELSE "signal"]
  /\ signalled' = signalled \cup ({handler[a].event} \cap Open)
  /\ UNCHANGED <<pc, n, client, read, early, threadVars>>

(* ActivateCompleted(), on a thread of Windows.                           *)
CallResults(a, ok, unk) ==
  /\ handler[a].call = "pending"
  /\ handler' = [handler EXCEPT ![a].ok = ok,
                                ![a].call = IF ok /\ unk THEN "client" ELSE "signal"]
  /\ UNCHANGED <<pc, n, client, read, signalled, early, threadVars>>

CallClient(a) ==
  /\ handler[a].call = "client"
  /\ handler' = [handler EXCEPT ![a].client = TRUE, ![a].call = "signal"]
  /\ client' = [client EXCEPT ![a] = "handler"]
  /\ UNCHANGED <<pc, n, read, signalled, early, threadVars>>

(* SetEvent(done_event): on a closed handle it does nothing; if the value *)
(* was given away again it sets the event that has it now.                *)
CallSignal(a) ==
  /\ handler[a].call = "signal"
  /\ handler' = [handler EXCEPT ![a].call = "release"]
  /\ signalled' = signalled \cup ({handler[a].event} \cap Open)
  /\ UNCHANGED <<pc, n, client, read, early, threadVars>>

(* A mutant of CallReleases: the handler is released twice.               *)
CallReleasesTwice(a) ==
  /\ handler[a].call = "release"
  /\ handler' = [handler EXCEPT ![a].refs = @ - 2, ![a].call = "done"]
  /\ client' = [client EXCEPT ![a] = Dropped(a)]
  /\ UNCHANGED <<pc, n, read, signalled, early, threadVars>>

(* Windows is done with the handler.                                      *)
CallReleases(a) ==
  /\ handler[a].call = "release"
  /\ handler' = [handler EXCEPT ![a].refs = @ - 1, ![a].call = "done"]
  /\ client' = [client EXCEPT ![a] = Dropped(a)]
  /\ UNCHANGED <<pc, n, read, signalled, early, threadVars>>

Callback(a) ==
  \/ \E ok, unk \in BOOLEAN : CallResults(a, ok, unk)
  \/ CallClient(a) \/ CallSignal(a) \/ CallReleases(a)

-------------------------------------------------------------------------------
(* The control thread: open(), start() and stop().                        *)
OpenSource ==
  /\ control = "idle"
  /\ n < MaxActivations
  /\ control' = "opening"
  /\ UNCHANGED <<capture, running, restart, com, boosted, audio, activationVars>>

StartSource ==
  /\ control = "opened"
  /\ control' = "started"
  /\ running' = TRUE
  /\ restart' = FALSE
  /\ capture' = "begin"
  /\ UNCHANGED <<com, boosted, audio, activationVars>>

StopSource ==
  /\ control = "started"
  /\ control' = "joining"
  /\ running' = FALSE
  /\ UNCHANGED <<capture, restart, com, boosted, audio, activationVars>>

Join ==
  /\ control = "joining"
  /\ capture = "ended"
  /\ control' = "idle"
  /\ capture' = "none"
  /\ UNCHANGED <<running, restart, com, boosted, audio, activationVars>>

-------------------------------------------------------------------------------
(* capture_loop().  COM and the priority may each be refused.             *)
CaptureBegins ==
  /\ capture = "begin"
  /\ capture' = "activating"
  /\ com' \in BOOLEAN /\ boosted' \in BOOLEAN
  /\ UNCHANGED <<control, running, restart, audio, activationVars>>

(* Initialize, CreateEvent, SetEventHandle, GetService, Start.            *)
CaptureStarts(e) ==
  /\ capture = "setup"
  /\ e \in Handles \ Open
  /\ audio' = e
  /\ capture' = "loop"
  /\ UNCHANGED <<control, running, restart, com, boosted, activationVars>>

ClientReleased ==
  client' = [a \in Activations |-> IF client[a] = "stream" THEN "released" ELSE client[a]]

(* A mutant of CaptureFails: a failure after the activation returns       *)
(* without reverting the priority.                                        *)
CaptureFailsBoosted ==
  /\ capture = "setup"
  /\ capture' = "ended" /\ running' = FALSE /\ com' = FALSE /\ audio' = NoHandle
  /\ ClientReleased
  /\ UNCHANGED <<control, restart, boosted, pc, n, handler, read, signalled, early>>

(* One of them fails.                                                     *)
CaptureFails ==
  /\ capture = "setup"
  /\ CaptureEnds
  /\ ClientReleased
  /\ UNCHANGED <<control, restart, pc, n, handler, read, signalled, early>>

(* Windows has a packet, or a late callback set the handle; the packets   *)
(* there are, if any, go to the sink.                                     *)
Period ==
  /\ capture = "loop"
  /\ signalled' = IF audio \in signalled THEN signalled \ {audio} ELSE signalled \cup {audio}
  /\ UNCHANGED <<pc, n, handler, client, read, early, threadVars>>

LoopLeaves(asks) ==
  /\ capture = "loop"
  /\ CaptureEnds
  /\ ClientReleased
  /\ signalled' = signalled \ {audio}
  /\ restart' = (restart \/ asks)
  /\ UNCHANGED <<control, pc, n, handler, read, early>>

(* A mutant of LoopStops: running_ is looked at only after data.          *)
LoopStopsOnData == ~running /\ audio \in signalled /\ LoopLeaves(FALSE)

LoopStops == ~running /\ LoopLeaves(FALSE)

(* A packet that cannot be had and the watchdog ask for a restart; a wait *)
(* that fails does not.                                                   *)
LoopBreaks == running /\ \E asks \in BOOLEAN : LoopLeaves(asks)

Init ==
  /\ control = "idle" /\ capture = "none"
  /\ running = FALSE /\ restart = FALSE
  /\ com = FALSE /\ boosted = FALSE /\ audio = NoHandle
  /\ pc = "none" /\ n = 0
  /\ handler = [a \in Activations |-> Unused]
  /\ client = [a \in Activations |-> "none"]
  /\ read = [ok |-> FALSE, client |-> FALSE]
  /\ signalled = {} /\ early = FALSE

Next ==
  \/ OpenSource \/ StartSource \/ StopSource \/ Join
  \/ CaptureBegins \/ (\E e \in Handles : CaptureStarts(e)) \/ CaptureFails
  \/ Period \/ LoopStops \/ LoopBreaks
  \/ Waiter
  \/ \E a \in Activations : Callback(a)

(* The wait is bounded and the threads are scheduled; calls into Windows  *)
(* return.  A callback may never come, nor a packet.                      *)
Fairness ==
  /\ WF_vars(Waiter)
  /\ WF_vars(CaptureBegins) /\ WF_vars(CaptureFails \/ \E e \in Handles : CaptureStarts(e))
  /\ WF_vars(LoopStops) /\ WF_vars(Join)

Spec == Init /\ [][Next]_vars /\ Fairness

-------------------------------------------------------------------------------
(* However late Windows calls back, the handler it calls exists until it  *)
(* is done with it, and so it does for the waiter; and it is not leaked:  *)
(* without callback and waiter it is gone.                                *)
HandlersLive ==
  \A a \in Activations :
    handler[a].refs = (IF handler[a].call \in {"none", "done"} THEN 0 ELSE 1)
                      + (IF pc # "none" /\ a = n THEN 1 ELSE 0)

(* A client is never lost unless somebody was late: if every callback so  *)
(* far came within the wait for it, each client went to the thread that   *)
(* waited, and is with the stream or released when that thread moves on.  *)
NoClientLostInTime ==
  ~early => \A a \in Activations :
              /\ client[a] # "lost"
              /\ client[a] \in {"handler", "waiter"} => pc # "none" /\ a = n

(* One late answer can mislead a later wait, through the value of the     *)
(* handle, but nothing else can: a wait that ends before its own callback *)
(* signalled timed out, or came after one that did.                       *)
FirstEarlyTimedOut ==
  [][~early /\ early' => WaitTimesOut]_vars

(* A capture thread that ended, whichever of its exits it took, has left  *)
(* nothing behind: COM, priority, event and client are given back.        *)
EndedIsClean ==
  capture \in {"none", "ended"} =>
    /\ ~com /\ ~boosted /\ audio = NoHandle
    /\ \A a \in Activations : client[a] # "stream"

(* Why: the variables hold what the code can store in them ...            *)
ThreadTypeOK ==
  /\ control \in {"idle", "opening", "opened", "started", "joining"}
  /\ capture \in {"none", "begin", "activating", "setup", "loop", "ended"}
  /\ running \in BOOLEAN /\ restart \in BOOLEAN
  /\ com \in BOOLEAN /\ boosted \in BOOLEAN
  /\ audio \in Handles \cup {NoHandle}

Handler ==
  [refs : Int, ok : BOOLEAN, client : BOOLEAN, event : Handles \cup {NoHandle},
   call : {"none", "pending", "client", "signal", "release", "done"}]

ActivationTypeOK ==
  /\ pc \in {"none", "wait", "results", "client", "take", "release"}
  /\ n \in 0..MaxActivations
  /\ handler \in [Activations -> Handler]
  /\ client \in [Activations ->
       {"none", "handler", "waiter", "stream", "released", "lost"}]
  /\ read \in [ok : BOOLEAN, client : BOOLEAN]
  /\ signalled \subseteq Handles
  /\ early \in BOOLEAN

(* ... at most one thread waits for an activation, and the capture thread *)
(* lives between start() and the join in stop() ...                       *)
OneWaits ==
  /\ control \in {"idle", "opening", "opened"} <=> capture = "none"
  /\ pc # "none" => n > 0 /\ (control = "opening" \/ capture = "activating")

(* ... Windows calls back once for each activation that was asked for ... *)
CallsArePaired ==
  \A a \in Activations :
    /\ handler[a].call = "none" <=> a > n
    /\ handler[a].call # "none" => handler[a].event \in Handles

(* ... the stream has a client and an event from the set-up and the loop  *)
(* on, and what the thread acquired before is with it until it ends ...   *)
HeldWhileRunning ==
  /\ capture = "loop" <=> audio # NoHandle
  /\ com \/ boosted => capture \in {"activating", "setup", "loop"}
  /\ \A a \in Activations : client[a] = "stream" => capture \in {"setup", "loop"}

(* ... and, as long as no wait ended early, each callback is past its     *)
(* signal when the wait for it is over, so the event waited on is set by  *)
(* the callback it was made for ...                                       *)
Signals == {"release", "done"}

SignalsInTime ==
  ~early =>
    /\ \A a \in Activations : a < n \/ (a = n /\ pc # "wait") => handler[a].call \in Signals
    /\ pc = "wait" /\ handler[n].event \in signalled => handler[n].call \in Signals

(* ... and the client is where the handler, the waiter's copy and the     *)
(* place of the waiter say.                                               *)
ClientIsWhere(a) ==
  IF a > n THEN ~handler[a].client /\ client[a] = "none"
  ELSE IF a < n \/ pc = "none"
  THEN ~handler[a].client /\ client[a] \in {"none", "stream", "released"}
  ELSE CASE pc \in {"wait", "results", "client"} ->
              /\ client[a] = IF handler[a].client THEN "handler" ELSE "none"
              /\ handler[a].call \in {"pending", "client"} => ~handler[a].client
         [] pc = "take" -> client[a] = IF read.client THEN "waiter" ELSE "none"
         [] pc = "release" -> /\ ~handler[a].client
                              /\ client[a] = IF read.client THEN "waiter" ELSE "none"

ClientsFollowed == ~early => \A a \in Activations : ClientIsWhere(a)

(* The inductive invariant.                                               *)
SourceInv ==
  /\ ThreadTypeOK /\ ActivationTypeOK /\ OneWaits /\ CallsArePaired /\ HandlersLive
  /\ HeldWhileRunning /\ SignalsInTime /\ ClientsFollowed

(* open() and stop() return, though the callback may never come.          *)
CallsReturn ==
  /\ control = "opening" ~> control \in {"opened", "idle"}
  /\ control = "joining" ~> control = "idle"
===============================================================================
