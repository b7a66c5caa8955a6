--------------------------- MODULE ConsumerRegistry ---------------------------
(***************************************************************************)
(* ConsumerRegistry (src/output/consumer_registry.cpp) with the network    *)
(* consumers it toggles, OscConsumer and OpenRgbConsumer: the settings     *)
(* flag of each, the registry's own record of which are started, and the   *)
(* worker thread each started consumer has.                                *)
(*                                                                         *)
(* The registry runs on the render thread, one call at a time; a call      *)
(* walks the consumers in registration order and blocks in stop() until    *)
(* the worker of the one it stops has ended.  Workers run on their own.    *)
(* The two always-on consumers have no thread and no flag: left out.       *)
(***************************************************************************)
EXTENDS Naturals

CONSTANTS
  N,             (* how many toggleable consumers are registered            *)
  TestsWhenOff   (* those whose test packet needs no worker: "openrgb"      *)

Consumers == 1 .. N

ASSUME RegistryAssumption == N \in Nat \ {0} /\ TestsWhenOff \subseteq Consumers

VARIABLES
  enabled,   (* settings.network.<id>.enabled in the store                 *)
  active,    (* active_                                                    *)
  walk,      (* the registry call in progress: "startAll", "apply" (that   *)
             (* is on_settings_changed), "poll" (poll_self_disarm),        *)
             (* "stopAll", "none", or "done" after stop_all()              *)
  at,        (* the consumer the walk is at                                *)
  joining,   (* the walk is inside stop(), waiting for the worker          *)
  any,       (* poll_self_disarm()'s local of that name                    *)
  running,   (* running_ of each consumer                                  *)
  disarm,    (* wants_disarm_                                              *)
  error,     (* last_error_ is not empty                                   *)
  worker,    (* worker_: "none", or where the thread is                    *)
  reloaded   (* history: settings replaced since on_settings_changed ran   *)

registryVars == <<enabled, active, walk, at, joining, any, reloaded>>
consumerVars == <<running, disarm, error, worker>>
vars == <<registryVars, consumerVars>>

(* The settings are loaded, the consumers are added, start_all() begins.  *)
Init ==
  /\ enabled \in [Consumers -> BOOLEAN]
  /\ active = [c \in Consumers |-> FALSE]
  /\ walk = "startAll"
  /\ at = 1
  /\ joining = FALSE
  /\ any = FALSE
  /\ running = [c \in Consumers |-> FALSE]
  /\ disarm = [c \in Consumers |-> FALSE]
  /\ error = [c \in Consumers |-> FALSE]
  /\ worker = [c \in Consumers |-> "none"]
  /\ reloaded = FALSE

-------------------------------------------------------------------------------
(* Calls on the render thread.                                            *)

(* The overlay publishes an edited flag and calls on_settings_changed().  *)
Toggle(c) ==
  /\ walk = "none"
  /\ enabled' = [enabled EXCEPT ![c] = ~@]
  /\ walk' = "apply"
  /\ at' = 1
  /\ UNCHANGED <<active, joining, any, reloaded, consumerVars>>

(* So it does when any other setting was edited.                          *)
Edit ==
  /\ walk = "none"
  /\ walk' = "apply"
  /\ at' = 1
  /\ UNCHANGED <<enabled, active, joining, any, reloaded, consumerVars>>

(* The overlay's Load and Reset replace the settings in the store, and    *)
(* call nothing of the registry.                                          *)
Reload(flags) ==
  /\ walk = "none"
  /\ flags # enabled
  /\ enabled' = flags
  /\ reloaded' = TRUE
  /\ UNCHANGED <<active, walk, at, joining, any, consumerVars>>

(* Once a frame: poll_self_disarm().                                      *)
Poll ==
  /\ walk = "none"
  /\ walk' = "poll"
  /\ at' = 1
  /\ any' = FALSE
  /\ UNCHANGED <<enabled, active, joining, reloaded, consumerVars>>

(* The addon is unloaded: stop_all(), in reverse order.                   *)
Unload ==
  /\ walk = "none"
  /\ walk' = "stopAll"
  /\ at' = N
  /\ UNCHANGED <<enabled, active, joining, any, reloaded, consumerVars>>

(* The test button.  The OSC consumer refuses without a worker; a test    *)
(* that fails records an error, one that works may clear it.              *)
SendTestPacket(c) ==
  /\ walk = "none"
  /\ running[c] \/ c \in TestsWhenOff
  /\ \E e \in BOOLEAN : error' = [error EXCEPT ![c] = e]
  /\ UNCHANGED <<registryVars, running, disarm, worker>>

-------------------------------------------------------------------------------
(* The steps of a walk.                                                   *)

InWalk(kinds) == walk \in kinds /\ at \in Consumers /\ ~joining

(* consumers_[at]->start() and active_[at] = true.                        *)
StartConsumer ==
  /\ InWalk({"startAll", "apply"})
  /\ enabled[at] /\ ~active[at]
  /\ active' = [active EXCEPT ![at] = TRUE]
  /\ IF running[at]
     THEN UNCHANGED consumerVars
     ELSE /\ disarm' = [disarm EXCEPT ![at] = FALSE]
          /\ error' = [error EXCEPT ![at] = FALSE]
          /\ running' = [running EXCEPT ![at] = TRUE]
          /\ worker' = [worker EXCEPT ![at] = "connecting"]
  /\ at' = at + 1
  /\ UNCHANGED <<enabled, walk, joining, any, reloaded>>

MustStop(c) == active[c] /\ (walk = "stopAll" \/ ~enabled[c])

(* consumers_[at]->stop(): running_.store(false), then the join begins.   *)
StopConsumer ==
  /\ InWalk({"apply", "stopAll"})
  /\ MustStop(at)
  /\ running' = [running EXCEPT ![at] = FALSE]
  /\ joining' = TRUE
  /\ UNCHANGED <<enabled, active, walk, at, any, reloaded, disarm, error, worker>>

Onward == IF walk = "stopAll" THEN at - 1 ELSE at + 1

(* A mutant of JoinWorker: the request to disarm survives the stop.       *)
JoinKeepsRequest ==
  /\ joining
  /\ worker[at] = "ended"
  /\ worker' = [worker EXCEPT ![at] = "none"]
  /\ active' = [active EXCEPT ![at] = FALSE]
  /\ joining' = FALSE
  /\ at' = Onward
  /\ UNCHANGED <<enabled, walk, any, reloaded, running, disarm, error>>

(* The worker has ended: joined; the request it may have left is cleared, *)
(* and active_[at] = false.                                               *)
JoinWorker ==
  /\ joining
  /\ worker[at] = "ended"
  /\ worker' = [worker EXCEPT ![at] = "none"]
  /\ disarm' = [disarm EXCEPT ![at] = FALSE]
  /\ active' = [active EXCEPT ![at] = FALSE]
  /\ joining' = FALSE
  /\ at' = Onward
  /\ UNCHANGED <<enabled, walk, any, reloaded, running, error>>

(* The consumer is as it should be.                                       *)
Skip ==
  /\ InWalk({"startAll", "apply", "stopAll"})
  /\ ~MustStop(at) \/ walk = "startAll"
  /\ ~(enabled[at] /\ ~active[at]) \/ walk = "stopAll"
  /\ at' = Onward
  /\ UNCHANGED <<enabled, active, walk, joining, any, reloaded, consumerVars>>

(* A mutant of PollConsumer: any error counts as a request to disarm.     *)
PollDisarmsOnError ==
  /\ InWalk({"poll"})
  /\ enabled' = [enabled EXCEPT ![at] = @ /\ ~error[at]]
  /\ any' = (any \/ error[at])
  /\ at' = at + 1
  /\ UNCHANGED <<active, walk, joining, reloaded, consumerVars>>

(* wants_self_disarm() of one consumer: if so its flag is cleared in the  *)
(* store.                                                                 *)
PollConsumer ==
  /\ InWalk({"poll"})
  /\ enabled' = [enabled EXCEPT ![at] = @ /\ ~disarm[at]]
  /\ any' = (any \/ disarm[at])
  /\ at' = at + 1
  /\ UNCHANGED <<active, walk, joining, reloaded, consumerVars>>

(* A mutant of EndWalk: the cleared flags are not applied.                *)
EndWalkUnapplied ==
  /\ walk \notin {"none", "done"} /\ at \notin Consumers
  /\ walk' = IF walk = "stopAll" THEN "done" ELSE "none"
  /\ at' = 1
  /\ reloaded' = (reloaded /\ walk # "apply")
  /\ UNCHANGED <<enabled, active, joining, any, consumerVars>>

(* The walk is over; a poll that cleared a flag goes on to apply it.      *)
EndWalk ==
  /\ walk \notin {"none", "done"} /\ at \notin Consumers
  /\ walk' = IF walk = "stopAll" THEN "done"
             ELSE IF walk = "poll" /\ any THEN "apply" ELSE "none"
  /\ at' = 1
  /\ reloaded' = (reloaded /\ walk # "apply")
  /\ UNCHANGED <<enabled, active, joining, any, consumerVars>>

-------------------------------------------------------------------------------
(* The worker thread of consumer c.                                       *)

At(c, from, to) == worker[c] = from /\ worker' = [worker EXCEPT ![c] = to]

(* The socket is open and the host resolved, or the server connected; a   *)
(* device list that cannot be had is recorded and not fatal.              *)
Connect(c) ==
  /\ At(c, "connecting", "loop")
  /\ \E e \in BOOLEAN : error' = [error EXCEPT ![c] = e]
  /\ UNCHANGED <<registryVars, running, disarm>>

(* A hard failure: the error is recorded, wants_disarm_ is set ...        *)
ConnectFails(c) ==
  /\ At(c, "connecting", "failing")
  /\ error' = [error EXCEPT ![c] = TRUE]
  /\ disarm' = [disarm EXCEPT ![c] = TRUE]
  /\ UNCHANGED <<registryVars, running>>

(* ... and the thread ends, having cleared running_.                      *)
GiveUp(c) ==
  /\ At(c, "failing", "ended")
  /\ running' = [running EXCEPT ![c] = FALSE]
  /\ UNCHANGED <<registryVars, disarm, error>>

(* One turn of the loop: sending fails, or works and clears the error.    *)
(* Lost connections are retried inside the loop and never end it.         *)
Turn(c) ==
  /\ worker[c] = "loop"
  /\ \E e \in BOOLEAN : error' = [error EXCEPT ![c] = e]
  /\ UNCHANGED <<registryVars, running, disarm, worker>>

(* A mutant of LoopEnds: the worker looks at its request flag instead.    *)
LoopEndsOnRequest(c) ==
  /\ At(c, "loop", "ended")
  /\ disarm[c]
  /\ UNCHANGED <<registryVars, running, disarm, error>>

(* The loop sees running_ cleared.                                        *)
LoopEnds(c) ==
  /\ At(c, "loop", "ended")
  /\ ~running[c]
  /\ UNCHANGED <<registryVars, running, disarm, error>>

-------------------------------------------------------------------------------
Walk ==
  \/ StartConsumer \/ StopConsumer \/ JoinWorker \/ Skip \/ PollConsumer
  \/ EndWalk

Call ==
  \/ \E c \in Consumers : Toggle(c) \/ SendTestPacket(c)
  \/ \E flags \in [Consumers -> BOOLEAN] : Reload(flags)
  \/ Edit
  \/ Poll
  \/ Unload

Work(c) == Connect(c) \/ ConnectFails(c) \/ GiveUp(c) \/ Turn(c) \/ LoopEnds(c)

(* After stop_all() the addon is gone.                                    *)
Done == walk = "done" /\ UNCHANGED vars

Next == Walk \/ Call \/ (\E c \in Consumers : Work(c)) \/ Done

(* A walk goes on; frames, and with them polls, keep coming until the     *)
(* addon is unloaded; connecting and sending return, and the loop looks   *)
(* at running_ every turn.                                                *)
Fairness ==
  /\ WF_vars(Walk)
  /\ SF_vars(Poll)
  /\ \A c \in Consumers :
       /\ WF_vars(Connect(c) \/ ConnectFails(c))
       /\ WF_vars(GiveUp(c))
       /\ WF_vars(LoopEnds(c))

Spec == Init /\ [][Next]_vars /\ Fairness

-------------------------------------------------------------------------------
(* The variables hold what the code can store in them.                    *)
TypeOK ==
  /\ enabled \in [Consumers -> BOOLEAN]
  /\ active \in [Consumers -> BOOLEAN]
  /\ walk \in {"startAll", "apply", "poll", "stopAll", "none", "done"}
  /\ at \in 0 .. N + 1
  /\ joining \in BOOLEAN
  /\ any \in BOOLEAN
  /\ running \in [Consumers -> BOOLEAN]
  /\ disarm \in [Consumers -> BOOLEAN]
  /\ error \in [Consumers -> BOOLEAN]
  /\ worker \in
       [Consumers -> {"none", "connecting", "failing", "loop", "ended"}]
  /\ reloaded \in BOOLEAN

(* A consumer the registry holds for stopped has no thread, joined or not, *)
(* so that start() never assigns over a joinable std::thread; and no      *)
(* request of an earlier run waits to disarm the next one.                *)
InactiveIsStopped ==
  \A c \in Consumers :
    ~active[c] => worker[c] = "none" /\ ~running[c] /\ ~disarm[c]

(* A started one has a thread until it is joined, even if it ended early. *)
ActiveHasThread == \A c \in Consumers : active[c] => worker[c] # "none"

(* Only a worker of the present run that met a hard failure asks to be    *)
(* disarmed: poll_self_disarm() never turns a healthy consumer off.       *)
OnlyFailuresDisarm ==
  \A c \in Consumers :
    /\ disarm[c] => worker[c] \in {"failing", "ended"}
    /\ worker[c] = "failing" => disarm[c]

(* running_ is never left set by a thread that is gone (start() would     *)
(* take it for started), nor cleared under a worker nobody stops unless   *)
(* that worker failed.                                                    *)
RunningTellsTheTruth ==
  \A c \in Consumers :
    /\ running[c] => worker[c] \in {"connecting", "failing", "loop"}
    /\ active[c] /\ ~running[c] /\ ~disarm[c] => joining /\ at = c

(* The join is of an active consumer that was told to stop.               *)
JoinIsOfAStopped ==
  joining => /\ walk \in {"apply", "stopAll"}
             /\ at \in Consumers
             /\ active[at]
             /\ ~running[at]
             /\ walk = "apply" => ~enabled[at]

(* What a walk has done to the consumers behind it.                       *)
WalkedPast ==
  /\ IF walk = "stopAll" THEN at <= N ELSE at >= 1
  /\ walk = "startAll" =>
       \A c \in Consumers : active[c] = (enabled[c] /\ c < at)
  /\ walk = "apply" =>
       \A c \in Consumers : c < at => active[c] = enabled[c]
  /\ walk = "poll" /\ ~any /\ ~reloaded => active = enabled
  /\ walk = "stopAll" => \A c \in Consumers : c > at => ~active[c]
  /\ walk = "done" => \A c \in Consumers : ~active[c]

(* Between calls the consumers that are started are those the settings    *)
(* enable, self-disarms included, unless the settings were replaced       *)
(* without a call of on_settings_changed().                               *)
TogglesMatchReality == walk = "none" /\ ~reloaded => active = enabled

RegistryInv ==
  /\ TypeOK
  /\ InactiveIsStopped
  /\ ActiveHasThread
  /\ OnlyFailuresDisarm
  /\ RunningTellsTheTruth
  /\ JoinIsOfAStopped
  /\ WalkedPast
  /\ TogglesMatchReality

(* The switches of Switchboard: a toggle is the flag in the settings, the *)
(* thread behind it the worker that is not joined yet.                    *)
HasThread == [c \in Consumers |-> worker[c] # "none"]

Phase ==
  CASE walk = "none" -> "idle"
    [] walk = "stopAll" -> "leaving"
    [] walk = "done" -> "gone"
    [] OTHER -> "busy"

Board ==
  INSTANCE Switchboard WITH
    Switches <- Consumers, wanted <- enabled, thread <- HasThread,
    failed <- disarm, phase <- Phase, stale <- reloaded

(* The registry implements the switchboard: a worker is never stopped     *)
(* while its toggle is on (but at unload), a toggle goes off by itself    *)
(* only if its own worker failed, and a call returns with toggles and     *)
(* threads in agreement, or with those of a Load not yet applied.         *)
ImplementsSwitchboard == Board!SwitchSpec

(* "When a network consumer's worker fails the initial connect, the       *)
(* toggle in the overlay flips off automatically" (CHANGELOG), and the    *)
(* failed worker is joined; unloading may come first.                     *)
FailureDisarms ==
  \A c \in Consumers :
    disarm[c] ~> (~enabled[c] \/ walk = "done") /\ worker[c] = "none"

(* Every call of the registry returns, though it may have to wait for a   *)
(* worker that is still connecting.                                       *)
CallsReturn == walk \notin {"none", "done"} ~> walk \in {"none", "done"}
===============================================================================
