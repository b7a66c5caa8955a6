-------------------------------- MODULE Session --------------------------------
(***************************************************************************)
(* The life of the add-on in a game's process, and of its settings file    *)
(* across processes: the phased boot of App (src/app.cpp), one phase per   *)
(* rendered frame through the boot scheduler, the overlay's operations on  *)
(* the settings, and the unloading in reverse order, at whatever phase it  *)
(* comes.  The process may be killed between any two steps.                *)
(*                                                                         *)
(* Settings are told apart by when they were chosen: 0 are the defaults a  *)
(* store is built with, n the n-th choice of the user.  Store::save()      *)
(* empties the file and then writes it: two steps.                         *)
(***************************************************************************)
EXTENDS Naturals

CONSTANT MaxChoices   (* bound on the choices of the user *)

ASSUME SessionAssumption == MaxChoices \in Nat

VARIABLES
  process,    (* "none", "up", or the step of App::stop() it is at:        *)
              (* "stopConsumers", "stopAudio", "saveSettings"              *)
  phase,      (* App::phase_                                              *)
  store, system, consumers,   (* which of App's parts exist               *)
  serving,    (* consumers started: overlay, uniforms, workers            *)
  live,       (* the settings in the store                                *)
  choices,    (* history: choices made so far                             *)
  saving,     (* Store::save() is between emptying and writing the file   *)
  file,       (* the settings file: what it holds, and which settings     *)
  saved,      (* history: the settings saved last, 0 for none             *)
  spoiled     (* history: since then the file was cut short or replaced   *)

appVars == <<process, phase, store, system, consumers, serving>>
fileVars == <<file, saved, spoiled>>
vars == <<appVars, live, choices, saving, fileVars>>

Init ==
  /\ process = "none"
  /\ phase = "LoadSettings"
  /\ store = FALSE /\ system = FALSE /\ consumers = FALSE
  /\ serving = FALSE
  /\ live = 0
  /\ choices = 0
  /\ saving = FALSE
  /\ file = [kind |-> "absent", settings |-> 0]
  /\ saved = 0
  /\ spoiled = FALSE

-------------------------------------------------------------------------------
(* Loading the add-on, and the phases of tick_boot().                     *)

(* DllMain builds the App and queues its boot; no part exists yet.        *)
Attach ==
  /\ process = "none"
  /\ process' = "up"
  /\ phase' = "LoadSettings"
  /\ UNCHANGED <<store, system, consumers, serving, live, choices,
                 saving, fileVars>>

Boot(from, to) == process = "up" /\ phase = from /\ phase' = to

(* What load() leaves in a store that holds `before`: a file that is      *)
(* missing, does not parse, or has another schema changes nothing.        *)
Loaded(before) == IF file.kind = "settings" THEN file.settings ELSE before

(* A mutant of LoadSettings: the file is not read.                        *)
LoadNothing ==
  /\ Boot("LoadSettings", "BuildAudioSystem")
  /\ store' = TRUE
  /\ live' = 0
  /\ UNCHANGED <<process, system, consumers, serving, choices, saving,
                 fileVars>>

LoadSettings ==
  /\ Boot("LoadSettings", "BuildAudioSystem")
  /\ store' = TRUE
  /\ live' = Loaded(0)
  /\ UNCHANGED <<process, system, consumers, serving, choices, saving,
                 fileVars>>

(* The check of the pipeline's composition, in debug builds, is of a      *)
(* constant, and passes.                                                  *)
BuildAudioSystem ==
  /\ Boot("BuildAudioSystem", "StartAudio")
  /\ system' = TRUE
  /\ UNCHANGED <<process, store, consumers, serving, live, choices,
                 saving, fileVars>>

StartAudio ==
  /\ Boot("StartAudio", "BuildConsumers")
  /\ UNCHANGED <<process, store, system, consumers, serving, live, choices,
                 saving, fileVars>>

(* The source does not open: the boot is halted, the add-on stays loaded, *)
(* and frames are rendered without it.                                    *)
StartAudioFails ==
  /\ Boot("StartAudio", "Failed")
  /\ UNCHANGED <<process, store, system, consumers, serving, live, choices,
                 saving, fileVars>>

(* A mutant of BuildConsumers: the phase is not advanced.                 *)
BuildConsumersAgain ==
  /\ Boot("BuildConsumers", "BuildConsumers")
  /\ consumers' = TRUE
  /\ UNCHANGED <<process, store, system, serving, live, choices, saving,
                 fileVars>>

BuildConsumers ==
  /\ Boot("BuildConsumers", "StartConsumers")
  /\ consumers' = TRUE
  /\ UNCHANGED <<process, store, system, serving, live, choices, saving,
                 fileVars>>

StartConsumers ==
  /\ Boot("StartConsumers", "Running")
  /\ serving' = TRUE
  /\ UNCHANGED <<process, store, system, consumers, live, choices,
                 saving, fileVars>>

-------------------------------------------------------------------------------
(* The overlay, while it is started, and the self-disarm poll.            *)

Idle == process = "up" /\ serving /\ ~saving

NewChoice ==
  /\ choices < MaxChoices
  /\ choices' = choices + 1
  /\ live' = choices + 1

(* An edited widget is published; a worker that failed is switched off.   *)
Edit ==
  /\ Idle
  /\ NewChoice
  /\ UNCHANGED <<appVars, saving, fileVars>>

(* save() has opened, and thereby emptied, the file.                      *)
EmptyFile ==
  /\ file' = [kind |-> "torn", settings |-> 0]
  /\ saving' = TRUE
  /\ UNCHANGED <<saved, spoiled>>

(* save() could not open the file, and returned false.                    *)
CannotOpen == UNCHANGED <<saving, fileVars>>

SaveButton ==
  /\ Idle
  /\ EmptyFile   (* or nothing, when the file cannot be opened *)
  /\ UNCHANGED <<appVars, live, choices>>

LoadButton ==
  /\ Idle
  /\ live' = Loaded(live)
  /\ UNCHANGED <<appVars, choices, saving, fileVars>>

(* Reset publishes defaults, which is a choice like others, and saves.    *)
ResetButton ==
  /\ Idle
  /\ NewChoice
  /\ EmptyFile \/ CannotOpen
  /\ UNCHANGED appVars

(* switch_source() stores the new code and saves; what it does to the     *)
(* audio system is in AudioSystem.                                        *)
SwitchSource ==
  /\ Idle
  /\ NewChoice
  /\ EmptyFile \/ CannotOpen
  /\ UNCHANGED appVars

-------------------------------------------------------------------------------
(* App::stop(), in DLL_PROCESS_DETACH.                                    *)

Detach ==
  /\ process = "up"
  /\ ~saving
  /\ process' = "stopConsumers"
  /\ UNCHANGED <<phase, store, system, consumers, serving, live,
                 choices, saving, fileVars>>

(* A mutant of StopConsumers: taken for granted that they were built.     *)
StopConsumersBuilt ==
  /\ process = "stopConsumers"
  /\ consumers
  /\ process' = "stopAudio"
  /\ serving' = FALSE
  /\ consumers' = FALSE
  /\ UNCHANGED <<phase, store, system, live, choices, saving, fileVars>>

(* if (consumers_): stop_all() and away with them.                        *)
StopConsumers ==
  /\ process = "stopConsumers"
  /\ process' = "stopAudio"
  /\ serving' = FALSE
  /\ consumers' = FALSE
  /\ UNCHANGED <<phase, store, system, live, choices, saving, fileVars>>

(* if (system_): stop() and away with it.                                 *)
StopAudio ==
  /\ process = "stopAudio"
  /\ process' = "saveSettings"
  /\ system' = FALSE
  /\ UNCHANGED <<phase, store, consumers, serving, live, choices, saving,
                 fileVars>>

(* if (store_): save() ...                                                *)
SaveAtStop ==
  /\ process = "saveSettings"
  /\ ~saving
  /\ store
  /\ EmptyFile
  /\ UNCHANGED <<appVars, live, choices>>

(* The process, or the add-on in it, is gone, and its memory with it.     *)
Gone ==
  /\ process' = "none"
  /\ phase' = "LoadSettings"
  /\ store' = FALSE /\ system' = FALSE /\ consumers' = FALSE
  /\ serving' = FALSE
  /\ live' = 0
  /\ saving' = FALSE
  /\ UNCHANGED choices

(* ... unless there is no store, or the file cannot be opened.            *)
Leave ==
  /\ process = "saveSettings"
  /\ ~saving
  /\ Gone
  /\ UNCHANGED fileVars

(* The rest of save(), from whichever place it was called; the live       *)
(* settings are still those it copied, since it runs on the render thread *)
(* as all that change them do.  After the last one App is destroyed.      *)
AfterSave ==
  IF process = "saveSettings"
  THEN Gone
  ELSE saving' = FALSE /\ UNCHANGED <<appVars, live, choices>>

WriteFile ==
  /\ saving
  /\ file' = [kind |-> "settings", settings |-> live]
  /\ saved' = live
  /\ spoiled' = FALSE
  /\ AfterSave

(* The stream fails half way: no exception is on, save() returns true.    *)
WriteFails ==
  /\ saving
  /\ spoiled' = TRUE
  /\ UNCHANGED <<file, saved>>
  /\ AfterSave

-------------------------------------------------------------------------------
(* The world around.                                                      *)

(* The process is killed, or crashes.                                     *)
Kill ==
  /\ process # "none"
  /\ Gone
  /\ spoiled' = (spoiled \/ saving)
  /\ UNCHANGED <<file, saved>>

(* A version of the add-on with another schema ran in between.            *)
OtherVersionRuns ==
  /\ process = "none"
  /\ file.kind # "foreign"
  /\ file' = [kind |-> "foreign", settings |-> 0]
  /\ spoiled' = TRUE
  /\ UNCHANGED <<appVars, live, choices, saving, saved>>

-------------------------------------------------------------------------------
TickBoot ==
  \/ LoadSettings \/ BuildAudioSystem \/ StartAudio \/ StartAudioFails
  \/ BuildConsumers \/ StartConsumers

Overlay == Edit \/ SaveButton \/ LoadButton \/ ResetButton \/ SwitchSource

Save == WriteFile \/ WriteFails

Unload == StopConsumers \/ StopAudio \/ SaveAtStop \/ Leave

Next ==
  \/ Attach \/ TickBoot \/ Overlay \/ Save \/ Detach \/ Unload
  \/ Kill \/ OtherVersionRuns

(* Frames are rendered, and calls return.                                 *)
Fairness == WF_vars(TickBoot) /\ WF_vars(Save) /\ WF_vars(Unload)

Spec == Init /\ [][Next]_vars /\ Fairness

-------------------------------------------------------------------------------
Phases == {"LoadSettings", "BuildAudioSystem", "StartAudio", "BuildConsumers",
           "StartConsumers", "Running", "Failed"}

Processes == {"none", "up", "stopConsumers", "stopAudio", "saveSettings"}

Choices == 0 .. MaxChoices

TypeOK ==
  /\ process \in Processes
  /\ phase \in Phases
  /\ store \in BOOLEAN /\ system \in BOOLEAN /\ consumers \in BOOLEAN
  /\ serving \in BOOLEAN /\ saving \in BOOLEAN /\ spoiled \in BOOLEAN
  /\ live \in Choices /\ choices \in Choices /\ saved \in Choices
  /\ file \in [kind : {"absent", "settings", "torn", "foreign"},
               settings : Choices]

(* A part is destroyed only after those that hold a reference to it, at   *)
(* whatever phase the unloading comes.                                    *)
BuiltInOrder ==
  /\ serving => consumers
  /\ consumers => system
  /\ system => store

(* What exists follows from the phase, until the unloading begins.        *)
PartsOfPhase ==
  /\ process = "up" =>
       /\ store <=> (phase # "LoadSettings")
       /\ system <=> (phase \notin {"LoadSettings", "BuildAudioSystem"})
       /\ consumers <=> (phase \in {"StartConsumers", "Running"})
       /\ serving <=> (phase = "Running")
  /\ process = "stopAudio" => ~consumers
  /\ process = "saveSettings" => ~system
  /\ process = "none" => ~store /\ ~saving
  /\ saving => store /\ process \in {"up", "saveSettings"}

(* Unless the file was cut short or replaced since, it holds the settings *)
(* saved last; there is none only if none were ever saved.                *)
SavedIsKept ==
  ~spoiled /\ ~saving =>
    \/ file.kind = "absent" /\ saved = 0
    \/ file.kind = "settings" /\ file.settings = saved

(* No session, after whatever restarts, failed boots, saves and loads,    *)
(* goes back behind the settings saved last.                              *)
NeverBehindSaved == store /\ ~spoiled => live >= saved

NothingFromTheFuture ==
  live <= choices /\ saved <= choices /\ file.settings <= choices

(* The parts of a session are built and destroyed in an order that never  *)
(* leaves a reference dangling (App::tick_boot(), App::stop()), and saved *)
(* settings are found again by every later session (Store::load(),        *)
(* Store::save()) unless a save was cut short or another version wrote.   *)
SessionInv ==
  /\ TypeOK /\ BuiltInOrder /\ PartsOfPhase
  /\ SavedIsKept /\ NeverBehindSaved /\ NothingFromTheFuture

(* Every boot comes to an end: it succeeds, or fails and stays so, unless *)
(* the add-on is unloaded before (App::tick_boot(), Scheduler::tick()).   *)
BootEnds ==
  (process = "up") ~> (phase \in {"Running", "Failed"} \/ process # "up")

(* An unloading that begins at any phase of the boot ends: App::stop() is *)
(* safe when parts are missing.                                           *)
UnloadEnds ==
  (process \in {"stopConsumers", "stopAudio", "saveSettings"})
     ~> (process = "none")
===============================================================================
