----------------------------- MODULE Switchboard -----------------------------
(***************************************************************************)
(* What the consumer registry promises to the user of the toggles: each    *)
(* toggle has a thread behind it, spawned only while the toggle is on and  *)
(* joined only once it is off or the add-on leaves.  A toggle goes off by  *)
(* itself only if its thread failed.  When a call returns, toggles and     *)
(* threads agree, and after the last call no thread is left.               *)
(***************************************************************************)
CONSTANT Switches   (* the consumers that have a toggle                    *)

VARIABLES
  wanted,   (* what each toggle shows                                      *)
  thread,   (* whether its consumer has a thread                           *)
  failed,   (* whether that thread failed and asks to be disarmed          *)
  phase,    (* "busy" inside a call, "idle" between calls, "leaving"       *)
            (* inside the last one, "gone" after it                        *)
  stale     (* the toggles were replaced and no call has applied them      *)

switchVars == <<wanted, thread, failed, phase, stale>>

(* The first call, start_all(), is about to run.                          *)
SwitchInit ==
  /\ wanted \in [Switches -> BOOLEAN]
  /\ thread = [s \in Switches |-> FALSE]
  /\ failed = [s \in Switches |-> FALSE]
  /\ phase = "busy"
  /\ stale = FALSE

Flip(s) ==
  /\ phase = "idle" /\ phase' = "busy"
  /\ wanted' = [wanted EXCEPT ![s] = ~@]
  /\ UNCHANGED <<thread, failed, stale>>

Replace ==
  /\ phase = "idle"
  /\ wanted' \in [Switches -> BOOLEAN]
  /\ stale' = TRUE
  /\ UNCHANGED <<thread, failed, phase>>

Call ==
  /\ phase = "idle" /\ phase' \in {"busy", "leaving"}
  /\ UNCHANGED <<wanted, thread, failed, stale>>

Spawn(s) ==
  /\ phase = "busy"
  /\ wanted[s] /\ ~thread[s]
  /\ thread' = [thread EXCEPT ![s] = TRUE]
  /\ UNCHANGED <<wanted, failed, phase, stale>>

(* A thread that is joined takes its failure with it.                     *)
Join(s) ==
  /\ thread[s]
  /\ \/ phase = "leaving"
     \/ phase = "busy" /\ ~wanted[s]
  /\ thread' = [thread EXCEPT ![s] = FALSE]
  /\ failed' = [failed EXCEPT ![s] = FALSE]
  /\ UNCHANGED <<wanted, phase, stale>>

(* At any time, also inside a call.                                       *)
Fail(s) ==
  /\ thread[s] /\ ~failed[s]
  /\ failed' = [failed EXCEPT ![s] = TRUE]
  /\ UNCHANGED <<wanted, thread, phase, stale>>

Disarm(s) ==
  /\ phase = "busy"
  /\ failed[s]
  /\ wanted' = [wanted EXCEPT ![s] = FALSE]
  /\ UNCHANGED <<thread, failed, phase, stale>>

(* A call returns with threads and toggles in agreement, unless it found  *)
(* replaced toggles and did not apply them.                               *)
Return ==
  /\ phase = "busy" /\ phase' = "idle"
  /\ \/ thread = wanted /\ stale' = FALSE
     \/ stale /\ UNCHANGED stale
  /\ UNCHANGED <<wanted, thread, failed>>

Leave ==
  /\ phase = "leaving" /\ phase' = "gone"
  /\ \A s \in Switches : ~thread[s]
  /\ UNCHANGED <<wanted, thread, failed, stale>>

SwitchNext ==
  \/ \E s \in Switches : Flip(s) \/ Spawn(s) \/ Join(s) \/ Fail(s) \/ Disarm(s)
  \/ Replace
  \/ Call
  \/ Return
  \/ Leave

SwitchSpec == SwitchInit /\ [][SwitchNext]_switchVars
===============================================================================
