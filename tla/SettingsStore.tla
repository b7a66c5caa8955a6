---------------------------- MODULE SettingsStore -----------------------------
(***************************************************************************)
(* config::Store (src/config/store.h) and the threads that cache what it   *)
(* holds: the DSP thread, the OSC worker and the OpenRGB worker.  The      *)
(* render thread replaces the settings under a mutex and then bumps an     *)
(* atomic version; a worker that sees a version other than the one it      *)
(* remembers takes a new snapshot.  The two steps of each side interleave. *)
(*                                                                         *)
(* Settings are told apart by when they were stored: the settings of the   *)
(* constructor are number 1, the n-th replacement has number n + 1.        *)
(***************************************************************************)
EXTENDS Naturals

CONSTANTS
  Workers,     (* threads that cache the settings                          *)
  MaxVersion   (* bound on the settings stored, for TLC                    *)

ASSUME MaxVersionAssumption == MaxVersion \in Nat \ {0}

VARIABLES
  settings,       (* settings_: the number of the settings held            *)
  version,        (* version_                                              *)
  replacing,      (* the render thread is between the two steps            *)
  pc,             (* where each worker is; "off": no thread                *)
  cached,         (* its copy of the settings                              *)
  cachedVersion,  (* the version it remembers                              *)
  seen,           (* the version it read last in its loop                  *)
  refreshed       (* history: its copy was taken in its loop, not at start *)

storeVars == <<settings, version, replacing>>
workerVars == <<pc, cached, cachedVersion, seen, refreshed>>
cacheVars == <<storeVars, workerVars>>

StoreInit ==
  /\ settings = 1
  /\ version = 1
  /\ replacing = FALSE
  /\ pc = [w \in Workers |-> "off"]
  /\ cached = [w \in Workers |-> 0]
  /\ cachedVersion = [w \in Workers |-> 0]
  /\ seen = [w \in Workers |-> 0]
  /\ refreshed = [w \in Workers |-> FALSE]

-------------------------------------------------------------------------------
(* publish(), mutate() and a load() that finds a valid file, all on the   *)
(* render thread: the settings are replaced under the mutex ...           *)
StoreSettings ==
  /\ ~replacing
  /\ settings < MaxVersion
  /\ settings' = settings + 1
  /\ replacing' = TRUE
  /\ UNCHANGED <<version, workerVars>>

(* A mutant of BumpVersion: the replacement is not announced.             *)
BumpVersionNot ==
  /\ replacing
  /\ replacing' = FALSE
  /\ UNCHANGED <<settings, version, workerVars>>

(* ... and version_.fetch_add(1) follows, outside of it.                  *)
BumpVersion ==
  /\ replacing
  /\ version' = version + 1
  /\ replacing' = FALSE
  /\ UNCHANGED <<settings, workerVars>>

Step(w, from, to) == pc[w] = from /\ pc' = [pc EXCEPT ![w] = to]

(* The worker is spawned.                                                 *)
Start(w) ==
  /\ Step(w, "off", "first")
  /\ UNCHANGED <<storeVars, cached, cachedVersion, seen, refreshed>>

(* Before its loop it takes a snapshot ...                                *)
FirstSnapshot(w) ==
  /\ Step(w, "first", "firstVersion")
  /\ cached' = [cached EXCEPT ![w] = settings]
  /\ refreshed' = [refreshed EXCEPT ![w] = FALSE]
  /\ UNCHANGED <<storeVars, cachedVersion, seen>>

(* ... and then, after resolving its host or connecting in the case of    *)
(* the network workers, reads the version.                                *)
FirstVersion(w) ==
  /\ Step(w, "firstVersion", "check")
  /\ cachedVersion' = [cachedVersion EXCEPT ![w] = version]
  /\ UNCHANGED <<storeVars, cached, seen, refreshed>>

(* One turn of the loop: read the version; if it is not the one           *)
(* remembered, refetch.                                                   *)
Check(w) ==
  /\ Step(w, "check", IF version = cachedVersion[w] THEN "check" ELSE "fetch")
  /\ seen' = [seen EXCEPT ![w] = version]
  /\ UNCHANGED <<storeVars, cached, cachedVersion, refreshed>>

(* A mutant of Fetch: the new version is remembered, the copy forgotten.  *)
FetchVersionOnly(w) ==
  /\ Step(w, "fetch", "check")
  /\ cachedVersion' = [cachedVersion EXCEPT ![w] = seen[w]]
  /\ refreshed' = [refreshed EXCEPT ![w] = TRUE]
  /\ UNCHANGED <<storeVars, cached, seen>>

(* The version read before the snapshot is remembered with it.            *)
Fetch(w) ==
  /\ Step(w, "fetch", "check")
  /\ cached' = [cached EXCEPT ![w] = settings]
  /\ cachedVersion' = [cachedVersion EXCEPT ![w] = seen[w]]
  /\ refreshed' = [refreshed EXCEPT ![w] = TRUE]
  /\ UNCHANGED <<storeVars, seen>>

(* The loop ends: running_ was cleared.                                   *)
Stop(w) ==
  /\ Step(w, "check", "off")
  /\ UNCHANGED <<storeVars, cached, cachedVersion, seen, refreshed>>

-------------------------------------------------------------------------------
Work(w) == FirstSnapshot(w) \/ FirstVersion(w) \/ Check(w) \/ Fetch(w)

StoreNext ==
  \/ StoreSettings
  \/ BumpVersion
  \/ \E w \in Workers : Start(w) \/ Work(w) \/ Stop(w)

(* A publish() that began returns, and a worker that runs goes on turning: *)
(* it sleeps between turns and never blocks for good.  Edits, starts and   *)
(* stops are up to the user.                                               *)
StoreFairness == WF_cacheVars(BumpVersion) /\ \A w \in Workers : WF_cacheVars(Work(w))

StoreSpec == StoreInit /\ [][StoreNext]_cacheVars /\ StoreFairness

-------------------------------------------------------------------------------
(* The variables hold what the code can store in them.                    *)
StoreTypeOK ==
  /\ settings \in Nat
  /\ version \in Nat
  /\ replacing \in BOOLEAN
  /\ pc \in [Workers -> {"off", "first", "firstVersion", "check", "fetch"}]
  /\ cached \in [Workers -> Nat]
  /\ cachedVersion \in [Workers -> Nat]
  /\ seen \in [Workers -> Nat]
  /\ refreshed \in [Workers -> BOOLEAN]

(* A copy taken in the loop is never older than the version remembered    *)
(* with it, because the version is read before the snapshot ...           *)
CopyCoversVersion ==
  \A w \in Workers :
    /\ refreshed[w] => cached[w] >= cachedVersion[w]
    /\ pc[w] = "firstVersion" => ~refreshed[w]

VersionFollowsSettings ==
  settings = IF replacing THEN version + 1 ELSE version

NothingAhead ==
  \A w \in Workers :
    cached[w] <= settings /\ cachedVersion[w] <= version /\ seen[w] <= version

(* ... so a worker whose remembered version is the current one, and which *)
(* therefore will not look again, works with the current settings.        *)
EqualVersionMeansCurrent ==
  \A w \in Workers :
    refreshed[w] /\ cachedVersion[w] = version /\ ~replacing =>
      cached[w] = settings

StoreInv ==
  /\ StoreTypeOK
  /\ CopyCoversVersion
  /\ VersionFollowsSettings
  /\ NothingAhead
  /\ EqualVersionMeansCurrent

Looping(w) == pc[w] \in {"check", "fetch"}

(* An edit stored while a worker is in its loop reaches it, unless it is  *)
(* stopped first ("Live edits to rate_hz apply on the next worker tick"). *)
EditsReachLoops ==
  \A w \in Workers : \A n \in 1 .. MaxVersion :
    settings = n /\ replacing /\ Looping(w) ~> cached[w] >= n \/ pc[w] = "off"
===============================================================================
