----------------------- MODULE ConsumerRegistry_proofs ------------------------
(***************************************************************************)
(* The registry's invariant, for any number of toggleable consumers: its   *)
(* own record, the settings and the worker threads agree, whatever calls,  *)
(* failures and ends of workers interleave with a walk.  With it, every    *)
(* step maps to one of the abstract Switchboard or leaves it alone.        *)
(***************************************************************************)
EXTENDS ConsumerRegistry, TLAPS

ThreadInv ==
  InactiveIsStopped /\ ActiveHasThread /\ OnlyFailuresDisarm
    /\ RunningTellsTheTruth /\ JoinIsOfAStopped

WalkInv == WalkedPast /\ TogglesMatchReality

(* Before start_all() nothing is active and no thread exists.             *)
LEMMA InitRegistryInv == Init => RegistryInv
<1> SUFFICES ASSUME Init PROVE RegistryInv
  OBVIOUS
<1> USE RegistryAssumption DEF Init
<1>1. TypeOK
  <2>1. at \in 0 .. N + 1
    OBVIOUS
  <2>2. \A v : [c \in Consumers |-> v] \in [Consumers -> {v}]
    OBVIOUS
  <2> QED BY <2>1, <2>2 DEF TypeOK
<1>2. InactiveIsStopped BY DEF InactiveIsStopped
<1>3. ActiveHasThread BY DEF ActiveHasThread
<1>4. OnlyFailuresDisarm BY DEF OnlyFailuresDisarm
<1>5. RunningTellsTheTruth BY DEF RunningTellsTheTruth
<1>6. JoinIsOfAStopped BY DEF JoinIsOfAStopped
<1>7. WalkedPast
  <2>1. at >= 1 /\ \A c \in Consumers : ~(c < at)
    BY DEF Consumers
  <2> QED BY <2>1, Zenon DEF WalkedPast
<1>8. TogglesMatchReality BY DEF TogglesMatchReality
<1> QED BY <1>1, <1>2, <1>3, <1>4, <1>5, <1>6, <1>7, <1>8 DEF RegistryInv

(* Types are kept by every step.                                          *)
LEMMA TypeStep == RegistryInv /\ [Next]_vars => TypeOK'
<1> SUFFICES ASSUME RegistryInv, [Next]_vars PROVE TypeOK'
  OBVIOUS
<1> USE RegistryAssumption
    DEF RegistryInv, TypeOK, Consumers, JoinIsOfAStopped, registryVars, consumerVars, vars
<1>1. ASSUME NEW c \in Consumers, Toggle(c)
      PROVE  TypeOK'
  BY <1>1 DEF Toggle
<1>2. ASSUME NEW flags \in [Consumers -> BOOLEAN], Reload(flags)
      PROVE  TypeOK'
  BY <1>2 DEF Reload
<1>3. CASE Edit \/ Poll
  <2>1. at' \in 0 .. N + 1
    BY <1>3 DEF Edit, Poll
  <2> QED BY <1>3, <2>1 DEF Edit, Poll
<1>4. CASE Unload BY <1>4 DEF Unload
<1>5. ASSUME NEW c \in Consumers, SendTestPacket(c)
      PROVE  TypeOK'
  BY <1>5 DEF SendTestPacket
<1>6. CASE StartConsumer
  <2>1. at \in Consumers /\ at' = at + 1
    BY <1>6 DEF StartConsumer, InWalk
  <2>2. at' \in 0 .. N + 1
    BY <2>1
  <2>3. CASE running[at] BY <1>6, <2>1, <2>2, <2>3 DEF StartConsumer
  <2>4. CASE ~running[at] BY <1>6, <2>1, <2>2, <2>4 DEF StartConsumer
  <2> QED BY <2>3, <2>4
<1>7. CASE StopConsumer BY <1>7 DEF StopConsumer, InWalk, MustStop
<1>8. CASE JoinWorker
  <2>1. at \in Consumers /\ at' \in {at - 1, at + 1}
    BY <1>8 DEF JoinWorker, Onward
  <2>2. at' \in 0 .. N + 1
    BY <2>1
  <2> QED BY <1>8, <2>1, <2>2 DEF JoinWorker
<1>9. CASE Skip BY <1>9 DEF Skip, InWalk, MustStop, Onward
<1>10. CASE PollConsumer BY <1>10 DEF PollConsumer, InWalk
<1>11. CASE EndWalk BY <1>11 DEF EndWalk
<1>12. ASSUME NEW c \in Consumers, Work(c) PROVE TypeOK'
  <2>1. CASE Connect(c) BY <2>1 DEF Connect, At
  <2>2. CASE ConnectFails(c) BY <2>2 DEF ConnectFails, At
  <2>3. CASE GiveUp(c) BY <2>3 DEF GiveUp, At
  <2>4. CASE Turn(c) BY <2>4 DEF Turn
  <2>5. CASE LoopEnds(c) BY <2>5 DEF LoopEnds, At
  <2> QED BY <1>12, <2>1, <2>2, <2>3, <2>4, <2>5 DEF Work
<1>13. CASE Done \/ UNCHANGED vars BY <1>13 DEF Done
<1> QED
  BY <1>1, <1>2, <1>3, <1>4, <1>5, <1>6, <1>7, <1>8, <1>9, <1>10, <1>11, <1>12,
     <1>13 DEF Next, Walk, Call

(* Threads, flags and the record of who is active stay in agreement.      *)
LEMMA ThreadStep == RegistryInv /\ [Next]_vars => ThreadInv'
<1> SUFFICES ASSUME RegistryInv, [Next]_vars PROVE ThreadInv'
  OBVIOUS
<1> USE RegistryAssumption
    DEF RegistryInv, TypeOK, ThreadInv, InactiveIsStopped, ActiveHasThread,
        OnlyFailuresDisarm, RunningTellsTheTruth, JoinIsOfAStopped, registryVars, consumerVars, vars
<1>1. ASSUME NEW c \in Consumers, Toggle(c)
      PROVE  ThreadInv'
  BY <1>1 DEF Toggle
<1>2. ASSUME NEW flags \in [Consumers -> BOOLEAN], Reload(flags)
      PROVE  ThreadInv'
  BY <1>2 DEF Reload
<1>3. CASE Edit \/ Poll BY <1>3 DEF Edit, Poll
<1>4. CASE Unload BY <1>4 DEF Unload
<1>5. ASSUME NEW c \in Consumers, SendTestPacket(c)
      PROVE  ThreadInv'
  BY <1>5 DEF SendTestPacket
<1>6. CASE StartConsumer BY <1>6 DEF StartConsumer, InWalk
<1>7. CASE StopConsumer BY <1>7 DEF StopConsumer, InWalk, MustStop
<1>8. CASE JoinWorker BY <1>8 DEF JoinWorker, Onward
<1>9. CASE Skip BY <1>9 DEF Skip, InWalk, MustStop, Onward
<1>10. CASE PollConsumer BY <1>10 DEF PollConsumer, InWalk
<1>11. CASE EndWalk BY <1>11 DEF EndWalk
<1>12. ASSUME NEW c \in Consumers, Work(c) PROVE ThreadInv'
  <2>1. CASE Connect(c) BY <2>1 DEF Connect, At
  <2>2. CASE ConnectFails(c) BY <2>2 DEF ConnectFails, At
  <2>3. CASE GiveUp(c) BY <2>3 DEF GiveUp, At
  <2>4. CASE Turn(c) BY <2>4 DEF Turn
  <2>5. CASE LoopEnds(c) BY <2>5 DEF LoopEnds, At
  <2> QED BY <1>12, <2>1, <2>2, <2>3, <2>4, <2>5 DEF Work
<1>13. CASE Done \/ UNCHANGED vars BY <1>13 DEF Done
<1> QED
  BY <1>1, <1>2, <1>3, <1>4, <1>5, <1>6, <1>7, <1>8, <1>9, <1>10, <1>11, <1>12,
     <1>13 DEF Next, Walk, Call

(* The walk leaves behind it what it was to do.                           *)
LEMMA WalkStep == RegistryInv /\ [Next]_vars => WalkInv'
<1> SUFFICES ASSUME RegistryInv, [Next]_vars PROVE WalkInv'
  OBVIOUS
<1> USE RegistryAssumption
    DEF RegistryInv, TypeOK, WalkInv, WalkedPast, TogglesMatchReality,
        JoinIsOfAStopped, Consumers, registryVars, consumerVars, vars
<1>1. ASSUME NEW c \in Consumers, Toggle(c)
      PROVE  WalkInv'
  BY <1>1 DEF Toggle
<1>2. ASSUME NEW flags \in [Consumers -> BOOLEAN], Reload(flags)
      PROVE  WalkInv'
  BY <1>2 DEF Reload
<1>3. CASE Edit \/ Poll BY <1>3 DEF Edit, Poll
<1>4. CASE Unload BY <1>4 DEF Unload
<1>5. ASSUME NEW c \in Consumers, SendTestPacket(c)
      PROVE  WalkInv'
  BY <1>5 DEF SendTestPacket
<1>6. CASE StartConsumer
  <2>1. /\ at \in Consumers /\ walk \in {"startAll", "apply"}
        /\ enabled[at] /\ at' = at + 1
        /\ walk' = walk /\ enabled' = enabled
        /\ active' = [active EXCEPT ![at] = TRUE]
    BY <1>6 DEF StartConsumer, InWalk
  <2>2. active'[at] = TRUE /\ \A c \in Consumers \ {at} : active'[c] = active[c]
    BY <2>1
  <2>3. /\ at' >= 1 /\ at < at'
        /\ \A c \in Consumers \ {at} : c < at' <=> c < at
    BY <2>1
  <2>4. walk = "startAll" =>
          \A c \in Consumers : active'[c] = (enabled'[c] /\ c < at')
    <3> SUFFICES ASSUME walk = "startAll", NEW c \in Consumers
                 PROVE active'[c] = (enabled'[c] /\ c < at')
      OBVIOUS
    <3>1. active[c] = (enabled[c] /\ c < at)
      OBVIOUS
    <3>2. CASE c = at BY <2>1, <2>2, <2>3, <3>2
    <3>3. CASE c # at BY <2>1, <2>2, <2>3, <3>1, <3>3
    <3> QED BY <3>2, <3>3
  <2>5. walk = "apply" =>
          \A c \in Consumers : c < at' => active'[c] = enabled'[c]
    <3> SUFFICES ASSUME walk = "apply", NEW c \in Consumers, c < at'
                 PROVE active'[c] = enabled'[c]
      OBVIOUS
    <3>1. CASE c = at BY <2>1, <2>2, <3>1
    <3>2. CASE c # at BY <2>1, <2>2, <2>3, <3>2
    <3> QED BY <3>1, <3>2
  <2> QED BY <2>1, <2>3, <2>4, <2>5
<1>7. CASE StopConsumer BY <1>7 DEF StopConsumer, InWalk, MustStop
<1>8. CASE JoinWorker
  <2>1. /\ at \in Consumers /\ walk \in {"apply", "stopAll"}
        /\ walk = "apply" => ~enabled[at]
        /\ walk' = walk /\ enabled' = enabled
        /\ active' = [active EXCEPT ![at] = FALSE]
        /\ at' = IF walk = "stopAll" THEN at - 1 ELSE at + 1
    BY <1>8 DEF JoinWorker, Onward
  <2>2. active'[at] = FALSE /\ \A c \in Consumers \ {at} : active'[c] = active[c]
    BY <2>1
  <2>3. CASE walk = "apply"
    <3>1. at' >= 1 /\ \A c \in Consumers : c < at' => c < at \/ c = at
      BY <2>1, <2>3
    <3>2. \A c \in Consumers : c < at' => active'[c] = enabled'[c]
      <4> SUFFICES ASSUME NEW c \in Consumers, c < at'
                   PROVE active'[c] = enabled'[c]
        OBVIOUS
      <4>1. CASE c = at BY <2>1, <2>2, <2>3, <4>1
      <4>2. CASE c # at BY <2>1, <2>2, <2>3, <3>1, <4>2
      <4> QED BY <4>1, <4>2
    <3> QED BY <2>1, <2>3, <3>1, <3>2
  <2>4. CASE walk = "stopAll"
    <3>1. at' <= N /\ \A c \in Consumers : c > at' => c > at \/ c = at
      BY <2>1, <2>4
    <3>2. \A c \in Consumers : c > at' => ~active'[c]
      BY <2>2, <2>4, <3>1
    <3> QED BY <2>1, <2>4, <3>1, <3>2
  <2> QED BY <2>1, <2>3, <2>4
<1>9. CASE Skip BY <1>9 DEF Skip, InWalk, MustStop, Onward
<1>10. CASE PollConsumer BY <1>10 DEF PollConsumer, InWalk
<1>11. CASE EndWalk BY <1>11 DEF EndWalk
<1>12. ASSUME NEW c \in Consumers, Work(c) PROVE WalkInv'
  <2>1. CASE Connect(c) BY <2>1 DEF Connect, At
  <2>2. CASE ConnectFails(c) BY <2>2 DEF ConnectFails, At
  <2>3. CASE GiveUp(c) BY <2>3 DEF GiveUp, At
  <2>4. CASE Turn(c) BY <2>4 DEF Turn
  <2>5. CASE LoopEnds(c) BY <2>5 DEF LoopEnds, At
  <2> QED BY <1>12, <2>1, <2>2, <2>3, <2>4, <2>5 DEF Work
<1>13. CASE Done \/ UNCHANGED vars BY <1>13 DEF Done
<1> QED
  BY <1>1, <1>2, <1>3, <1>4, <1>5, <1>6, <1>7, <1>8, <1>9, <1>10, <1>11, <1>12,
     <1>13 DEF Next, Walk, Call

(* Whatever the workers do, the registry never starts a consumer that has *)
(* a thread, never leaves one behind that it holds for stopped, disarms   *)
(* only those that failed, and between its calls runs exactly those the   *)
(* settings enable, unless they were replaced without telling it          *)
(* (consumer_registry.cpp, osc_consumer.cpp, openrgb_consumer.cpp).       *)
THEOREM RegistryInvariant == Spec => []RegistryInv
<1>1. Init => RegistryInv
  BY InitRegistryInv
<1>2. RegistryInv /\ [Next]_vars => RegistryInv'
  BY TypeStep, ThreadStep, WalkStep DEF RegistryInv, ThreadInv, WalkInv
<1> QED BY <1>1, <1>2, PTL DEF Spec

-------------------------------------------------------------------------------
(* A step of the registry or of a worker is one of the switchboard.  Only *)
(* flags, threads, failures, calls and reloads count; all else, the walk  *)
(* itself, the other places of a worker and its errors, is invisible.     *)
LEMMA StepIsASwitch == RegistryInv /\ [Next]_vars => [Board!SwitchNext]_(Board!switchVars)
<1> SUFFICES ASSUME RegistryInv, [Next]_vars
             PROVE  [Board!SwitchNext]_(Board!switchVars)
  OBVIOUS
<1>0. /\ TypeOK /\ InactiveIsStopped /\ ActiveHasThread /\ OnlyFailuresDisarm
      /\ JoinIsOfAStopped /\ WalkedPast
  BY DEF RegistryInv
<1>a. worker' = worker => HasThread' = HasThread
  BY DEF HasThread
<1>b. walk' = walk => Phase' = Phase
  BY DEF Phase
<1>1. ASSUME NEW c \in Consumers, Toggle(c)
      PROVE  Board!Flip(c)
  <2>1. Phase = "idle" /\ Phase' = "busy"
    BY <1>1 DEF Toggle, Phase
  <2> QED BY <1>1, <1>a, <2>1 DEF Toggle, Board!Flip, consumerVars
<1>2. ASSUME NEW flags \in [Consumers -> BOOLEAN], Reload(flags)
      PROVE  Board!Replace
  <2>1. Phase = "idle" /\ Phase' = Phase
    BY <1>2 DEF Reload, Phase
  <2> QED BY <1>2, <1>a, <2>1 DEF Reload, Board!Replace, consumerVars
<1>3. CASE Edit \/ Poll \/ Unload
  <2>1. Phase = "idle" /\ Phase' \in {"busy", "leaving"}
    BY <1>3 DEF Edit, Poll, Unload, Phase
  <2>2. Board!Call
    BY <1>3, <1>a, <2>1 DEF Edit, Poll, Unload, Board!Call, consumerVars
  <2> QED BY <2>2 DEF Board!SwitchNext
<1>4. CASE StartConsumer
  <2>1. at \in Consumers /\ walk \in {"startAll", "apply"} /\ walk' = walk
    BY <1>4 DEF StartConsumer, InWalk
  <2>2. enabled[at] /\ worker[at] = "none" /\ ~running[at] /\ ~disarm[at]
    BY <1>0, <1>4, <2>1 DEF StartConsumer, InactiveIsStopped
  <2>3. worker' = [worker EXCEPT ![at] = "connecting"]
        /\ disarm' = [disarm EXCEPT ![at] = FALSE]
    BY <1>4, <2>2 DEF StartConsumer
  <2>4. disarm' = disarm
    BY <1>0, <2>1, <2>2, <2>3 DEF TypeOK
  <2>5. HasThread' = [HasThread EXCEPT ![at] = TRUE] /\ ~HasThread[at]
    BY <1>0, <2>1, <2>2, <2>3 DEF TypeOK, HasThread
  <2>6. Phase = "busy" /\ Phase' = Phase
    BY <2>1 DEF Phase
  <2>7. Board!Spawn(at)
    BY <1>4, <2>2, <2>4, <2>5, <2>6 DEF StartConsumer, Board!Spawn
  <2> QED BY <2>1, <2>7 DEF Board!SwitchNext
<1>5. CASE JoinWorker
  <2>1. /\ at \in Consumers /\ walk \in {"apply", "stopAll"} /\ walk' = walk
        /\ walk = "apply" => ~enabled[at]
    BY <1>0, <1>5 DEF JoinWorker, JoinIsOfAStopped
  <2>2. worker[at] # "none" /\ worker' = [worker EXCEPT ![at] = "none"]
    BY <1>5 DEF JoinWorker
  <2>3. HasThread' = [HasThread EXCEPT ![at] = FALSE] /\ HasThread[at]
    BY <1>0, <2>1, <2>2 DEF TypeOK, HasThread
  <2>4. /\ Phase = "leaving" \/ (Phase = "busy" /\ ~enabled[at])
        /\ Phase' = Phase
    BY <2>1 DEF Phase
  <2>5. Board!Join(at)
    BY <1>5, <2>3, <2>4 DEF JoinWorker, Board!Join
  <2> QED BY <2>1, <2>5 DEF Board!SwitchNext
<1>6. CASE PollConsumer
  <2>1. at \in Consumers /\ walk = "poll" /\ walk' = walk
    BY <1>6 DEF PollConsumer, InWalk
  <2>2. CASE disarm[at]
    <3>1. enabled' = [enabled EXCEPT ![at] = FALSE]
      BY <1>6, <2>2 DEF PollConsumer
    <3>2. Phase = "busy" /\ Phase' = Phase
      BY <2>1 DEF Phase
    <3>3. Board!Disarm(at)
      BY <1>6, <1>a, <2>2, <3>1, <3>2 DEF PollConsumer, Board!Disarm, consumerVars
    <3> QED BY <2>1, <3>3 DEF Board!SwitchNext
  <2>3. CASE ~disarm[at]
    <3>1. enabled' = enabled
      BY <1>0, <1>6, <2>1, <2>3 DEF PollConsumer, TypeOK
    <3> QED
      BY <1>6, <1>a, <1>b, <3>1 DEF PollConsumer, Board!switchVars, consumerVars
  <2> QED BY <2>2, <2>3
<1>7. CASE EndWalk
  <2>1. /\ enabled' = enabled /\ disarm' = disarm /\ HasThread' = HasThread
        /\ reloaded' = (reloaded /\ walk # "apply") /\ at \notin Consumers
        /\ walk' = IF walk = "stopAll" THEN "done"
                   ELSE IF walk = "poll" /\ any THEN "apply" ELSE "none"
        /\ walk \notin {"none", "done"}
    BY <1>7, <1>a DEF EndWalk, consumerVars
  <2>2. HasThread = active
    BY <1>0 DEF TypeOK, InactiveIsStopped, ActiveHasThread, HasThread
  <2>3. CASE walk = "stopAll"
    <3>1. \A c \in Consumers : c > at
      BY <1>0, <2>1, <2>3, RegistryAssumption DEF WalkedPast, TypeOK, Consumers
    <3>2. \A c \in Consumers : ~HasThread[c]
      BY <1>0, <2>2, <2>3, <3>1 DEF WalkedPast
    <3>3. Phase = "leaving" /\ Phase' = "gone" /\ reloaded' = reloaded
      BY <1>0, <2>1, <2>3 DEF Phase, TypeOK
    <3>4. Board!Leave
      BY <2>1, <3>2, <3>3 DEF Board!Leave
    <3> QED BY <3>4 DEF Board!SwitchNext
  <2>4. CASE walk = "poll" /\ any
    <3>1. Phase' = Phase /\ reloaded' = reloaded
      BY <1>0, <2>1, <2>4 DEF Phase, TypeOK
    <3> QED BY <2>1, <3>1 DEF Board!switchVars
  <2>5. CASE walk # "stopAll" /\ ~(walk = "poll" /\ any)
    <3>1. \A c \in Consumers : c < at
      BY <1>0, <2>1, <2>5, RegistryAssumption DEF WalkedPast, TypeOK, Consumers
    <3>2. walk \in {"startAll", "apply"} \/ ~reloaded => active = enabled
      <4>1. CASE walk = "poll"
        BY <1>0, <2>5, <4>1 DEF WalkedPast
      <4>2. CASE walk # "poll"
        <5>1. walk \in {"startAll", "apply"}
          BY <1>0, <2>1, <2>5, <4>2 DEF TypeOK
        <5>2. \A c \in Consumers : active[c] = enabled[c]
          BY <1>0, <3>1, <5>1 DEF WalkedPast, TypeOK
        <5> QED BY <1>0, <5>2 DEF TypeOK
      <4> QED BY <4>1, <4>2
    <3>3. (HasThread = enabled /\ reloaded' = FALSE) \/ (reloaded /\ reloaded' = reloaded)
      BY <1>0, <2>1, <2>2, <3>2 DEF TypeOK
    <3>4. Phase = "busy" /\ Phase' = "idle"
      BY <2>1, <2>5 DEF Phase
    <3>5. Board!Return
      BY <2>1, <3>3, <3>4 DEF Board!Return
    <3> QED BY <3>5 DEF Board!SwitchNext
  <2> QED BY <2>3, <2>4, <2>5
<1>8. ASSUME NEW c \in Consumers, ConnectFails(c)
      PROVE  Board!Fail(c)
  <2>1. worker[c] = "connecting" /\ ~disarm[c]
    BY <1>0, <1>8 DEF ConnectFails, At, OnlyFailuresDisarm
  <2>2. HasThread' = HasThread /\ HasThread[c]
    BY <1>0, <1>8, <2>1 DEF ConnectFails, At, TypeOK, HasThread
  <2> QED BY <1>8, <1>b, <2>1, <2>2 DEF ConnectFails, Board!Fail, registryVars
<1>9. ASSUME NEW c \in Consumers, Connect(c) \/ GiveUp(c) \/ Turn(c) \/ LoopEnds(c)
      PROVE  UNCHANGED Board!switchVars
  <2>1. HasThread' = HasThread
    BY <1>0, <1>9 DEF Connect, GiveUp, Turn, LoopEnds, At, TypeOK, HasThread
  <2> QED BY <1>9, <1>b, <2>1
          DEF Connect, GiveUp, Turn, LoopEnds, Board!switchVars, registryVars
<1>10. CASE StopConsumer \/ Skip
  <2>1. HasThread' = HasThread /\ Phase' = Phase
    BY <1>10, <1>a, <1>b DEF StopConsumer, Skip, consumerVars
  <2> QED BY <1>10, <2>1 DEF StopConsumer, Skip, Board!switchVars, consumerVars
<1>11. ASSUME NEW c \in Consumers, SendTestPacket(c)
       PROVE  UNCHANGED Board!switchVars
  BY <1>11, <1>a, <1>b DEF SendTestPacket, Board!switchVars, registryVars
<1>12. CASE Done \/ UNCHANGED vars
  BY <1>12, <1>a, <1>b DEF Done, vars, registryVars, consumerVars, Board!switchVars
<1> QED
  BY <1>1, <1>2, <1>3, <1>4, <1>5, <1>6, <1>7, <1>8, <1>9, <1>10, <1>11, <1>12
  DEF Next, Walk, Call, Work, Board!SwitchNext

(* The registry implements the switchboard, for any number of consumers:  *)
(* whatever workers do while a call walks the consumers, threads come and *)
(* go by their toggles only, and a toggle goes off by itself only for a   *)
(* failure (consumer_registry.cpp:41-79).                                 *)
THEOREM RegistryImplementsSwitchboard == Spec => ImplementsSwitchboard
<1>1. Init => Board!SwitchInit
  BY DEF Init, Board!SwitchInit, HasThread, Phase
<1>2. RegistryInv /\ [Next]_vars => [Board!SwitchNext]_(Board!switchVars)
  BY StepIsASwitch
<1> QED
  BY <1>1, <1>2, RegistryInvariant, PTL
  DEF Spec, ImplementsSwitchboard, Board!SwitchSpec
===============================================================================
