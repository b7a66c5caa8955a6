----------------------------- MODULE Settings_proofs ---------------------------
(***************************************************************************)
(* The settings in memory and on disk.  First the caching protocol of      *)
(* SettingsStore, for any number of workers: every part of StoreInv rests  *)
(* on the order of the two steps of each side.  Then the invariant of a    *)
(* session, for any number of choices of the user: the parts of App are    *)
(* built and destroyed in order, at whatever phase the unloading or the    *)
(* end of the process comes, and settings once saved are found again       *)
(* unless a save was cut short or another version wrote.                   *)
(***************************************************************************)
EXTENDS SettingsStore, Session, TLAPS

(* Equal versions mean equal settings: a copy that covers its version,    *)
(* and is not from the future, is the settings held when the two agree.   *)
LEMMA CoveredCopyIsCurrent ==
  StoreTypeOK /\ CopyCoversVersion /\ VersionFollowsSettings /\ NothingAhead
    => EqualVersionMeansCurrent
BY DEF StoreTypeOK, CopyCoversVersion, VersionFollowsSettings, NothingAhead,
       EqualVersionMeansCurrent

(* The constructor publishes the first settings; nobody caches them yet.  *)
LEMMA InitStoreInv == StoreInit => StoreInv
<1> SUFFICES ASSUME StoreInit PROVE StoreInv
  OBVIOUS
<1> USE DEF StoreInit
<1>1. StoreTypeOK BY DEF StoreTypeOK
<1>2. CopyCoversVersion BY DEF CopyCoversVersion
<1>3. VersionFollowsSettings BY DEF VersionFollowsSettings
<1>4. NothingAhead
  <2>1. \A w \in Workers : cached[w] = 0 /\ cachedVersion[w] = 0 /\ seen[w] = 0
    OBVIOUS
  <2>2. 0 <= settings /\ 0 <= version
    OBVIOUS
  <2> QED BY <2>1, <2>2 DEF NothingAhead
<1> QED BY <1>1, <1>2, <1>3, <1>4, CoveredCopyIsCurrent DEF StoreInv

(* One step of the writer, or of one worker, keeps the invariant.         *)
LEMMA NextStoreInv == StoreInv /\ [StoreNext]_cacheVars => StoreInv'
<1> SUFFICES ASSUME StoreInv, [StoreNext]_cacheVars PROVE StoreInv'
  OBVIOUS
<1> DEFINE Base == StoreTypeOK /\ CopyCoversVersion /\ VersionFollowsSettings
                   /\ NothingAhead
<1>0. Base' => StoreInv'
  <2>1. StoreTypeOK' /\ CopyCoversVersion' /\ VersionFollowsSettings'
          /\ NothingAhead' => EqualVersionMeansCurrent'
    BY DEF StoreTypeOK, CopyCoversVersion, VersionFollowsSettings,
           NothingAhead, EqualVersionMeansCurrent
  <2> QED BY <2>1 DEF StoreInv
<1> USE DEF StoreInv, StoreTypeOK, CopyCoversVersion, VersionFollowsSettings,
            NothingAhead, storeVars, workerVars, cacheVars
<1>1. CASE StoreSettings BY <1>0, <1>1 DEF StoreSettings
<1>2. CASE BumpVersion
  <2>1. settings = version + 1 /\ version' = version + 1 /\ settings' = settings
    BY <1>2 DEF BumpVersion
  <2>2. StoreTypeOK' /\ CopyCoversVersion'
    BY <1>2, <2>1 DEF BumpVersion
  <2>3. VersionFollowsSettings'
    BY <1>2, <2>1 DEF BumpVersion
  <2>4. NothingAhead'
    <3> SUFFICES ASSUME NEW w \in Workers
        PROVE cached[w] <= settings /\ cachedVersion[w] <= version + 1
                /\ seen[w] <= version + 1
      BY <1>2, <2>1 DEF BumpVersion
    <3>1. cachedVersion[w] \in Nat /\ seen[w] \in Nat /\ version \in Nat
      OBVIOUS
    <3> QED BY <3>1
  <2> QED BY <1>0, <2>2, <2>3, <2>4
<1>3. ASSUME NEW w \in Workers, Start(w) \/ Work(w) \/ Stop(w) PROVE StoreInv'
  <2>1. CASE Start(w) BY <1>0, <2>1 DEF Start, Step
  <2>2. CASE FirstSnapshot(w) BY <1>0, <2>2 DEF FirstSnapshot, Step
  <2>3. CASE FirstVersion(w) BY <1>0, <2>3 DEF FirstVersion, Step
  <2>4. CASE Check(w) BY <1>0, <2>4 DEF Check, Step
  <2>5. CASE Fetch(w)
    <3>1. settings >= seen[w]
      OBVIOUS
    <3> QED BY <1>0, <2>5, <3>1 DEF Fetch, Step
  <2>6. CASE Stop(w) BY <1>0, <2>6 DEF Stop, Step
  <2> QED BY <1>3, <2>1, <2>2, <2>3, <2>4, <2>5, <2>6 DEF Work
<1>4. CASE UNCHANGED cacheVars BY <1>0, <1>4
<1> QED BY <1>1, <1>2, <1>3, <1>4 DEF StoreNext

(* Whatever publishes, starts and turns of the workers interleave, a      *)
(* worker that will not look again because the versions agree holds the   *)
(* current settings, once it has refetched in its loop (store.cpp,        *)
(* audio_system.cpp, osc_consumer.cpp, openrgb_consumer.cpp).             *)
THEOREM StoreInvariant == StoreSpec => []StoreInv
<1>1. StoreInit => StoreInv
  BY InitStoreInv
<1>2. StoreInv /\ [StoreNext]_cacheVars => StoreInv'
  BY NextStoreInv
<1> QED BY <1>1, <1>2, PTL DEF StoreSpec

-------------------------------------------------------------------------------
(* The defaults.                                                          *)
LEMMA ZeroIsAChoice == 0 \in Choices
  BY SessionAssumption DEF Choices

(* No process, no file.                                                   *)
LEMMA InitSessionInv == Init => SessionInv
<1> SUFFICES ASSUME Init PROVE SessionInv
  OBVIOUS
<1> USE SessionAssumption DEF Init
<1>1. TypeOK BY ZeroIsAChoice, Zenon DEF TypeOK, Processes, Phases
<1>2. BuiltInOrder BY DEF BuiltInOrder
<1>3. PartsOfPhase BY DEF PartsOfPhase
<1>4. SavedIsKept BY DEF SavedIsKept
<1>5. NeverBehindSaved /\ NothingFromTheFuture
  BY DEF NeverBehindSaved, NothingFromTheFuture
<1> QED BY <1>1, <1>2, <1>3, <1>4, <1>5 DEF SessionInv

(* Types are kept by every step.                                          *)
LEMMA TypeStep == SessionInv /\ [Next]_vars => TypeOK'
<1> SUFFICES ASSUME SessionInv, [Next]_vars PROVE TypeOK'
  OBVIOUS
<1> USE SessionAssumption
    DEF vars, appVars, fileVars, SessionInv, TypeOK,
        Processes, Phases
<1>1. CASE Attach BY <1>1 DEF Attach
<1>2. CASE LoadSettings BY <1>2, ZeroIsAChoice, Zenon
  DEF LoadSettings, Boot, Loaded
<1>3. CASE BuildAudioSystem BY <1>3 DEF BuildAudioSystem, Boot
<1>4. CASE StartAudio BY <1>4 DEF StartAudio, Boot
<1>5. CASE StartAudioFails BY <1>5 DEF StartAudioFails, Boot
<1>6. CASE BuildConsumers BY <1>6 DEF BuildConsumers, Boot
<1>7. CASE StartConsumers BY <1>7 DEF StartConsumers, Boot
<1>8. CASE Edit
  <2>1. choices + 1 \in Choices
    BY <1>8, SMT DEF Edit, Idle, NewChoice, Choices
  <2> QED BY <1>8, <2>1, Zenon DEF Edit, Idle, NewChoice
<1>9. CASE SaveButton BY <1>9, ZeroIsAChoice, Zenon
  DEF SaveButton, Idle, EmptyFile
<1>10. CASE LoadButton BY <1>10, ZeroIsAChoice, Zenon
  DEF LoadButton, Idle, Loaded
<1>11. CASE ResetButton
  <2>1. choices + 1 \in Choices
    BY <1>11, SMT
      DEF ResetButton, Idle, NewChoice, EmptyFile, CannotOpen, Choices
  <2>2. live' \in Choices /\ choices' \in Choices
    BY <1>11, <2>1, Zenon
      DEF ResetButton, Idle, NewChoice, EmptyFile, CannotOpen
  <2>3. file' \in [kind : {"absent", "settings", "torn", "foreign"},
                 settings : Choices]
    <3>1. CASE EmptyFile BY <3>1, ZeroIsAChoice, Zenon DEF EmptyFile
    <3>2. CASE CannotOpen BY <3>2, Zenon DEF CannotOpen
    <3> QED BY <1>11, <3>1, <3>2, Zenon DEF ResetButton
  <2>4. saving' \in BOOLEAN BY <1>11, Zenon
    DEF ResetButton, Idle, NewChoice, EmptyFile, CannotOpen
  <2> QED BY <1>11, <2>2, <2>3, <2>4, Zenon
    DEF ResetButton, Idle, NewChoice, EmptyFile, CannotOpen
<1>12. CASE SwitchSource
  <2>1. choices + 1 \in Choices
    BY <1>12, SMT
      DEF SwitchSource, Idle, NewChoice, EmptyFile, CannotOpen, Choices
  <2>2. live' \in Choices /\ choices' \in Choices
    BY <1>12, <2>1, Zenon
      DEF SwitchSource, Idle, NewChoice, EmptyFile, CannotOpen
  <2>3. file' \in [kind : {"absent", "settings", "torn", "foreign"},
                 settings : Choices]
    <3>1. CASE EmptyFile BY <3>1, ZeroIsAChoice, Zenon DEF EmptyFile
    <3>2. CASE CannotOpen BY <3>2, Zenon DEF CannotOpen
    <3> QED BY <1>12, <3>1, <3>2, Zenon DEF SwitchSource
  <2>4. saving' \in BOOLEAN BY <1>12, Zenon
    DEF SwitchSource, Idle, NewChoice, EmptyFile, CannotOpen
  <2> QED BY <1>12, <2>2, <2>3, <2>4, Zenon
    DEF SwitchSource, Idle, NewChoice, EmptyFile, CannotOpen
<1>13. CASE WriteFile
  <2>1. CASE process = "saveSettings" BY <1>13, <2>1, ZeroIsAChoice, Zenon
    DEF WriteFile, AfterSave, Gone
  <2>2. CASE process # "saveSettings" BY <1>13, <2>2, Zenon
    DEF WriteFile, AfterSave, Gone
  <2> QED BY <2>1, <2>2
<1>14. CASE WriteFails
  <2>1. CASE process = "saveSettings" BY <1>14, <2>1, ZeroIsAChoice, Zenon
    DEF WriteFails, AfterSave, Gone
  <2>2. CASE process # "saveSettings" BY <1>14, <2>2, Zenon
    DEF WriteFails, AfterSave, Gone
  <2> QED BY <2>1, <2>2
<1>15. CASE Detach BY <1>15 DEF Detach
<1>16. CASE StopConsumers BY <1>16 DEF StopConsumers
<1>17. CASE StopAudio BY <1>17 DEF StopAudio
<1>18. CASE SaveAtStop BY <1>18, ZeroIsAChoice, Zenon
  DEF SaveAtStop, EmptyFile
<1>19. CASE Leave BY <1>19, ZeroIsAChoice, Zenon DEF Leave, Gone
<1>20. CASE Kill BY <1>20, ZeroIsAChoice, Zenon DEF Kill, Gone
<1>21. CASE OtherVersionRuns BY <1>21, ZeroIsAChoice, Zenon
  DEF OtherVersionRuns
<1>22. CASE UNCHANGED vars BY <1>22
<1> QED
  BY <1>1, <1>2, <1>3, <1>4, <1>5, <1>6, <1>7, <1>8, <1>9, <1>10, <1>11,
     <1>12, <1>13, <1>14, <1>15, <1>16, <1>17, <1>18, <1>19, <1>20, <1>21, <1>22
  DEF Next, TickBoot, Overlay, Save, Unload

(* A part goes after those that refer to it.                              *)
LEMMA OrderStep == SessionInv /\ [Next]_vars => BuiltInOrder'
<1> SUFFICES ASSUME SessionInv, [Next]_vars PROVE BuiltInOrder'
  OBVIOUS
<1> USE SessionAssumption
    DEF vars, appVars, fileVars, SessionInv, TypeOK,
        BuiltInOrder, PartsOfPhase, Phases
<1>1. CASE Attach BY <1>1 DEF Attach
<1>2. CASE LoadSettings BY <1>2 DEF LoadSettings, Boot, Loaded
<1>3. CASE BuildAudioSystem BY <1>3 DEF BuildAudioSystem, Boot
<1>4. CASE StartAudio BY <1>4 DEF StartAudio, Boot
<1>5. CASE StartAudioFails BY <1>5 DEF StartAudioFails, Boot
<1>6. CASE BuildConsumers BY <1>6 DEF BuildConsumers, Boot
<1>7. CASE StartConsumers BY <1>7 DEF StartConsumers, Boot
<1>8. CASE Edit BY <1>8 DEF Edit, Idle, NewChoice
<1>9. CASE SaveButton BY <1>9 DEF SaveButton, Idle, EmptyFile
<1>10. CASE LoadButton BY <1>10 DEF LoadButton, Idle, Loaded
<1>11. CASE ResetButton BY <1>11
  DEF ResetButton, Idle, NewChoice, EmptyFile, CannotOpen
<1>12. CASE SwitchSource BY <1>12
  DEF SwitchSource, Idle, NewChoice, EmptyFile, CannotOpen
<1>13. CASE WriteFile BY <1>13 DEF WriteFile, AfterSave, Gone
<1>14. CASE WriteFails BY <1>14 DEF WriteFails, AfterSave, Gone
<1>15. CASE Detach BY <1>15 DEF Detach
<1>16. CASE StopConsumers BY <1>16 DEF StopConsumers
<1>17. CASE StopAudio BY <1>17 DEF StopAudio
<1>18. CASE SaveAtStop BY <1>18 DEF SaveAtStop, EmptyFile
<1>19. CASE Leave BY <1>19 DEF Leave, Gone
<1>20. CASE Kill BY <1>20 DEF Kill, Gone
<1>21. CASE OtherVersionRuns BY <1>21 DEF OtherVersionRuns
<1>22. CASE UNCHANGED vars BY <1>22
<1> QED
  BY <1>1, <1>2, <1>3, <1>4, <1>5, <1>6, <1>7, <1>8, <1>9, <1>10, <1>11,
     <1>12, <1>13, <1>14, <1>15, <1>16, <1>17, <1>18, <1>19, <1>20, <1>21, <1>22
  DEF Next, TickBoot, Overlay, Save, Unload

(* Each phase builds the part it is named for.                            *)
LEMMA PartsStep == SessionInv /\ [Next]_vars => PartsOfPhase'
<1> SUFFICES ASSUME SessionInv, [Next]_vars PROVE PartsOfPhase'
  OBVIOUS
<1> USE SessionAssumption
    DEF vars, appVars, fileVars, SessionInv, TypeOK,
        BuiltInOrder, PartsOfPhase, Phases
<1>1. CASE Attach BY <1>1 DEF Attach
<1>2. CASE LoadSettings BY <1>2 DEF LoadSettings, Boot, Loaded
<1>3. CASE BuildAudioSystem BY <1>3 DEF BuildAudioSystem, Boot
<1>4. CASE StartAudio BY <1>4 DEF StartAudio, Boot
<1>5. CASE StartAudioFails BY <1>5 DEF StartAudioFails, Boot
<1>6. CASE BuildConsumers BY <1>6 DEF BuildConsumers, Boot
<1>7. CASE StartConsumers BY <1>7 DEF StartConsumers, Boot
<1>8. CASE Edit BY <1>8 DEF Edit, Idle, NewChoice
<1>9. CASE SaveButton BY <1>9 DEF SaveButton, Idle, EmptyFile
<1>10. CASE LoadButton BY <1>10 DEF LoadButton, Idle, Loaded
<1>11. CASE ResetButton BY <1>11
  DEF ResetButton, Idle, NewChoice, EmptyFile, CannotOpen
<1>12. CASE SwitchSource BY <1>12
  DEF SwitchSource, Idle, NewChoice, EmptyFile, CannotOpen
<1>13. CASE WriteFile BY <1>13 DEF WriteFile, AfterSave, Gone
<1>14. CASE WriteFails BY <1>14 DEF WriteFails, AfterSave, Gone
<1>15. CASE Detach BY <1>15 DEF Detach
<1>16. CASE StopConsumers BY <1>16 DEF StopConsumers
<1>17. CASE StopAudio BY <1>17 DEF StopAudio
<1>18. CASE SaveAtStop BY <1>18 DEF SaveAtStop, EmptyFile
<1>19. CASE Leave BY <1>19 DEF Leave, Gone
<1>20. CASE Kill BY <1>20 DEF Kill, Gone
<1>21. CASE OtherVersionRuns BY <1>21 DEF OtherVersionRuns
<1>22. CASE UNCHANGED vars BY <1>22
<1> QED
  BY <1>1, <1>2, <1>3, <1>4, <1>5, <1>6, <1>7, <1>8, <1>9, <1>10, <1>11,
     <1>12, <1>13, <1>14, <1>15, <1>16, <1>17, <1>18, <1>19, <1>20, <1>21, <1>22
  DEF Next, TickBoot, Overlay, Save, Unload

(* Only a save that ends writes the file, and what it writes is live.     *)
LEMMA SavedStep == SessionInv /\ [Next]_vars => SavedIsKept'
<1> SUFFICES ASSUME SessionInv, [Next]_vars PROVE SavedIsKept'
  OBVIOUS
<1> USE SessionAssumption
    DEF vars, appVars, fileVars, SessionInv, TypeOK,
        PartsOfPhase, SavedIsKept
<1>1. CASE Attach BY <1>1 DEF Attach
<1>2. CASE LoadSettings BY <1>2 DEF LoadSettings, Boot, Loaded
<1>3. CASE BuildAudioSystem BY <1>3 DEF BuildAudioSystem, Boot
<1>4. CASE StartAudio BY <1>4 DEF StartAudio, Boot
<1>5. CASE StartAudioFails BY <1>5 DEF StartAudioFails, Boot
<1>6. CASE BuildConsumers BY <1>6 DEF BuildConsumers, Boot
<1>7. CASE StartConsumers BY <1>7 DEF StartConsumers, Boot
<1>8. CASE Edit BY <1>8 DEF Edit, Idle, NewChoice
<1>9. CASE SaveButton BY <1>9 DEF SaveButton, Idle, EmptyFile
<1>10. CASE LoadButton BY <1>10 DEF LoadButton, Idle, Loaded
<1>11. CASE ResetButton BY <1>11
  DEF ResetButton, Idle, NewChoice, EmptyFile, CannotOpen
<1>12. CASE SwitchSource BY <1>12
  DEF SwitchSource, Idle, NewChoice, EmptyFile, CannotOpen
<1>13. CASE WriteFile BY <1>13 DEF WriteFile, AfterSave, Gone
<1>14. CASE WriteFails BY <1>14 DEF WriteFails, AfterSave, Gone
<1>15. CASE Detach BY <1>15 DEF Detach
<1>16. CASE StopConsumers BY <1>16 DEF StopConsumers
<1>17. CASE StopAudio BY <1>17 DEF StopAudio
<1>18. CASE SaveAtStop BY <1>18 DEF SaveAtStop, EmptyFile
<1>19. CASE Leave BY <1>19 DEF Leave, Gone
<1>20. CASE Kill BY <1>20 DEF Kill, Gone
<1>21. CASE OtherVersionRuns BY <1>21 DEF OtherVersionRuns
<1>22. CASE UNCHANGED vars BY <1>22
<1> QED
  BY <1>1, <1>2, <1>3, <1>4, <1>5, <1>6, <1>7, <1>8, <1>9, <1>10, <1>11,
     <1>12, <1>13, <1>14, <1>15, <1>16, <1>17, <1>18, <1>19, <1>20, <1>21, <1>22
  DEF Next, TickBoot, Overlay, Save, Unload

(* What load() finds is what was saved last.                              *)
LEMMA BehindStep == SessionInv /\ [Next]_vars => NeverBehindSaved'
<1> SUFFICES ASSUME SessionInv, [Next]_vars PROVE NeverBehindSaved'
  OBVIOUS
<1> USE SessionAssumption
    DEF vars, appVars, fileVars, SessionInv, TypeOK, Choices,
        PartsOfPhase, SavedIsKept, NeverBehindSaved, NothingFromTheFuture
<1>1. CASE Attach BY <1>1 DEF Attach
<1>2. CASE LoadSettings BY <1>2 DEF LoadSettings, Boot, Loaded
<1>3. CASE BuildAudioSystem BY <1>3 DEF BuildAudioSystem, Boot
<1>4. CASE StartAudio BY <1>4 DEF StartAudio, Boot
<1>5. CASE StartAudioFails BY <1>5 DEF StartAudioFails, Boot
<1>6. CASE BuildConsumers BY <1>6 DEF BuildConsumers, Boot
<1>7. CASE StartConsumers BY <1>7 DEF StartConsumers, Boot
<1>8. CASE Edit BY <1>8 DEF Edit, Idle, NewChoice
<1>9. CASE SaveButton BY <1>9 DEF SaveButton, Idle, EmptyFile
<1>10. CASE LoadButton BY <1>10 DEF LoadButton, Idle, Loaded
<1>11. CASE ResetButton BY <1>11
  DEF ResetButton, Idle, NewChoice, EmptyFile, CannotOpen
<1>12. CASE SwitchSource BY <1>12
  DEF SwitchSource, Idle, NewChoice, EmptyFile, CannotOpen
<1>13. CASE WriteFile
  <2>1. CASE process = "saveSettings" BY <1>13, <2>1
    DEF WriteFile, AfterSave, Gone
  <2>2. CASE process # "saveSettings" BY <1>13, <2>2
    DEF WriteFile, AfterSave, Gone
  <2> QED BY <2>1, <2>2
<1>14. CASE WriteFails
  <2>1. CASE process = "saveSettings" BY <1>14, <2>1
    DEF WriteFails, AfterSave, Gone
  <2>2. CASE process # "saveSettings" BY <1>14, <2>2
    DEF WriteFails, AfterSave, Gone
  <2> QED BY <2>1, <2>2
<1>15. CASE Detach BY <1>15 DEF Detach
<1>16. CASE StopConsumers BY <1>16 DEF StopConsumers
<1>17. CASE StopAudio BY <1>17 DEF StopAudio
<1>18. CASE SaveAtStop BY <1>18 DEF SaveAtStop, EmptyFile
<1>19. CASE Leave BY <1>19 DEF Leave, Gone
<1>20. CASE Kill BY <1>20 DEF Kill, Gone
<1>21. CASE OtherVersionRuns BY <1>21 DEF OtherVersionRuns
<1>22. CASE UNCHANGED vars BY <1>22
<1> QED
  BY <1>1, <1>2, <1>3, <1>4, <1>5, <1>6, <1>7, <1>8, <1>9, <1>10, <1>11,
     <1>12, <1>13, <1>14, <1>15, <1>16, <1>17, <1>18, <1>19, <1>20, <1>21, <1>22
  DEF Next, TickBoot, Overlay, Save, Unload

(* A choice is the latest when it is made.                                *)
LEMMA FutureStep == SessionInv /\ [Next]_vars => NothingFromTheFuture'
<1> SUFFICES ASSUME SessionInv, [Next]_vars PROVE NothingFromTheFuture'
  OBVIOUS
<1> USE SessionAssumption
    DEF vars, appVars, fileVars, SessionInv, TypeOK, Choices,
        PartsOfPhase, SavedIsKept, NothingFromTheFuture
<1>1. CASE Attach BY <1>1 DEF Attach
<1>2. CASE LoadSettings BY <1>2 DEF LoadSettings, Boot, Loaded
<1>3. CASE BuildAudioSystem BY <1>3 DEF BuildAudioSystem, Boot
<1>4. CASE StartAudio BY <1>4 DEF StartAudio, Boot
<1>5. CASE StartAudioFails BY <1>5 DEF StartAudioFails, Boot
<1>6. CASE BuildConsumers BY <1>6 DEF BuildConsumers, Boot
<1>7. CASE StartConsumers BY <1>7 DEF StartConsumers, Boot
<1>8. CASE Edit BY <1>8 DEF Edit, Idle, NewChoice
<1>9. CASE SaveButton BY <1>9 DEF SaveButton, Idle, EmptyFile
<1>10. CASE LoadButton BY <1>10 DEF LoadButton, Idle, Loaded
<1>11. CASE ResetButton BY <1>11
  DEF ResetButton, Idle, NewChoice, EmptyFile, CannotOpen
<1>12. CASE SwitchSource BY <1>12
  DEF SwitchSource, Idle, NewChoice, EmptyFile, CannotOpen
<1>13. CASE WriteFile
  <2>1. CASE process = "saveSettings" BY <1>13, <2>1
    DEF WriteFile, AfterSave, Gone
  <2>2. CASE process # "saveSettings" BY <1>13, <2>2
    DEF WriteFile, AfterSave, Gone
  <2> QED BY <2>1, <2>2
<1>14. CASE WriteFails
  <2>1. CASE process = "saveSettings" BY <1>14, <2>1
    DEF WriteFails, AfterSave, Gone
  <2>2. CASE process # "saveSettings" BY <1>14, <2>2
    DEF WriteFails, AfterSave, Gone
  <2> QED BY <2>1, <2>2
<1>15. CASE Detach BY <1>15 DEF Detach
<1>16. CASE StopConsumers BY <1>16 DEF StopConsumers
<1>17. CASE StopAudio BY <1>17 DEF StopAudio
<1>18. CASE SaveAtStop BY <1>18 DEF SaveAtStop, EmptyFile
<1>19. CASE Leave BY <1>19 DEF Leave, Gone
<1>20. CASE Kill BY <1>20 DEF Kill, Gone
<1>21. CASE OtherVersionRuns BY <1>21 DEF OtherVersionRuns
<1>22. CASE UNCHANGED vars BY <1>22
<1> QED
  BY <1>1, <1>2, <1>3, <1>4, <1>5, <1>6, <1>7, <1>8, <1>9, <1>10, <1>11,
     <1>12, <1>13, <1>14, <1>15, <1>16, <1>17, <1>18, <1>19, <1>20, <1>21, <1>22
  DEF Next, TickBoot, Overlay, Save, Unload

(* For any number of choices: parts are built and destroyed in order, and *)
(* saved settings are kept (App::tick_boot(), App::stop(), Store::load(), *)
(* Store::save()).                                                        *)
THEOREM SessionInvariant == Spec => []SessionInv
<1>1. SessionInv /\ [Next]_vars => SessionInv'
  <2> SUFFICES ASSUME SessionInv, [Next]_vars PROVE SessionInv'
    OBVIOUS
  <2>1. TypeOK' /\ BuiltInOrder' /\ PartsOfPhase'
    BY TypeStep, OrderStep, PartsStep
  <2>2. SavedIsKept' /\ NeverBehindSaved' /\ NothingFromTheFuture'
    BY SavedStep, BehindStep, FutureStep
  <2> QED BY <2>1, <2>2 DEF SessionInv
<1> QED BY InitSessionInv, <1>1, PTL DEF Spec
===============================================================================
