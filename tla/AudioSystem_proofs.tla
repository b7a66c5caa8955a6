-------------------------- MODULE AudioSystem_proofs --------------------------
(***************************************************************************)
(* The lifecycle invariant of AudioSystem, for any set of sources, any     *)
(* availability and any ring capacity.  The invariant is inductive: its    *)
(* parts StateAt and ThreadsAt say what holds at each place of the control *)
(* thread, the others are what callers and the other components rely on.   *)
(***************************************************************************)
EXTENDS AudioSystem, TLAPS

(* What callers and the other components rely on.                         *)
Safety ==
  /\ OneProducer
  /\ NoThreadOverwritten
  /\ SingleWriter
  /\ FramesHaveAConsumer
  /\ OffIsQuiet
  /\ ErrorLeavesNoThread
  /\ RunningIsServed

(* Nothing runs before the first start().                                 *)
LEMMA InitLifecycleInv == Init => LifecycleInv
<1> SUFFICES ASSUME Init PROVE LifecycleInv
  OBVIOUS
<1> USE SourcesAssumption DEF Init
<1>1. TypeOK
  <2>1. /\ captureThread \in [Sources -> {"none", "setup", "running", "ended"}]
        /\ running \in [Sources -> BOOLEAN]
        /\ restart \in [Sources -> BOOLEAN]
    OBVIOUS
  <2>2. ring \in Seq(Capturing)
    OBVIOUS
  <2>3. fed \subseteq Capturing /\ frame \in Capturing \cup {NoSource}
    OBVIOUS
  <2> QED BY <2>1, <2>2, <2>3 DEF TypeOK
<1>2. StateAt BY DEF StateAt
<1>3. ThreadsAt BY DEF ThreadsAt
<1>4. OneProducer /\ NoThreadOverwritten /\ SingleWriter
  BY DEF OneProducer, NoThreadOverwritten, SingleWriter
<1>5. FramesHaveAConsumer /\ OffIsQuiet /\ ErrorLeavesNoThread /\ RunningIsServed
  BY DEF FramesHaveAConsumer, OffIsQuiet, ErrorLeavesNoThread, RunningIsServed
<1> QED BY <1>1, <1>2, <1>3, <1>4, <1>5 DEF LifecycleInv

(* Types are kept by every step.                                          *)
LEMMA TypeStep == LifecycleInv /\ [Next]_vars => TypeOK'
<1> SUFFICES ASSUME LifecycleInv, [Next]_vars PROVE TypeOK'
  OBVIOUS
<1> USE SourcesAssumption
    DEF LifecycleInv, TypeOK, vars, controlVars, captureVars, dspVars, Goto
<1>1. CASE Start BY <1>1 DEF Start
<1>2. CASE Stop BY <1>2 DEF Stop
<1>3. ASSUME NEW code \in Available \cup {configured}, Switch(code) PROVE TypeOK'
  BY <1>3 DEF Switch
<1>4. ASSUME NEW code \in Sources \cup {Unknown}, Reload(code) PROVE TypeOK'
  BY <1>4 DEF Reload
<1>5. CASE StopSource BY <1>5 DEF StopSource
<1>6. CASE JoinSource BY <1>6 DEF JoinSource
<1>7. CASE StopDsp BY <1>7 DEF StopDsp
<1>8. CASE JoinDsp BY <1>8 DEF JoinDsp
<1>9. CASE PublishZero BY <1>9 DEF PublishZero, StateAt
<1>10. CASE SetCode BY <1>10 DEF SetCode, StateAt
<1>11. CASE Choose BY <1>11 DEF Choose, ChosenFor
<1>12. CASE OpenSource BY <1>12 DEF OpenSource
<1>13. CASE OpenFails BY <1>13 DEF OpenFails
<1>14. CASE StartDsp BY <1>14 DEF StartDsp
<1>15. CASE StartSource BY <1>15 DEF StartSource
<1>16. CASE StartSourceFails BY <1>16 DEF StartSourceFails
<1>17. CASE Fail BY <1>17 DEF Fail
<1>18. CASE Dsp
  <2>1. CASE DspCheck BY <2>1 DEF DspCheck
  <2>2. CASE DspSleep BY <2>2 DEF DspSleep
  <2>3. CASE DspPop BY <2>3 DEF DspPop
  <2>4. CASE DspProcess BY <2>4 DEF DspProcess, ThreadsAt
  <2>5. CASE DspThrows BY <2>5 DEF DspThrows, ThreadsAt
  <2>6. CASE DspPublish BY <2>6 DEF DspPublish, ThreadsAt
  <2> QED BY <1>18, <2>1, <2>2, <2>3, <2>4, <2>5, <2>6 DEF Dsp
<1>19. ASSUME NEW s \in Capturing, Capture(s) PROVE TypeOK'
  <2> s \in Sources BY DEF Sources
  <2>1. CASE CaptureReady(s) BY <2>1 DEF CaptureReady
  <2>2. CASE CaptureFails(s) BY <2>2 DEF CaptureFails
  <2>3. CASE Push(s) BY <2>3 DEF Push
  <2>4. CASE CaptureStops(s) BY <2>4 DEF CaptureStops
  <2>5. CASE CaptureTornDown(s)
    <3> PICK asked \in BOOLEAN : restart' = [restart EXCEPT ![s] = @ \/ asked]
      BY <2>5 DEF CaptureTornDown
    <3>1. restart' \in [Sources -> BOOLEAN] OBVIOUS
    <3> QED BY <2>5, <3>1 DEF CaptureTornDown
  <2>6. CASE DeviceChanges(s) BY <2>6 DEF DeviceChanges
  <2> QED BY <1>19, <2>1, <2>2, <2>3, <2>4, <2>5, <2>6 DEF Capture, CaptureSetUp
<1>20. CASE UNCHANGED vars BY <1>20
<1> QED
  BY <1>1, <1>2, <1>3, <1>4, <1>5, <1>6, <1>7, <1>8, <1>9, <1>10, <1>11, <1>12,
     <1>13, <1>14, <1>15, <1>16, <1>17, <1>18, <1>19, <1>20
     DEF Next, Call, Continue
(* Every step leaves the public state and the place of the control thread *)
(* in agreement.                                                          *)
LEMMA StateStep == LifecycleInv /\ [Next]_vars => StateAt'
<1> SUFFICES ASSUME LifecycleInv, [Next]_vars PROVE StateAt'
  OBVIOUS
<1> USE SourcesAssumption
    DEF LifecycleInv, TypeOK, StateAt, vars, controlVars, captureVars, dspVars, Goto
<1>1. CASE Start BY <1>1 DEF Start
<1>2. CASE Stop BY <1>2 DEF Stop
<1>3. ASSUME NEW code \in Available \cup {configured}, Switch(code) PROVE StateAt'
  BY <1>3 DEF Switch
<1>4. ASSUME NEW code \in Sources \cup {Unknown}, Reload(code) PROVE StateAt'
  BY <1>4 DEF Reload
<1>5. CASE StopSource BY <1>5 DEF StopSource
<1>6. CASE JoinSource BY <1>6 DEF JoinSource
<1>7. CASE StopDsp BY <1>7 DEF StopDsp
<1>8. CASE JoinDsp BY <1>8 DEF JoinDsp
<1>9. CASE PublishZero BY <1>9 DEF PublishZero
<1>10. CASE SetCode BY <1>10 DEF SetCode
<1>11. CASE Choose BY <1>11 DEF Choose, ChosenFor
<1>12. CASE OpenSource BY <1>12 DEF OpenSource
<1>13. CASE OpenFails BY <1>13 DEF OpenFails
<1>14. CASE StartDsp BY <1>14 DEF StartDsp
<1>15. CASE StartSource BY <1>15 DEF StartSource
<1>16. CASE StartSourceFails BY <1>16 DEF StartSourceFails
<1>17. CASE Fail BY <1>17 DEF Fail
<1>18. CASE Dsp
  <2>1. CASE DspCheck BY <2>1 DEF DspCheck
  <2>2. CASE DspSleep BY <2>2 DEF DspSleep
  <2>3. CASE DspPop BY <2>3 DEF DspPop
  <2>4. CASE DspProcess BY <2>4 DEF DspProcess
  <2>5. CASE DspThrows BY <2>5 DEF DspThrows
  <2>6. CASE DspPublish BY <2>6 DEF DspPublish
  <2> QED BY <1>18, <2>1, <2>2, <2>3, <2>4, <2>5, <2>6 DEF Dsp
<1>19. ASSUME NEW s \in Capturing, Capture(s) PROVE StateAt'
  <2> s \in Sources BY DEF Sources
  <2>1. CASE CaptureReady(s) BY <2>1 DEF CaptureReady
  <2>2. CASE CaptureFails(s) BY <2>2 DEF CaptureFails
  <2>3. CASE Push(s) BY <2>3 DEF Push
  <2>4. CASE CaptureStops(s) BY <2>4 DEF CaptureStops
  <2>5. CASE CaptureTornDown(s) BY <2>5 DEF CaptureTornDown
  <2>6. CASE DeviceChanges(s) BY <2>6 DEF DeviceChanges
  <2> QED BY <1>19, <2>1, <2>2, <2>3, <2>4, <2>5, <2>6 DEF Capture, CaptureSetUp
<1>20. CASE UNCHANGED vars BY <1>20
<1> QED
  BY <1>1, <1>2, <1>3, <1>4, <1>5, <1>6, <1>7, <1>8, <1>9, <1>10, <1>11, <1>12,
     <1>13, <1>14, <1>15, <1>16, <1>17, <1>18, <1>19, <1>20
     DEF Next, Call, Continue

(* Every step leaves only the threads that may exist at that place: after *)
(* the joins none is left, before the spawns none is there.               *)
LEMMA ThreadsStep == LifecycleInv /\ [Next]_vars => ThreadsAt'
<1> SUFFICES ASSUME LifecycleInv, [Next]_vars PROVE ThreadsAt'
  OBVIOUS
<1> USE SourcesAssumption
    DEF LifecycleInv, TypeOK, StateAt, ThreadsAt, OneProducer, FramesHaveAConsumer, DspIsAlive, OffIsQuiet, ErrorLeavesNoThread, RunningIsServed, vars, controlVars, captureVars, dspVars, Goto
<1>1. CASE Start BY <1>1 DEF Start
<1>2. CASE Stop BY <1>2 DEF Stop
<1>3. ASSUME NEW code \in Available \cup {configured}, Switch(code) PROVE ThreadsAt'
  BY <1>3 DEF Switch
<1>4. ASSUME NEW code \in Sources \cup {Unknown}, Reload(code) PROVE ThreadsAt'
  BY <1>4 DEF Reload
<1>5. CASE StopSource BY <1>5 DEF StopSource
<1>6. CASE JoinSource BY <1>6 DEF JoinSource
<1>7. CASE StopDsp BY <1>7 DEF StopDsp
<1>8. CASE JoinDsp BY <1>8 DEF JoinDsp
<1>9. CASE PublishZero BY <1>9 DEF PublishZero
<1>10. CASE SetCode BY <1>10 DEF SetCode
<1>11. CASE Choose BY <1>11 DEF Choose
<1>12. CASE OpenSource BY <1>12 DEF OpenSource
<1>13. CASE OpenFails BY <1>13 DEF OpenFails
<1>14. CASE StartDsp BY <1>14 DEF StartDsp
<1>15. CASE StartSource BY <1>15 DEF StartSource
<1>16. CASE StartSourceFails BY <1>16 DEF StartSourceFails
<1>17. CASE Fail BY <1>17 DEF Fail
<1>18. CASE Dsp
  <2>1. CASE DspCheck BY <2>1 DEF DspCheck
  <2>2. CASE DspSleep BY <2>2 DEF DspSleep
  <2>3. CASE DspPop BY <2>3 DEF DspPop
  <2>4. CASE DspProcess BY <2>4 DEF DspProcess
  <2>5. CASE DspThrows BY <2>5 DEF DspThrows
  <2>6. CASE DspPublish BY <2>6 DEF DspPublish
  <2> QED BY <1>18, <2>1, <2>2, <2>3, <2>4, <2>5, <2>6 DEF Dsp
<1>19. ASSUME NEW s \in Capturing, Capture(s) PROVE ThreadsAt'
  <2> s \in Sources BY DEF Sources
  <2>1. CASE CaptureReady(s) BY <2>1 DEF CaptureReady
  <2>2. CASE CaptureFails(s) BY <2>2 DEF CaptureFails
  <2>3. CASE Push(s) BY <2>3 DEF Push
  <2>4. CASE CaptureStops(s) BY <2>4 DEF CaptureStops
  <2>5. CASE CaptureTornDown(s) BY <2>5 DEF CaptureTornDown
  <2>6. CASE DeviceChanges(s) BY <2>6 DEF DeviceChanges
  <2> QED BY <1>19, <2>1, <2>2, <2>3, <2>4, <2>5, <2>6 DEF Capture, CaptureSetUp
<1>20. CASE UNCHANGED vars BY <1>20
<1> QED
  BY <1>1, <1>2, <1>3, <1>4, <1>5, <1>6, <1>7, <1>8, <1>9, <1>10, <1>11, <1>12,
     <1>13, <1>14, <1>15, <1>16, <1>17, <1>18, <1>19, <1>20
     DEF Next, Call, Continue

(* The parts others rely on follow step by step from the two above.       *)
LEMMA SafetyStep == LifecycleInv /\ [Next]_vars => Safety'
<1> SUFFICES ASSUME LifecycleInv, [Next]_vars PROVE Safety'
  OBVIOUS
<1> USE SourcesAssumption
    DEF LifecycleInv, TypeOK, StateAt, ThreadsAt, Safety, OneProducer, NoThreadOverwritten, SingleWriter, FramesHaveAConsumer, OffIsQuiet, ErrorLeavesNoThread, RunningIsServed, DspIsAlive, vars, controlVars, captureVars, dspVars, Goto
<1>1. CASE Start BY <1>1 DEF Start
<1>2. CASE Stop BY <1>2 DEF Stop
<1>3. ASSUME NEW code \in Available \cup {configured}, Switch(code) PROVE Safety'
  BY <1>3 DEF Switch
<1>4. ASSUME NEW code \in Sources \cup {Unknown}, Reload(code) PROVE Safety'
  BY <1>4 DEF Reload
<1>5. CASE StopSource BY <1>5 DEF StopSource
<1>6. CASE JoinSource BY <1>6 DEF JoinSource
<1>7. CASE StopDsp BY <1>7 DEF StopDsp
<1>8. CASE JoinDsp BY <1>8 DEF JoinDsp
<1>9. CASE PublishZero BY <1>9 DEF PublishZero
<1>10. CASE SetCode BY <1>10 DEF SetCode
<1>11. CASE Choose BY <1>11 DEF Choose
<1>12. CASE OpenSource BY <1>12 DEF OpenSource
<1>13. CASE OpenFails BY <1>13 DEF OpenFails
<1>14. CASE StartDsp BY <1>14 DEF StartDsp
<1>15. CASE StartSource BY <1>15 DEF StartSource
<1>16. CASE StartSourceFails BY <1>16 DEF StartSourceFails
<1>17. CASE Fail BY <1>17 DEF Fail
<1>18. CASE Dsp
  <2>1. CASE DspCheck BY <2>1 DEF DspCheck
  <2>2. CASE DspSleep BY <2>2 DEF DspSleep
  <2>3. CASE DspPop BY <2>3 DEF DspPop
  <2>4. CASE DspProcess BY <2>4 DEF DspProcess
  <2>5. CASE DspThrows BY <2>5 DEF DspThrows
  <2>6. CASE DspPublish BY <2>6 DEF DspPublish
  <2> QED BY <1>18, <2>1, <2>2, <2>3, <2>4, <2>5, <2>6 DEF Dsp
<1>19. ASSUME NEW s \in Capturing, Capture(s) PROVE Safety'
  <2> s \in Sources BY DEF Sources
  <2>1. CASE CaptureReady(s) BY <2>1 DEF CaptureReady
  <2>2. CASE CaptureFails(s) BY <2>2 DEF CaptureFails
  <2>3. CASE Push(s) BY <2>3 DEF Push
  <2>4. CASE CaptureStops(s) BY <2>4 DEF CaptureStops
  <2>5. CASE CaptureTornDown(s) BY <2>5 DEF CaptureTornDown
  <2>6. CASE DeviceChanges(s) BY <2>6 DEF DeviceChanges
  <2> QED BY <1>19, <2>1, <2>2, <2>3, <2>4, <2>5, <2>6 DEF Capture, CaptureSetUp
<1>20. CASE UNCHANGED vars BY <1>20
<1> QED
  BY <1>1, <1>2, <1>3, <1>4, <1>5, <1>6, <1>7, <1>8, <1>9, <1>10, <1>11, <1>12,
     <1>13, <1>14, <1>15, <1>16, <1>17, <1>18, <1>19, <1>20
     DEF Next, Call, Continue

(* Whatever operations are called, in whatever order, and wherever capture *)
(* threads fail, the threads that exist are those the state calls for:     *)
(* one producer and one consumer of the ring, one writer of the snapshot,  *)
(* and none of them when Off or in Error (audio_system.cpp).               *)
THEOREM LifecycleInvariant == Spec => []LifecycleInv
<1>1. Init => LifecycleInv
  BY InitLifecycleInv
<1>2. LifecycleInv /\ [Next]_vars => LifecycleInv'
  BY TypeStep, StateStep, ThreadsStep, SafetyStep DEF LifecycleInv, Safety
<1> QED BY <1>1, <1>2, PTL DEF Spec

===============================================================================
