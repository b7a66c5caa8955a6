-------------------------- MODULE ProcessSource_proofs -------------------------
(***************************************************************************)
(* Proofs about ProcessSource for any number of activations and any set of *)
(* handle values.                                                          *)
(***************************************************************************)
EXTENDS ProcessSource, TLAPS

(* What the end of an activation does to the threads.                     *)
LEMMA ReturnEffect ==
  ASSUME NEW works \in BOOLEAN, Returns(works)
  PROVE  /\ restart' = restart
         /\ control = "opening" =>
              /\ control' = IF works THEN "opened" ELSE "idle"
              /\ capture' = capture /\ running' = running
              /\ com' = com /\ boosted' = boosted /\ audio' = audio
         /\ control # "opening" => control' = control
         /\ control # "opening" /\ works =>
              /\ capture' = "setup" /\ running' = running
              /\ com' = com /\ boosted' = boosted /\ audio' = audio
         /\ control # "opening" /\ ~works => CaptureEnds
BY DEF Returns

(* Where client goes when the wait for an activation is over.             *)
LEMMA ReleaseEffect ==
  ASSUME ActivationTypeOK, Release
  PROVE  LET works == read.ok /\ read.client
         IN  /\ Returns(works)
             /\ handler' = [handler EXCEPT ![n].refs = @ - 1]
             /\ \E c \in {"stream", "released", "lost", client[n]} :
                  /\ client' = [client EXCEPT ![n] = c]
                  /\ works /\ control # "opening" => c = "stream"
                  /\ c = "stream" => (works /\ control # "opening") \/ c = client[n]
                  /\ read.client => c \in {"stream", "released"}
                  /\ ~read.client => c = Dropped(n)
             /\ signalled' = signalled \ {handler[n].event}
             /\ read' = [ok |-> FALSE, client |-> FALSE]
             /\ pc' = "none" /\ n' = n /\ early' = early
<1> DEFINE works == read.ok /\ read.client
           c == CASE works /\ control # "opening" -> "stream"
                  [] read.client /\ ~(works /\ control # "opening") -> "released"
                  [] OTHER -> Dropped(n)
<1>1. client' = [client EXCEPT ![n] = c]
  BY DEF Release
<1>2. /\ works /\ control # "opening" => c = "stream"
      /\ c = "stream" => (works /\ control # "opening") \/ c = client[n]
      /\ read.client => c \in {"stream", "released"}
      /\ ~read.client => c = Dropped(n)
      /\ c \in {"stream", "released", "lost", client[n]}
  BY DEF Dropped
<1> HIDE DEF c
<1> QED BY <1>1, <1>2 DEF Release

(* A source that was never opened.                                        *)
LEMMA InitSourceInv == Init => SourceInv
<1> SUFFICES ASSUME Init PROVE SourceInv
  OBVIOUS
<1> USE DEF Init, Unused
<1>1. ThreadTypeOK
  BY DEF ThreadTypeOK
<1>2. ActivationTypeOK
  <2>1. /\ pc = "none" /\ n \in 0..MaxActivations /\ signalled \subseteq Handles
    BY SourceAssumption
  <2>0. early \in BOOLEAN OBVIOUS
  <2>2. handler \in [Activations -> Handler]
    BY DEF Handler
  <2> QED BY <2>0, <2>1, <2>2 DEF ActivationTypeOK
<1>3. OneWaits BY DEF OneWaits
<1>4. CallsArePaired BY DEF CallsArePaired, Activations
<1>5. HandlersLive BY DEF HandlersLive
<1>6. HeldWhileRunning BY DEF HeldWhileRunning
<1>7. SignalsInTime BY DEF SignalsInTime, Activations
<1>8. ClientsFollowed BY DEF ClientsFollowed, ClientIsWhere, Activations
<1> QED BY <1>1, <1>2, <1>3, <1>4, <1>5, <1>6, <1>7, <1>8 DEF SourceInv

(* Which steps are not of the threads alone: they are about an activation *)
(* under way, its callback or the event of the stream.                    *)
LEMMA ThreadsApart ==
  ASSUME [Next]_vars
  PROVE  \/ UNCHANGED activationVars
         \/ CaptureFails \/ Period \/ \E asks \in BOOLEAN : LoopLeaves(asks)
         \/ \E e \in Handles : Activate(e)
         \/ WaitSignalled \/ WaitTimesOut \/ ReadResults \/ ReadClient \/ Take \/ Release
         \/ \E a \in Activations : Callback(a)
BY DEF Next, vars, Waiter, LoopStops, LoopBreaks, OpenSource, StartSource, StopSource,
       Join, CaptureBegins, CaptureStarts, ActivateFails

(* Which steps change what the threads keep.                              *)
LEMMA WaitsApart ==
  ASSUME [Next]_vars
  PROVE  \/ UNCHANGED threadVars
         \/ OpenSource \/ StartSource \/ StopSource \/ Join
         \/ CaptureBegins \/ (\E e \in Handles : CaptureStarts(e)) \/ CaptureFails
         \/ \E asks \in BOOLEAN : LoopLeaves(asks)
         \/ ActivateFails \/ Release
BY DEF Next, vars, Waiter, Callback, LoopStops, LoopBreaks, Period, Activate,
       WaitSignalled, WaitTimesOut, ReadResults, ReadClient, Take,
       CallResults, CallClient, CallSignal, CallReleases

(* Each step keeps the types of the variables of the threads.             *)
LEMMA ThreadTypeStep == SourceInv /\ [Next]_vars => ThreadTypeOK'
<1> SUFFICES ASSUME SourceInv, [Next]_vars PROVE ThreadTypeOK'
  OBVIOUS
<1> USE DEF SourceInv, ThreadTypeOK, threadVars, CaptureEnds
<1>1. CASE OpenSource
  BY <1>1 DEF OpenSource
<1>2. CASE StartSource
  BY <1>2 DEF StartSource
<1>3. CASE StopSource
  BY <1>3 DEF StopSource
<1>4. CASE Join
  BY <1>4 DEF Join
<1>5. CASE CaptureBegins
  BY <1>5 DEF CaptureBegins
<1>6. ASSUME NEW e \in Handles, CaptureStarts(e) PROVE ThreadTypeOK'
  BY <1>6 DEF CaptureStarts
<1>7. CASE CaptureFails
  BY <1>7 DEF CaptureFails, ClientReleased
<1>8. ASSUME NEW asks \in BOOLEAN, LoopLeaves(asks) PROVE ThreadTypeOK'
  BY <1>8 DEF LoopLeaves, ClientReleased
<1>9. CASE ActivateFails
  BY ReturnEffect, <1>9 DEF ActivateFails
<1>10. CASE Release
  BY ReturnEffect, ReleaseEffect, <1>10 DEF Release
<1>11. CASE UNCHANGED threadVars
  BY <1>11 DEF threadVars
<1> HIDE DEF SourceInv, ThreadTypeOK, threadVars, CaptureEnds
<1> QED
  BY WaitsApart, <1>1, <1>2, <1>3, <1>4, <1>5, <1>6, <1>7, <1>8, <1>9, <1>10,
     <1>11

(* A change of one handler, or of the owner of one client, keeps the type *)
(* of all of them ...                                                     *)
LEMMA HandlerChanged ==
  ASSUME NEW a \in Activations, NEW h \in Handler,
         handler \in [Activations -> Handler], handler' = [handler EXCEPT ![a] = h]
  PROVE  handler' \in [Activations -> Handler]
OBVIOUS

LEMMA ClientChanged ==
  ASSUME NEW a \in Activations, NEW S, NEW c \in S,
         client \in [Activations -> S], client' = [client EXCEPT ![a] = c]
  PROVE  client' \in [Activations -> S]
OBVIOUS

(* ... and so do the changes of a handler's fields that the threads make. *)
LEMMA HandlerFields ==
  ASSUME NEW h \in Handler
  PROVE  /\ [h EXCEPT !.refs = @ - 1] \in Handler
         /\ [h EXCEPT !.refs = @ - 1, !.call = "done"] \in Handler
         /\ [h EXCEPT !.client = FALSE] \in Handler
         /\ [h EXCEPT !.client = TRUE, !.call = "signal"] \in Handler
         /\ [h EXCEPT !.call = "release"] \in Handler
         /\ h.ok \in BOOLEAN /\ h.client \in BOOLEAN
<1> USE DEF Handler
<1>0. h.refs - 1 \in Int
  OBVIOUS
<1>1. [h EXCEPT !.refs = @ - 1] \in Handler
  BY <1>0
<1>2. [h EXCEPT !.refs = @ - 1, !.call = "done"] \in Handler
  BY <1>0
<1>3. [h EXCEPT !.client = FALSE] \in Handler
  OBVIOUS
<1>4. [h EXCEPT !.client = TRUE, !.call = "signal"] \in Handler
  OBVIOUS
<1>5. [h EXCEPT !.call = "release"] \in Handler
  OBVIOUS
<1> QED BY <1>1, <1>2, <1>3, <1>4, <1>5

(* ... and those of the activations.                                      *)
LEMMA ActivationTypeStep == SourceInv /\ [Next]_vars => ActivationTypeOK'
<1> SUFFICES ASSUME SourceInv, [Next]_vars PROVE ActivationTypeOK'
  OBVIOUS
<1> USE SourceAssumption DEF SourceInv, ActivationTypeOK, activationVars,
      Activations
<1>1. CASE CaptureFails
  BY <1>1 DEF CaptureFails, ClientReleased
<1>2. CASE Period
  BY <1>2 DEF Period, ThreadTypeOK, HeldWhileRunning
<1>3. ASSUME NEW asks \in BOOLEAN, LoopLeaves(asks) PROVE ActivationTypeOK'
  BY <1>3 DEF LoopLeaves, ClientReleased
<1>4. ASSUME NEW e \in Handles, Activate(e) PROVE ActivationTypeOK'
  <2>1. n + 1 \in Activations /\ n' \in 0..MaxActivations
    BY <1>4 DEF Activate
  <2> QED BY <1>4, <2>1 DEF Activate, Handler
<1>5. CASE WaitSignalled
  BY <1>5 DEF WaitSignalled
<1>6. CASE WaitTimesOut
  BY <1>6 DEF WaitTimesOut
<1>7. CASE ReadResults
  <2>1. n \in Activations /\ handler[n] \in Handler
    BY <1>7 DEF ReadResults, OneWaits
  <2>2. handler[n].ok \in BOOLEAN
    BY <2>1, HandlerFields
  <2> QED BY <1>7, <2>1, <2>2 DEF ReadResults
<1>8. CASE ReadClient
  <2>1. n \in Activations /\ handler[n] \in Handler
    BY <1>8 DEF ReadClient, OneWaits
  <2>2. handler[n].client \in BOOLEAN
    BY <2>1, HandlerFields
  <2> QED BY <1>8, <2>1, <2>2 DEF ReadClient
<1>9. CASE Take
  <2>1. /\ n \in Activations /\ handler[n] \in Handler
        /\ handler' = [handler EXCEPT ![n].client = FALSE]
        /\ client' = [client EXCEPT ![n] = IF @ = "handler" THEN "lost" ELSE @]
        /\ pc' = "release" /\ UNCHANGED <<n, read, signalled, early>>
    BY <1>9 DEF Take, OneWaits
  <2>2. handler' \in [Activations -> Handler]
    BY <2>1, HandlerFields, HandlerChanged
  <2> QED BY <2>1, <2>2
<1>10. CASE Release
  <2>0. n \in Activations
    BY <1>10 DEF Release, OneWaits
  <2>1. /\ n \in 0..MaxActivations /\ pc' = "none" /\ n' = n /\ early' = early
        /\ read' = [ok |-> FALSE, client |-> FALSE]
        /\ signalled' \subseteq signalled
        /\ handler' = [handler EXCEPT ![n].refs = @ - 1]
    BY <1>10 DEF Release
  <2>2. PICK c \in {"stream", "released", "lost", client[n]} :
             client' = [client EXCEPT ![n] = c]
    BY ReleaseEffect, <1>10
  <2>3. client' \in [Activations ->
               {"none", "handler", "waiter", "stream", "released", "lost"}]
    BY <2>0, <2>2
  <2>4. handler' \in [Activations -> Handler]
    BY <2>0, <2>1, HandlerFields, HandlerChanged
  <2> QED BY <2>1, <2>3, <2>4
<1>11. ASSUME NEW a \in Activations, NEW ok \in BOOLEAN, NEW unk \in BOOLEAN,
             CallResults(a, ok, unk) PROVE ActivationTypeOK'
  BY <1>11 DEF CallResults, Handler
<1>12. ASSUME NEW a \in Activations, CallClient(a) PROVE ActivationTypeOK'
  <2>1. /\ handler[a] \in Handler
        /\ handler' = [handler EXCEPT ![a].client = TRUE, ![a].call = "signal"]
        /\ client' = [client EXCEPT ![a] = "handler"]
        /\ UNCHANGED <<pc, n, read, signalled, early>>
    BY <1>12 DEF CallClient
  <2>2. handler' \in [Activations -> Handler]
    BY <2>1, HandlerFields, HandlerChanged
  <2> QED BY <2>1, <2>2
<1>13. ASSUME NEW a \in Activations, CallSignal(a) PROVE ActivationTypeOK'
  <2>1. /\ handler[a] \in Handler /\ handler[a].event \in Handles
        /\ handler' = [handler EXCEPT ![a].call = "release"]
        /\ signalled' = signalled \cup ({handler[a].event} \cap Open)
        /\ UNCHANGED <<pc, n, client, read, early>>
    BY <1>13 DEF CallSignal, CallsArePaired
  <2>2. handler' \in [Activations -> Handler]
    BY <2>1, HandlerFields, HandlerChanged
  <2> QED BY <2>1, <2>2
<1>14. ASSUME NEW a \in Activations, CallReleases(a) PROVE ActivationTypeOK'
  <2>1. /\ handler[a] \in Handler
        /\ handler' = [handler EXCEPT ![a].refs = @ - 1, ![a].call = "done"]
        /\ client' = [client EXCEPT ![a] = Dropped(a)]
        /\ UNCHANGED <<pc, n, read, signalled, early>>
    BY <1>14 DEF CallReleases
  <2>2. handler' \in [Activations -> Handler]
    BY <2>1, HandlerFields, HandlerChanged
  <2>3. client' \in [Activations ->
               {"none", "handler", "waiter", "stream", "released", "lost"}]
    BY <2>1 DEF Dropped
  <2> QED BY <2>1, <2>2, <2>3
<1>15. CASE UNCHANGED activationVars
  BY <1>15 DEF activationVars
<1> HIDE DEF SourceInv, ActivationTypeOK, activationVars, Activations
<1> QED
  BY ThreadsApart, <1>1, <1>2, <1>3, <1>4, <1>5, <1>6, <1>7, <1>8, <1>9,
     <1>10, <1>11, <1>12, <1>13, <1>14, <1>15 DEF Callback

(* open() and the capture thread never activate at the same time.         *)
LEMMA OneWaitsStep == SourceInv /\ [Next]_vars => OneWaits'
<1> SUFFICES ASSUME SourceInv, [Next]_vars PROVE OneWaits'
  OBVIOUS
<1> USE SourceAssumption DEF SourceInv, OneWaits, ThreadTypeOK, threadVars,
      activationVars
<1>1. CASE OpenSource
  BY <1>1 DEF OpenSource
<1>2. CASE StartSource
  BY <1>2 DEF StartSource
<1>3. CASE StopSource
  BY <1>3 DEF StopSource
<1>4. CASE Join
  BY <1>4 DEF Join
<1>5. CASE CaptureBegins
  BY <1>5 DEF CaptureBegins
<1>6. ASSUME NEW e \in Handles, CaptureStarts(e) PROVE OneWaits'
  BY <1>6 DEF CaptureStarts
<1>7. CASE CaptureFails
  BY <1>7 DEF CaptureFails, ClientReleased, CaptureEnds
<1>8. CASE Period
  BY <1>8 DEF Period
<1>9. ASSUME NEW asks \in BOOLEAN, LoopLeaves(asks) PROVE OneWaits'
  BY <1>9 DEF LoopLeaves, ClientReleased, CaptureEnds
<1>10. CASE ActivateFails
  BY ReturnEffect, <1>10 DEF ActivateFails, Asking, CaptureEnds
<1>11. ASSUME NEW e \in Handles, Activate(e) PROVE OneWaits'
  BY <1>11 DEF Activate, Asking, Activations, ActivationTypeOK
<1>12. CASE WaitSignalled
  BY <1>12 DEF WaitSignalled
<1>13. CASE WaitTimesOut
  BY <1>13 DEF WaitTimesOut
<1>14. CASE ReadResults
  BY <1>14 DEF ReadResults
<1>15. CASE ReadClient
  BY <1>15 DEF ReadClient
<1>16. CASE Take
  BY <1>16 DEF Take
<1>17. CASE Release
  BY ReleaseEffect, ReturnEffect, <1>17 DEF Release, CaptureEnds
<1>18. ASSUME NEW a \in Activations, NEW ok \in BOOLEAN, NEW unk \in BOOLEAN,
             CallResults(a, ok, unk) PROVE OneWaits'
  BY <1>18 DEF CallResults
<1>19. ASSUME NEW a \in Activations, CallClient(a) PROVE OneWaits'
  BY <1>19 DEF CallClient
<1>20. ASSUME NEW a \in Activations, CallSignal(a) PROVE OneWaits'
  BY <1>20 DEF CallSignal
<1>21. ASSUME NEW a \in Activations, CallReleases(a) PROVE OneWaits'
  BY <1>21 DEF CallReleases
<1>22. CASE UNCHANGED vars
  BY <1>22 DEF vars
<1> HIDE DEF SourceInv, OneWaits, ThreadTypeOK, threadVars, activationVars
<1> QED
  BY <1>1, <1>2, <1>3, <1>4, <1>5, <1>6, <1>7, <1>8, <1>9, <1>10, <1>11,
     <1>12, <1>13, <1>14, <1>15, <1>16, <1>17, <1>18, <1>19, <1>20, <1>21,
     <1>22 DEF Next, Waiter, Callback, LoopStops, LoopBreaks

(* A handler is only called back for the activation it was made for.      *)
LEMMA CallsArePairedStep == SourceInv /\ [Next]_vars => CallsArePaired'
<1> SUFFICES ASSUME SourceInv, [Next]_vars PROVE CallsArePaired'
  OBVIOUS
<1> USE SourceAssumption DEF SourceInv, CallsArePaired, ActivationTypeOK,
      threadVars, activationVars, Activations
<1>1. CASE CaptureFails
  BY <1>1 DEF CaptureFails, ClientReleased
<1>2. CASE Period
  BY <1>2 DEF Period
<1>3. ASSUME NEW asks \in BOOLEAN, LoopLeaves(asks) PROVE CallsArePaired'
  BY <1>3 DEF LoopLeaves, ClientReleased
<1>4. ASSUME NEW e \in Handles, Activate(e) PROVE CallsArePaired'
  BY <1>4 DEF Activate
<1>5. CASE WaitSignalled
  BY <1>5 DEF WaitSignalled
<1>6. CASE WaitTimesOut
  BY <1>6 DEF WaitTimesOut
<1>7. CASE ReadResults
  BY <1>7 DEF ReadResults
<1>8. CASE ReadClient
  BY <1>8 DEF ReadClient
<1>9. CASE Take
  BY <1>9 DEF Take, OneWaits
<1>10. CASE Release
  BY ReleaseEffect, <1>10 DEF Release, OneWaits
<1>11. ASSUME NEW a \in Activations, NEW ok \in BOOLEAN, NEW unk \in BOOLEAN,
             CallResults(a, ok, unk) PROVE CallsArePaired'
  BY <1>11 DEF CallResults
<1>12. ASSUME NEW a \in Activations, CallClient(a) PROVE CallsArePaired'
  BY <1>12 DEF CallClient
<1>13. ASSUME NEW a \in Activations, CallSignal(a) PROVE CallsArePaired'
  BY <1>13 DEF CallSignal
<1>14. ASSUME NEW a \in Activations, CallReleases(a) PROVE CallsArePaired'
  BY <1>14 DEF CallReleases
<1>15. CASE UNCHANGED activationVars
  BY <1>15 DEF activationVars
<1> HIDE DEF SourceInv, CallsArePaired, ActivationTypeOK, threadVars,
           activationVars, Activations
<1> QED
  BY ThreadsApart, <1>1, <1>2, <1>3, <1>4, <1>5, <1>6, <1>7, <1>8, <1>9,
     <1>10, <1>11, <1>12, <1>13, <1>14, <1>15 DEF Callback

(* The waiter and Windows each give back the one reference they have.     *)
LEMMA HandlersLiveStep == SourceInv /\ [Next]_vars => HandlersLive'
<1> SUFFICES ASSUME SourceInv, [Next]_vars PROVE HandlersLive'
  OBVIOUS
<1> USE SourceAssumption DEF SourceInv, HandlersLive, ActivationTypeOK,
      threadVars, activationVars, Activations
<1>1. CASE CaptureFails
  BY <1>1 DEF CaptureFails, ClientReleased
<1>2. CASE Period
  BY <1>2 DEF Period
<1>3. ASSUME NEW asks \in BOOLEAN, LoopLeaves(asks) PROVE HandlersLive'
  BY <1>3 DEF LoopLeaves, ClientReleased
<1>4. ASSUME NEW e \in Handles, Activate(e) PROVE HandlersLive'
  BY <1>4 DEF Activate, CallsArePaired, Asking
<1>5. CASE WaitSignalled
  BY <1>5 DEF WaitSignalled
<1>6. CASE WaitTimesOut
  BY <1>6 DEF WaitTimesOut
<1>7. CASE ReadResults
  BY <1>7 DEF ReadResults
<1>8. CASE ReadClient
  BY <1>8 DEF ReadClient
<1>9. CASE Take
  BY <1>9 DEF Take, OneWaits
<1>10. CASE Release
  BY ReleaseEffect, <1>10 DEF Release, OneWaits
<1>11. ASSUME NEW a \in Activations, NEW ok \in BOOLEAN, NEW unk \in BOOLEAN,
             CallResults(a, ok, unk) PROVE HandlersLive'
  BY <1>11 DEF CallResults
<1>12. ASSUME NEW a \in Activations, CallClient(a) PROVE HandlersLive'
  BY <1>12 DEF CallClient
<1>13. ASSUME NEW a \in Activations, CallSignal(a) PROVE HandlersLive'
  BY <1>13 DEF CallSignal
<1>14. ASSUME NEW a \in Activations, CallReleases(a) PROVE HandlersLive'
  BY <1>14 DEF CallReleases
<1>15. CASE UNCHANGED activationVars
  BY <1>15 DEF activationVars
<1> HIDE DEF SourceInv, HandlersLive, ActivationTypeOK, threadVars,
           activationVars, Activations
<1> QED
  BY ThreadsApart, <1>1, <1>2, <1>3, <1>4, <1>5, <1>6, <1>7, <1>8, <1>9,
     <1>10, <1>11, <1>12, <1>13, <1>14, <1>15 DEF Callback

(* Each exit of the capture thread gives back what its entries acquired.  *)
LEMMA HeldStep == SourceInv /\ [Next]_vars => HeldWhileRunning'
<1> SUFFICES ASSUME SourceInv, [Next]_vars PROVE HeldWhileRunning'
  OBVIOUS
<1> USE SourceAssumption DEF SourceInv, HeldWhileRunning, OneWaits,
      ActivationTypeOK, ThreadTypeOK, threadVars, activationVars
<1>1. CASE OpenSource
  BY <1>1 DEF OpenSource
<1>2. CASE StartSource
  BY <1>2 DEF StartSource
<1>3. CASE StopSource
  BY <1>3 DEF StopSource
<1>4. CASE Join
  BY <1>4 DEF Join
<1>5. CASE CaptureBegins
  BY <1>5 DEF CaptureBegins
<1>6. ASSUME NEW e \in Handles, CaptureStarts(e) PROVE HeldWhileRunning'
  BY <1>6 DEF CaptureStarts
<1>7. CASE CaptureFails
  BY <1>7 DEF CaptureFails, ClientReleased, CaptureEnds
<1>8. CASE Period
  BY <1>8 DEF Period
<1>9. ASSUME NEW asks \in BOOLEAN, LoopLeaves(asks) PROVE HeldWhileRunning'
  BY <1>9 DEF LoopLeaves, ClientReleased, CaptureEnds
<1>10. CASE ActivateFails
  BY ReturnEffect, <1>10 DEF ActivateFails, CaptureEnds, Asking
<1>11. ASSUME NEW e \in Handles, Activate(e) PROVE HeldWhileRunning'
  BY <1>11 DEF Activate
<1>12. CASE WaitSignalled
  BY <1>12 DEF WaitSignalled
<1>13. CASE WaitTimesOut
  BY <1>13 DEF WaitTimesOut
<1>14. CASE ReadResults
  BY <1>14 DEF ReadResults
<1>15. CASE ReadClient
  BY <1>15 DEF ReadClient
<1>16. CASE Take
  BY <1>16 DEF Take
<1>17. CASE Release
  BY ReleaseEffect, ReturnEffect, <1>17 DEF Release, CaptureEnds, Dropped
<1>18. ASSUME NEW a \in Activations, NEW ok \in BOOLEAN, NEW unk \in BOOLEAN,
             CallResults(a, ok, unk) PROVE HeldWhileRunning'
  BY <1>18 DEF CallResults
<1>19. ASSUME NEW a \in Activations, CallClient(a) PROVE HeldWhileRunning'
  BY <1>19 DEF CallClient
<1>20. ASSUME NEW a \in Activations, CallSignal(a) PROVE HeldWhileRunning'
  BY <1>20 DEF CallSignal
<1>21. ASSUME NEW a \in Activations, CallReleases(a) PROVE HeldWhileRunning'
  BY <1>21 DEF CallReleases, Dropped
<1>22. CASE UNCHANGED vars
  BY <1>22 DEF vars
<1> HIDE DEF SourceInv, HeldWhileRunning, OneWaits, ActivationTypeOK,
           ThreadTypeOK, threadVars, activationVars
<1> QED
  BY <1>1, <1>2, <1>3, <1>4, <1>5, <1>6, <1>7, <1>8, <1>9, <1>10, <1>11,
     <1>12, <1>13, <1>14, <1>15, <1>16, <1>17, <1>18, <1>19, <1>20, <1>21,
     <1>22 DEF Next, Waiter, Callback, LoopStops, LoopBreaks

(* As long as no wait ended early, the event a wait sees is the one its   *)
(* own callback set: no older callback is left to set it.                 *)
LEMMA SignalsInTimeStep == SourceInv /\ [Next]_vars => SignalsInTime'
<1> SUFFICES ASSUME SourceInv, [Next]_vars PROVE SignalsInTime'
  OBVIOUS
<1> USE SourceAssumption DEF SourceInv, SignalsInTime, Signals, OneWaits,
      CallsArePaired, ActivationTypeOK, threadVars, activationVars,
      Activations
<1>1. CASE CaptureFails
  BY <1>1 DEF CaptureFails, ClientReleased
<1>2. CASE Period
  BY <1>2 DEF Period
<1>3. ASSUME NEW asks \in BOOLEAN, LoopLeaves(asks) PROVE SignalsInTime'
  BY <1>3 DEF LoopLeaves, ClientReleased
<1>4. ASSUME NEW e \in Handles, Activate(e) PROVE SignalsInTime'
  BY <1>4 DEF Activate, Asking
<1>5. CASE WaitSignalled
  BY <1>5 DEF WaitSignalled
<1>6. CASE WaitTimesOut
  BY <1>6 DEF WaitTimesOut
<1>7. CASE ReadResults
  BY <1>7 DEF ReadResults
<1>8. CASE ReadClient
  BY <1>8 DEF ReadClient
<1>9. CASE Take
  BY <1>9 DEF Take
<1>10. CASE Release
  <2>1. /\ n \in Activations /\ pc = "release" /\ pc' = "none"
        /\ n' = n /\ early' = early
        /\ handler' = [handler EXCEPT ![n].refs = @ - 1]
    BY <1>10 DEF Release
  <2>2. \A a \in Activations : handler'[a].call = handler[a].call
    BY <2>1
  <2> QED BY <2>1, <2>2
<1>11. ASSUME NEW a \in Activations, NEW ok \in BOOLEAN, NEW unk \in BOOLEAN,
             CallResults(a, ok, unk) PROVE SignalsInTime'
  BY <1>11 DEF CallResults
<1>12. ASSUME NEW a \in Activations, CallClient(a) PROVE SignalsInTime'
  BY <1>12 DEF CallClient
<1>13. ASSUME NEW a \in Activations, CallSignal(a) PROVE SignalsInTime'
  BY <1>13 DEF CallSignal
<1>14. ASSUME NEW a \in Activations, CallReleases(a) PROVE SignalsInTime'
  BY <1>14 DEF CallReleases
<1>15. CASE UNCHANGED activationVars
  BY <1>15 DEF activationVars
<1> HIDE DEF SourceInv, SignalsInTime, Signals, OneWaits, CallsArePaired,
           ActivationTypeOK, threadVars, activationVars, Activations
<1> QED
  BY ThreadsApart, <1>1, <1>2, <1>3, <1>4, <1>5, <1>6, <1>7, <1>8, <1>9,
     <1>10, <1>11, <1>12, <1>13, <1>14, <1>15 DEF Callback

(* A client is where it was if nothing that says so has changed.          *)
LEMMA ClientStaysThere ==
  ASSUME ActivationTypeOK,
         NEW b \in Activations, ClientIsWhere(b), UNCHANGED <<pc, n, read>>,
         client'[b] = client[b], handler'[b].client = handler[b].client,
         handler'[b].call \in {"pending", "client"} =>
           handler[b].call \in {"pending", "client"}
  PROVE  ClientIsWhere(b)'
<1>1. CASE b > n \/ b < n \/ pc = "none"
  BY <1>1 DEF ClientIsWhere
<1>2. CASE ~(b > n \/ b < n \/ pc = "none")
  <2>1. pc \in {"wait", "results", "client", "take", "release"}
    BY <1>2 DEF ActivationTypeOK
  <2> QED BY <1>2, <2>1 DEF ClientIsWhere
<1> QED BY <1>1, <1>2

(* ... and so a client is stored before the waiter looks for it, never    *)
(* after.                                                                 *)
LEMMA ClientsFollowedStep == SourceInv /\ [Next]_vars => ClientsFollowed'
<1> SUFFICES ASSUME SourceInv, [Next]_vars PROVE ClientsFollowed'
  OBVIOUS
<1> USE SourceAssumption DEF SourceInv, ClientsFollowed, ClientIsWhere,
      SignalsInTime, Signals, OneWaits, CallsArePaired, ActivationTypeOK,
      threadVars, activationVars, Activations
<1>1. CASE CaptureFails
  BY <1>1 DEF CaptureFails, ClientReleased
<1>2. CASE Period
  BY <1>2 DEF Period
<1>3. ASSUME NEW asks \in BOOLEAN, LoopLeaves(asks) PROVE ClientsFollowed'
  BY <1>3 DEF LoopLeaves, ClientReleased
<1>4. ASSUME NEW e \in Handles, Activate(e) PROVE ClientsFollowed'
  BY <1>4 DEF Activate, Asking
<1>5. CASE WaitSignalled
  BY <1>5 DEF WaitSignalled
<1>6. CASE WaitTimesOut
  BY <1>6 DEF WaitTimesOut
<1>7. CASE ReadResults
  BY <1>7 DEF ReadResults
<1>8. CASE ReadClient
  BY <1>8 DEF ReadClient
<1>9. CASE Take
  BY <1>9 DEF Take
<1>10. CASE Release
  BY ReleaseEffect, <1>10 DEF Release, Dropped, HandlersLive
<1>11. ASSUME NEW a \in Activations, NEW ok \in BOOLEAN, NEW unk \in BOOLEAN,
             CallResults(a, ok, unk) PROVE ClientsFollowed'
  <2>1. /\ UNCHANGED <<pc, n, read, client, early>>
        /\ \A b \in Activations :
             /\ handler'[b].client = handler[b].client
             /\ handler'[b].call \in {"pending", "client"} =>
                  handler[b].call \in {"pending", "client"}
    BY <1>11 DEF CallResults
  <2> QED BY ONLY <2>1, ActivationTypeOK, ClientsFollowed, ClientStaysThere DEF ClientsFollowed
<1>12. ASSUME NEW a \in Activations, CallClient(a) PROVE ClientsFollowed'
  <2>1. /\ handler' = [handler EXCEPT ![a].client = TRUE, ![a].call = "signal"]
        /\ client' = [client EXCEPT ![a] = "handler"]
        /\ pc' = pc /\ n' = n /\ read' = read /\ early' = early
        /\ handler[a].call = "client"
    BY <1>12 DEF CallClient
  <2>2. ASSUME ~early PROVE pc = "wait" /\ a = n
    BY <2>1, <2>2
  <2>3. \A b \in Activations : ~early => ClientIsWhere(b)'
    <3> SUFFICES ASSUME NEW b \in Activations, ~early PROVE ClientIsWhere(b)'
      OBVIOUS
    <3>1. CASE b = a
      BY <2>1, <2>2, <3>1
    <3>2. CASE b # a
      <4>1. handler'[b] = handler[b] /\ client'[b] = client[b]
        BY <2>1, <3>2
      <4> QED BY <2>1, <2>2, <4>1
    <3> QED BY <3>1, <3>2
  <2> QED BY <2>1, <2>3
<1>13. ASSUME NEW a \in Activations, CallSignal(a) PROVE ClientsFollowed'
  <2>1. /\ UNCHANGED <<pc, n, read, client, early>>
        /\ \A b \in Activations :
             /\ handler'[b].client = handler[b].client
             /\ handler'[b].call \in {"pending", "client"} =>
                  handler[b].call \in {"pending", "client"}
    BY <1>13 DEF CallSignal
  <2> QED BY ONLY <2>1, ActivationTypeOK, ClientsFollowed, ClientStaysThere DEF ClientsFollowed
<1>14. ASSUME NEW a \in Activations, CallReleases(a) PROVE ClientsFollowed'
  <2>1. /\ UNCHANGED <<pc, n, read, early>>
        /\ client' = [client EXCEPT ![a] = Dropped(a)]
        /\ \A b \in Activations :
             /\ handler'[b].client = handler[b].client
             /\ handler'[b].call \in {"pending", "client"} =>
                  handler[b].call \in {"pending", "client"}
    BY <1>14 DEF CallReleases
  <2>2. ~early => Dropped(a) = client[a]
    <3> SUFFICES ASSUME ~early, handler[a].refs = 1 PROVE ~handler[a].client
      BY DEF Dropped
    <3>1. handler[a].call = "release" /\ ~(pc # "none" /\ a = n)
      BY <1>14 DEF CallReleases, HandlersLive
    <3>2. ~(a > n)
      BY <3>1 DEF CallsArePaired
    <3>3. n \in Int /\ a \in Int
      OBVIOUS
    <3>4. ClientIsWhere(a)
      BY DEF ClientsFollowed
    <3>5. a < n \/ pc = "none"
      BY ONLY <3>1, <3>2, <3>3
    <3> QED BY ONLY <3>2, <3>4, <3>5 DEF ClientIsWhere
  <2>3. ~early => \A b \in Activations : client'[b] = client[b]
    BY <2>1, <2>2
  <2> QED BY ONLY <2>1, <2>3, ActivationTypeOK, ClientsFollowed,
                   ClientStaysThere DEF ClientsFollowed
<1>15. CASE UNCHANGED activationVars
  BY <1>15 DEF activationVars
<1> HIDE DEF SourceInv, ClientsFollowed, ClientIsWhere, SignalsInTime,
           Signals, OneWaits, CallsArePaired, ActivationTypeOK, threadVars,
           activationVars, Activations
<1> QED
  BY ThreadsApart, <1>1, <1>2, <1>3, <1>4, <1>5, <1>6, <1>7, <1>8, <1>9,
     <1>10, <1>11, <1>12, <1>13, <1>14, <1>15 DEF Callback

-------------------------------------------------------------------------------
(* SourceInv is inductive.                                                *)
LEMMA SourceInvariant == Spec => []SourceInv
<1>1. SourceInv /\ [Next]_vars => SourceInv'
  BY ThreadTypeStep, ActivationTypeStep, OneWaitsStep, CallsArePairedStep, HandlersLiveStep,
     HeldStep, SignalsInTimeStep, ClientsFollowedStep DEF SourceInv
<1> QED BY InitSourceInv, <1>1, PTL DEF Spec

(* The handler of an activation exists while its waiter or Windows may use *)
(* it, and no longer, however many activations were abandoned before.      *)
THEOREM HandlersAlwaysLive == Spec => []HandlersLive
<1>1. SourceInv => HandlersLive
  BY DEF SourceInv
<1> QED BY <1>1, SourceInvariant, PTL

(* As long as every callback comes within the wait for it, no IAudioClient *)
(* is lost in a handler, and each one is with its waiter, with the stream  *)
(* or released.                                                            *)
THEOREM InTimeNoClientIsLost == Spec => []NoClientLostInTime
<1>1. SourceInv => NoClientLostInTime
  <2> SUFFICES ASSUME SourceInv, ~early, NEW a \in Activations
               PROVE  /\ client[a] # "lost"
                      /\ client[a] \in {"handler", "waiter"} => pc # "none" /\ a = n
    BY DEF NoClientLostInTime
  <2>1. n \in Nat /\ a \in Nat
        /\ pc \in {"none", "wait", "results", "client", "take", "release"}
    BY SourceAssumption DEF SourceInv, ActivationTypeOK, Activations
  <2>2. ClientIsWhere(a)
    BY DEF SourceInv, ClientsFollowed
  <2>3. CASE a # n \/ pc = "none"
    <3>1. CASE a > n
      BY <2>2, <3>1, Zenon DEF ClientIsWhere
    <3>2. CASE ~(a > n)
      <4>1. a < n \/ pc = "none"
        BY <2>1, <2>3, <3>2
      <4>2. client[a] \in {"none", "stream", "released"}
        BY <2>2, <3>2, <4>1, Zenon DEF ClientIsWhere
      <4> QED BY <4>2
    <3> QED BY <3>1, <3>2
  <2>4. CASE a = n /\ pc # "none"
    <3>1. client[a] \in {"none", "handler", "waiter"}
      BY <2>1, <2>2, <2>4 DEF ClientIsWhere
    <3> QED BY <2>4, <3>1
  <2> QED BY <2>3, <2>4
<1> QED BY <1>1, SourceInvariant, PTL

(* A capture thread that has ended, by whichever exit, holds nothing.      *)
THEOREM EndedIsAlwaysClean == Spec => []EndedIsClean
<1>1. SourceInv => EndedIsClean
  BY SourceAssumption DEF SourceInv, ThreadTypeOK, HeldWhileRunning, EndedIsClean
<1> QED BY <1>1, SourceInvariant, PTL

(* The first wait to end before its own callback signalled has timed out:  *)
(* no callback, of this or of another activation, ends it before.          *)
THEOREM OnlyATimeoutIsEarlyFirst == Spec => FirstEarlyTimedOut
<1>1. SourceInv /\ [Next]_vars => [~early /\ early' => WaitTimesOut]_vars
  <2> SUFFICES ASSUME SourceInv, [Next]_vars, ~early, early'
               PROVE  WaitTimesOut
    OBVIOUS
  <2>1. ~WaitSignalled
    BY DEF WaitSignalled, SourceInv, SignalsInTime, Signals
  <2> QED
    BY ThreadsApart, <2>1
    DEF activationVars, CaptureFails, Period, LoopLeaves, Activate, ReadResults, ReadClient,
        Take, Release, Callback, CallResults, CallClient, CallSignal, CallReleases
<1> QED BY <1>1, SourceInvariant, PTL DEF Spec, FirstEarlyTimedOut

===============================================================================
