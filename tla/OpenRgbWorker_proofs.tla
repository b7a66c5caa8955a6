------------------------- MODULE OpenRgbWorker_proofs --------------------------
(***************************************************************************)
(* The invariant of the OpenRGB worker, for any number of devices, any     *)
(* interval of checks and any number of retries: whatever the server and   *)
(* the network do between two of its calls, it paints only devices it has  *)
(* storage for, and its status line does not lie.                          *)
(***************************************************************************)
EXTENDS OpenRgbWorker, TLAPS

USE DEF Turning

(* No thread, no socket, no devices.                                      *)
LEMMA InitWorkerInv == Init => WorkerInv
<1> SUFFICES ASSUME Init PROVE WorkerInv
  OBVIOUS
<1> USE WorkerAssumption DEF Init
<1>1. attempt \in 0 .. Retries /\ ticks \in 0 .. CheckEvery - 1
        /\ devices \in 0 .. MaxDevices /\ frames \in 0 .. MaxDevices
        /\ count \in 0 .. MaxDevices
  OBVIOUS
<1>2. TypeOK BY <1>1, Zenon DEF TypeOK
<1>3. SlotsMatchDevices BY DEF SlotsMatchDevices
<1>4. StatusIsHonest BY DEF StatusIsHonest
<1>5. EndedLetsGo BY DEF EndedLetsGo
<1> QED BY <1>2, <1>3, <1>4, <1>5 DEF WorkerInv

(* Types are kept by every step.                                          *)
LEMMA TypeStep == WorkerInv /\ [Next]_vars => TypeOK'
<1> SUFFICES ASSUME WorkerInv, [Next]_vars PROVE TypeOK'
  OBVIOUS
<1> USE WorkerAssumption
    DEF WorkerInv, TypeOK, vars, serverVars, clientVars, placeVars, listVars,
        statusVars
<1>a. CASE Lose BY <1>a, ZenonT(30) DEF Lose
<1>b. CASE ComeUp BY <1>b, ZenonT(30) DEF ComeUp
<1>c. ASSUME NEW n \in 0 .. MaxDevices, Plug(n) PROVE TypeOK'
  BY <1>c, ZenonT(30) DEF Plug
<1>2. CASE Start
  <2>1. ticks' \in 0 .. CheckEvery - 1 /\ count' \in 0 .. MaxDevices
    BY <1>2 DEF Start
  <2> QED BY <1>2, <2>1, ZenonT(30) DEF Start
<1>3. CASE Stop BY <1>3 DEF Stop
<1>4. CASE Join
  <2>1. devices' \in 0 .. MaxDevices /\ frames' \in 0 .. MaxDevices
          /\ count' \in 0 .. MaxDevices
    BY <1>4 DEF Join
  <2> QED BY <1>4, <2>1, Zenon DEF Join
<1>5. CASE ConnectWorks
  <2>1. attempt' \in 0 .. Retries
    BY <1>5 DEF ConnectWorks
  <2> QED BY <1>5, <2>1, Zenon DEF ConnectWorks
<1>6. CASE ConnectFails BY <1>6, Zenon DEF ConnectFails, RecordError
<1>7. CASE ListArrives
  <2>1. attempt' \in 0 .. Retries /\ devices' \in 0 .. MaxDevices
          /\ count' \in 0 .. MaxDevices
    <3>1. devices' = plugged /\ count' \in {count, plugged}
            /\ (attempt' = attempt \/ (attempt' = attempt + 1 /\ attempt < Retries))
      BY <1>7, Zenon DEF ListArrives
    <3> QED BY <3>1
  <2>2. error' \in BOOLEAN /\ connected' \in BOOLEAN
    BY <1>7, Zenon DEF ListArrives
  <2>3. pc' \in {"list", "reshape"}
    BY <1>7 DEF ListArrives
  <2>4. UNCHANGED <<serverVars, link, garbled, running, resume, ticks, frames>>
          /\ news' = FALSE /\ outdated' = FALSE
    BY <1>7, Zenon DEF ListArrives
  <2> QED BY <2>1, <2>2, <2>3, <2>4, Zenon
<1>8. CASE ListFails
  <2>1. link' \in {"none", "live", "dead"} /\ news' \in BOOLEAN
          /\ outdated' \in BOOLEAN /\ garbled' \in BOOLEAN
    BY <1>8 DEF ListFails, RequestFailed
  <2>2. devices' \in 0 .. MaxDevices
    BY <1>8 DEF ListFails
  <2>3. count' \in 0 .. MaxDevices
    BY <1>8 DEF ListFails
  <2> QED BY <1>8, <2>1, <2>2, <2>3, Zenon DEF ListFails, RecordError
<1>9. CASE Reshape BY <1>9 DEF Reshape
<1>10. CASE Turn BY <1>10 DEF Turn
<1>11. CASE TurnEnds BY <1>11 DEF TurnEnds
<1>12. CASE CheckOutOfDate BY <1>12 DEF CheckOutOfDate
<1>13. CASE CheckLost BY <1>13 DEF CheckLost, RecordError
<1>14. CASE CheckClosed BY <1>14 DEF CheckClosed
<1>15. CASE CheckUpToDate BY <1>15 DEF CheckUpToDate
<1>16. CASE CheckUnexpected BY <1>16 DEF CheckUnexpected
<1>17. CASE Paint BY <1>17 DEF Paint
<1>18. CASE Bottom BY <1>18 DEF Bottom
<1>19. CASE UNCHANGED vars BY <1>19
<1> QED
  BY <1>a, <1>b, <1>c, <1>2, <1>3, <1>4, <1>5, <1>6, <1>7, <1>8, <1>9, <1>10,
     <1>11, <1>12, <1>13, <1>14, <1>15, <1>16, <1>17, <1>18, <1>19
     DEF Next, Environment, Worker

HonestInv == SlotsMatchDevices /\ StatusIsHonest /\ EndedLetsGo

(* The slots, the status and the socket, by every step.                   *)
LEMMA HonestStep == WorkerInv /\ [Next]_vars => HonestInv'
<1> SUFFICES ASSUME WorkerInv, [Next]_vars PROVE HonestInv'
  OBVIOUS
<1> USE WorkerAssumption
    DEF WorkerInv, HonestInv, TypeOK, SlotsMatchDevices, StatusIsHonest,
        EndedLetsGo, vars, serverVars, clientVars, placeVars, listVars,
        statusVars
<1>1. CASE Environment
  BY <1>1 DEF Environment, Lose, ComeUp, Plug
<1>2. CASE Start BY <1>2 DEF Start
<1>3. CASE Stop BY <1>3 DEF Stop
<1>4. CASE Join BY <1>4 DEF Join
<1>5. CASE ConnectWorks BY <1>5 DEF ConnectWorks, Connecting
<1>6. CASE ConnectFails BY <1>6 DEF ConnectFails, Connecting, RecordError
<1>7. CASE ListArrives BY <1>7 DEF ListArrives
<1>8. CASE ListFails BY <1>8 DEF ListFails, RequestFailed, RecordError
<1>9. CASE Reshape BY <1>9 DEF Reshape
<1>10. CASE Turn BY <1>10 DEF Turn
<1>11. CASE TurnEnds BY <1>11 DEF TurnEnds
<1>12. CASE CheckOutOfDate BY <1>12 DEF CheckOutOfDate, Looks
<1>13. CASE CheckLost BY <1>13 DEF CheckLost, Looks, RecordError
<1>14. CASE CheckClosed BY <1>14 DEF CheckClosed, Looks
<1>15. CASE CheckUpToDate BY <1>15 DEF CheckUpToDate, Looks
<1>16. CASE CheckUnexpected BY <1>16 DEF CheckUnexpected
<1>17. CASE Paint BY <1>17 DEF Paint
<1>18. CASE Bottom BY <1>18 DEF Bottom
<1>19. CASE UNCHANGED vars BY <1>19
<1> QED
  BY <1>1, <1>2, <1>3, <1>4, <1>5, <1>6, <1>7, <1>8, <1>9, <1>10, <1>11, <1>12,
     <1>13, <1>14, <1>15, <1>16, <1>17, <1>18, <1>19 DEF Next, Worker

(* For any list sizes, check interval and retries, and whatever the       *)
(* server does, the worker of openrgb_consumer.cpp never paints a device  *)
(* without a slot in dev_frames, and its status is honest.                *)
THEOREM WorkerInvariant == Spec => []WorkerInv
<1>1. WorkerInv /\ [Next]_vars => WorkerInv'
  BY TypeStep, HonestStep DEF WorkerInv, HonestInv
<1> QED BY InitWorkerInv, <1>1, PTL DEF Spec
===============================================================================
