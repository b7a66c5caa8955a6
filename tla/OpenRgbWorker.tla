----------------------------- MODULE OpenRgbWorker -----------------------------
(***************************************************************************)
(* The worker of OpenRgbConsumer (src/output/openrgb_consumer.cpp) against *)
(* an OpenRGB server that comes and goes: connecting, fetching the device  *)
(* list, painting the devices tick by tick, and the check for hot-plugged  *)
(* devices every CheckEvery ticks, which is also what notices that the     *)
(* connection is lost.                                                     *)
(*                                                                         *)
(* A list of devices is told apart by how many there are.  The client is   *)
(* orgb::Client, vendored under third_party: what matters of it is         *)
(* whether its socket is open, whether the server still holds the other    *)
(* end, and what waits unread in between.                                  *)
(***************************************************************************)
EXTENDS Naturals

CONSTANTS
  MaxDevices,   (* bound: devices the server may have                      *)
  CheckEvery,   (* rate_hz * 2: ticks between two checks                   *)
  Retries       (* kRetries: requests of a list that comes back empty      *)

ASSUME WorkerAssumption ==
  /\ MaxDevices \in Nat \ {0}
  /\ CheckEvery \in Nat \ {0}
  /\ Retries \in Nat \ {0}

VARIABLES
  up,            (* the server accepts connections                         *)
  plugged,       (* the devices it has                                     *)
  link,          (* client's socket: "none", "live", or "dead" when the    *)
                 (* server gave it up and the client does not know         *)
  news,          (* a DeviceListUpdated message waits in the socket        *)
  outdated,      (* the client's _isDeviceListOutOfDate                    *)
  garbled,       (* what waits in the socket belongs to an answer that     *)
                 (* came too late                                          *)
  running,       (* running_                                               *)
  pc,            (* where the worker is; "off": no thread                  *)
  resume,        (* where it goes on after refreshing the devices          *)
  attempt,       (* requests of the list made in this refresh              *)
  ticks,         (* ticks_since_update_check                               *)
  devices,       (* devices_result.devices                                 *)
  frames,        (* dev_frames                                             *)
  connected,     (* connected_                                             *)
  error,         (* last_error_ is not empty                               *)
  count          (* device_count_                                          *)

serverVars == <<up, plugged>>
clientVars == <<link, news, outdated, garbled>>
placeVars == <<running, pc, resume, attempt, ticks>>
listVars == <<devices, frames>>
statusVars == <<connected, error, count>>
vars == <<serverVars, clientVars, placeVars, listVars, statusVars>>

Init ==
  /\ up \in BOOLEAN
  /\ plugged \in 0 .. MaxDevices
  /\ link = "none"
  /\ news = FALSE /\ outdated = TRUE /\ garbled = FALSE
  /\ running = FALSE
  /\ pc = "off"
  /\ resume = "loop"
  /\ attempt = 0
  /\ ticks = 0
  /\ devices = 0 /\ frames = 0
  /\ connected = FALSE /\ error = FALSE /\ count = 0

-------------------------------------------------------------------------------
(* The server, and the network.                                           *)

(* Whatever ends a connection: the server stops, restarts, or resets it.  *)
Lose ==
  /\ link = "live" \/ up
  /\ up' \in BOOLEAN
  /\ link' = IF link = "live" THEN "dead" ELSE link
  /\ UNCHANGED <<plugged, news, outdated, garbled, placeVars, listVars,
                 statusVars>>

ComeUp ==
  /\ ~up
  /\ up' = TRUE
  /\ UNCHANGED <<plugged, clientVars, placeVars, listVars, statusVars>>

(* Devices come or go, and the server tells who is connected.             *)
Plug(n) ==
  /\ n # plugged
  /\ plugged' = n
  /\ news' = (news \/ link = "live")
  /\ UNCHANGED <<up, link, outdated, garbled, placeVars, listVars, statusVars>>

-------------------------------------------------------------------------------
(* start() and stop(), on the render thread.                              *)

Start ==
  /\ pc = "off"
  /\ pc' = "connect"
  /\ running' = TRUE
  /\ ticks' = 0
  /\ connected' = FALSE /\ error' = FALSE /\ count' = 0
  /\ UNCHANGED <<serverVars, clientVars, resume, attempt, listVars>>

(* running_.store(false); the join is waiting until pc is "ended".        *)
Stop ==
  /\ running
  /\ running' = FALSE
  /\ UNCHANGED <<serverVars, clientVars, pc, resume, attempt, ticks, listVars,
                 statusVars>>

(* The worker is joined; its locals, the client among them, are gone.     *)
Join ==
  /\ pc = "ended"
  /\ ~running
  /\ pc' = "off"
  /\ devices' = 0 /\ frames' = 0
  /\ connected' = FALSE /\ count' = 0
  /\ UNCHANGED <<serverVars, clientVars, running, resume, attempt, ticks, error>>

-------------------------------------------------------------------------------
(* connect and the device list.                                           *)

RecordError == error' = TRUE /\ connected' = FALSE

(* The three places try_connect() is called from.                         *)
Connecting ==
  \/ pc = "connect"
  \/ pc = "reconnect"
  \/ pc = "bottom" /\ link = "none"

(* try_connect() works: a fresh socket; the devices are fetched next.     *)
ConnectWorks ==
  /\ Connecting
  /\ up
  /\ link' = "live"
  /\ news' = FALSE /\ outdated' = TRUE /\ garbled' = FALSE
  /\ connected' = TRUE /\ error' = FALSE
  /\ pc' = "list"
  /\ attempt' = 1
  /\ resume' = IF pc = "reconnect" THEN "paint" ELSE "loop"
  /\ UNCHANGED <<serverVars, running, ticks, listVars, count>>

(* It fails: at first the worker asks to be disarmed and ends; in its loop*)
(* it goes on to the next tick, without a frame in the case of the check. *)
ConnectFails ==
  /\ Connecting
  /\ RecordError
  /\ IF pc = "connect"
     THEN pc' = "ended" /\ running' = FALSE
     ELSE pc' = "loop" /\ UNCHANGED running
  /\ UNCHANGED <<serverVars, clientVars, resume, attempt, ticks, listVars, count>>

(* requestDeviceList() answered.  An empty list is asked for again, and   *)
(* recorded at last; a count that differs and a device that refuses its   *)
(* custom mode are recorded too.                                          *)
ListArrives ==
  /\ pc = "list"
  /\ link = "live"
  /\ news' = FALSE /\ outdated' = FALSE
  /\ devices' = plugged
  /\ IF plugged = 0 /\ attempt < Retries
     THEN /\ attempt' = attempt + 1
          /\ UNCHANGED <<pc, statusVars>>
     ELSE /\ pc' = "reshape"
          /\ count' = plugged
          /\ error' \in (IF plugged = 0 THEN {TRUE} ELSE {error, TRUE})
          /\ UNCHANGED <<attempt, connected>>
  /\ UNCHANGED <<serverVars, link, garbled, running, resume, ticks, frames>>

(* What a failed request leaves of the client: nothing changes without a  *)
(* socket; a dead one is closed if the end of the stream is read; on a    *)
(* live one the answer is late, and news may have been seen meanwhile.    *)
RequestFailed ==
  \/ link = "none" /\ UNCHANGED clientVars
  \/ /\ link = "dead"
     /\ link' \in {"dead", "none"}
     /\ outdated' = FALSE
     /\ news' = (news /\ link' = "dead")
     /\ UNCHANGED garbled
  \/ /\ link = "live"
     /\ garbled' \in {garbled, TRUE}
     /\ \/ outdated' = news /\ news' = FALSE
        \/ outdated' = FALSE /\ UNCHANGED news
     /\ UNCHANGED link

(* requestDeviceList() failed: recorded; what is left of the list is the  *)
(* devices described before the failure.  refresh_devices() gives up.     *)
ListFails ==
  /\ pc = "list"
  /\ RequestFailed
  /\ devices' \in (IF link = "live" THEN 0 .. plugged ELSE {0})
  /\ RecordError
  /\ count' = 0
  /\ pc' = "reshape"
  /\ UNCHANGED <<serverVars, running, resume, attempt, ticks, frames>>

(* A mutant of Reshape: the working storage is made once, at the start.   *)
ReshapeOnce ==
  /\ pc = "reshape"
  /\ frames' = IF ticks = 0 /\ resume = "loop" THEN devices ELSE frames
  /\ pc' = resume
  /\ UNCHANGED <<serverVars, clientVars, running, resume, attempt, ticks,
                 devices, statusVars>>

(* resize_dev_frames() follows every refresh.                             *)
Reshape ==
  /\ pc = "reshape"
  /\ frames' = devices
  /\ pc' = resume
  /\ UNCHANGED <<serverVars, clientVars, running, resume, attempt, ticks,
                 devices, statusVars>>

-------------------------------------------------------------------------------
(* One turn of the loop.                                                  *)

(* The sleep until the tick; the check is due or not yet.                 *)
Turn ==
  /\ pc = "loop"
  /\ running
  /\ IF ticks + 1 >= CheckEvery
     THEN ticks' = 0 /\ pc' = "check"
     ELSE ticks' = ticks + 1 /\ pc' = "paint"
  /\ UNCHANGED <<serverVars, clientVars, running, resume, attempt, listVars,
                 statusVars>>

(* A mutant of TurnEnds: the worker lets go only of a working connection. *)
TurnEndsConnected ==
  /\ pc = "loop"
  /\ ~running
  /\ link = "live"
  /\ pc' = "ended"
  /\ link' = "none"
  /\ news' = FALSE
  /\ UNCHANGED <<serverVars, outdated, garbled, running, resume, attempt, ticks,
                 listVars, statusVars>>

TurnEnds ==
  /\ pc = "loop"
  /\ ~running
  /\ pc' = "ended"
  /\ link' = "none"
  /\ news' = FALSE
  /\ UNCHANGED <<serverVars, outdated, garbled, running, resume, attempt, ticks,
                 listVars, statusVars>>

(* checkForDeviceUpdates() looks into the socket unless the client knows  *)
(* that its list is out of date; without a socket it fails at once.       *)
Looks == pc = "check" /\ ~outdated /\ (garbled => link = "none")

(* A mutant of CheckOutOfDate: the news is noted, the list not fetched.   *)
CheckOutOfDateOnly ==
  /\ pc = "check"
  /\ outdated \/ (Looks /\ link # "none" /\ news)
  /\ outdated' = TRUE
  /\ news' = (news /\ outdated)
  /\ pc' = "paint"
  /\ UNCHANGED <<serverVars, link, garbled, running, resume, attempt, ticks,
                 listVars, statusVars>>

(* OutOfDate: refresh.                                                    *)
CheckOutOfDate ==
  /\ pc = "check"
  /\ outdated \/ (Looks /\ link # "none" /\ news)
  /\ outdated' = TRUE
  /\ news' = (news /\ outdated)
  /\ pc' = "list"
  /\ attempt' = 1
  /\ resume' = "paint"
  /\ UNCHANGED <<serverVars, link, garbled, running, ticks, listVars, statusVars>>

(* A mutant of CheckLost: the status is not handled.                      *)
CheckLostIgnored ==
  /\ Looks
  /\ link # "live"
  /\ pc' = "paint"
  /\ UNCHANGED <<serverVars, clientVars, running, resume, attempt, ticks,
                 listVars, statusVars>>

(* OtherSystemError, of a connection that was reset or of no socket at    *)
(* all: "server connection lost; will retry", disconnect, reconnect.  A   *)
(* reset discards what was not read.                                      *)
CheckLost ==
  /\ Looks
  /\ link # "live"
  /\ RecordError
  /\ link' = "none"
  /\ news' = FALSE
  /\ pc' = "reconnect"
  /\ UNCHANGED <<serverVars, outdated, garbled, running, resume, attempt,
                 ticks, listVars, count>>

(* The end of the stream: the socket closes itself, so that making it     *)
(* block again fails, and the client returns CantRestoreSocket, which the *)
(* worker does not handle: it goes on to paint.                           *)
CheckClosed ==
  /\ Looks
  /\ link = "dead" /\ ~news
  /\ link' = "none"
  /\ pc' = "paint"
  /\ UNCHANGED <<serverVars, news, outdated, garbled, running, resume, attempt,
                 ticks, listVars, statusVars>>

CheckUpToDate ==
  /\ Looks
  /\ link = "live" /\ ~news
  /\ pc' = "paint"
  /\ UNCHANGED <<serverVars, clientVars, running, resume, attempt, ticks,
                 listVars, statusVars>>

(* UnexpectedMessage, not handled either: a header's length of the late   *)
(* answer is eaten, and what follows may be read out of step.  The checks *)
(* that eat all of it are one here.                                       *)
CheckUnexpected ==
  /\ pc = "check" /\ ~outdated /\ garbled /\ link # "none"
  /\ garbled' = FALSE
  /\ news' \in {news, FALSE}
  /\ pc' = "paint"
  /\ UNCHANGED <<serverVars, link, outdated, running, resume, attempt, ticks,
                 listVars, statusVars>>

(* Every device of the list is painted from its slot of dev_frames; a     *)
(* tick in which nothing failed clears the error of a connected worker.   *)
Paint ==
  /\ pc = "paint"
  /\ \E failed \in BOOLEAN :
       /\ failed => devices > 0
       /\ ~failed => link # "none" \/ devices = 0
       /\ error' = (error /\ ~(connected /\ ~failed))
  /\ pc' = "bottom"
  /\ UNCHANGED <<serverVars, clientVars, running, resume, attempt, ticks,
                 listVars, connected, count>>

(* The socket is open: next turn.                                         *)
Bottom ==
  /\ pc = "bottom"
  /\ link # "none"
  /\ pc' = "loop"
  /\ UNCHANGED <<serverVars, clientVars, running, resume, attempt, ticks,
                 listVars, statusVars>>

-------------------------------------------------------------------------------
Environment == Lose \/ ComeUp \/ (\E n \in 0 .. MaxDevices : Plug(n))

Worker ==
  \/ ConnectWorks \/ ConnectFails \/ ListArrives \/ ListFails \/ Reshape
  \/ Turn \/ TurnEnds
  \/ CheckOutOfDate \/ CheckLost \/ CheckClosed \/ CheckUpToDate
  \/ CheckUnexpected
  \/ Paint \/ Bottom

Next == Environment \/ Start \/ Stop \/ Join \/ Worker

(* The worker's calls return (its socket has a timeout); neither connects *)
(* nor requests fail for ever when they are tried again and again.        *)
Fairness ==
  /\ WF_vars(Worker)
  /\ SF_vars(ConnectWorks)
  /\ SF_vars(ListArrives)

Spec == Init /\ [][Next]_vars /\ Fairness

-------------------------------------------------------------------------------
(* The variables hold what the code can store in them.                    *)
TypeOK ==
  /\ up \in BOOLEAN
  /\ plugged \in 0 .. MaxDevices
  /\ link \in {"none", "live", "dead"}
  /\ news \in BOOLEAN /\ outdated \in BOOLEAN /\ garbled \in BOOLEAN
  /\ running \in BOOLEAN
  /\ pc \in {"off", "connect", "reconnect", "list", "reshape", "loop", "check",
             "paint", "bottom", "ended"}
  /\ resume \in {"loop", "paint"}
  /\ attempt \in 0 .. Retries
  /\ ticks \in 0 .. CheckEvery - 1
  /\ devices \in 0 .. MaxDevices
  /\ frames \in 0 .. MaxDevices
  /\ connected \in BOOLEAN
  /\ error \in BOOLEAN
  /\ count \in 0 .. MaxDevices

(* The places of a turn, where the devices are not being fetched.         *)
Turning == {"loop", "check", "reconnect", "paint", "bottom"}

(* "parallel to devices_result.devices": wherever the worker goes from    *)
(* refresh to refresh, each device it paints has a slot in dev_frames,    *)
(* which is indexed without a check.                                      *)
SlotsMatchDevices ==
  pc \in Turning => frames = devices

(* The status line does not claim a connection when the socket is gone,   *)
(* but for the ticks in which the loss is being found out; it tells an    *)
(* error whenever there is none, and counts the devices it paints or none.*)
StatusIsHonest ==
  /\ connected /\ pc \in {"loop", "check", "list"} => link # "none"
  /\ connected /\ pc = "reshape" => link # "none"
  /\ ~connected /\ pc \in Turning \cup {"list", "reshape"} => error
  /\ pc \in Turning \cup {"reshape"} => count \in {0, devices}

(* A worker that has ended holds no socket.                               *)
EndedLetsGo == pc \in {"off", "connect", "reconnect", "ended"} => link = "none"

WorkerInv ==
  /\ TypeOK
  /\ SlotsMatchDevices
  /\ StatusIsHonest
  /\ EndedLetsGo

(* "Connection loss is recoverable" (ADR-0012): with the server there to  *)
(* stay, a worker that is not told to stop gets a working connection,     *)
(* however the old one was lost and whatever it was doing then.           *)
Reconnects ==
  <>[]up => (running /\ link = "dead" ~> link = "live" \/ ~running)

(* "New devices added or removed while Listeningway is running are picked *)
(* up within a couple of seconds" (docs/openrgb.md): when the server tells *)
(* of a change the list is requested again, unless a late answer in the   *)
(* socket hides the message.                                              *)
HotPlugIsSeen ==
  running /\ link = "live" /\ news
    ~> pc = "list" \/ garbled \/ link # "live" \/ ~running

(* stop() returns: the worker ends whatever it was doing.                 *)
StopReturns == pc # "off" /\ ~running ~> pc \in {"off", "ended"}
===============================================================================
