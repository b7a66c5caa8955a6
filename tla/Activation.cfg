SPECIFICATION Spec
CONSTANTS
  MaxActivations = 3
  Handles = {h1, h2}
  NoHandle = noHandle
INVARIANTS
  HandlersLive
  NoClientLostInTime
  
PROPERTIES
  FirstEarlyTimedOut
  CallsReturn
CHECK_DEADLOCK FALSE
