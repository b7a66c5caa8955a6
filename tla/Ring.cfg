SPECIFICATION Spec
CONSTANTS
  Capacity = 3
  QueueCapacity = 3
  MaxPush = 7
INVARIANTS
  RingInv
PROPERTIES
  ImplementsChannel
  AnalysisAdvances
  AcceptedFramesAreTaken
  BackPressureEnds
CHECK_DEADLOCK FALSE
