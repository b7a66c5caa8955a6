SPECIFICATION Spec
CONSTANTS
  Capturing = {system, process}
  Notified = {system}
  OffSource = off
  Available = {system, process, off}
  Default = system
  Unknown = unknown
  NoSource = nullptr
  Zero = zero
  RingCapacity = 2
INVARIANT LifecycleInv
PROPERTY OperationsReturn
