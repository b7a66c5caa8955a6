SPECIFICATION Spec
CONSTANTS
  N = 2
  TestsWhenOff = {2}
INVARIANT RegistryInv
PROPERTIES
  ImplementsSwitchboard
  FailureDisarms
  CallsReturn
