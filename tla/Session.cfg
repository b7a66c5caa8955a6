SPECIFICATION Spec
CONSTANT
  MaxChoices = 3
INVARIANT SessionInv
PROPERTIES
  BootEnds
  UnloadEnds
