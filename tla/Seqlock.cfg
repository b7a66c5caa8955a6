SPECIFICATION Spec
CONSTANTS
  Readers <- MCReaders
  Words <- MCWords
  MaxSpin = 2
  MaxPublish = 2
INVARIANTS
  SeqlockInv
PROPERTIES
  ImplementsRegister
  ReadReturns
CHECK_DEADLOCK FALSE
