SPECIFICATION Spec
CONSTANTS
  MinPeriod = 2
  MaxPeriod = 5
  InitialPeriod = 3
  FirstPrediction = 2
  Periods <- MCPeriods
  Nan = nan
  Missing = missing
  TempoUpdateHops = 2
  LockedHold = 2
  WarmSamples = 1
  Settings <- MCSettings
  MaxStreams = 2
  Leftover = 1
  MaxUpsets = 2
INVARIANTS
  
  BeatInv
  ResetForgets
  
  
  WarmEstimatesAreWhole
PROPERTY
  BeatsKeepApart
