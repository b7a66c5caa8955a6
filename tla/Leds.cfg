SPECIFICATION PaintSpec
CONSTANTS
  Full = 4
  HoldTime = 3
  Silence = silence
  NoLed = noLed
  Servers <- MCServers
  Snapshots <- MCSnapshots
  Patterns <- MCPatterns
  Dts = {1, 2}
INVARIANTS
  EachLedIsItsZones
  WaterfallShowsPast
  
PROPERTY
  PeakIsHeld
