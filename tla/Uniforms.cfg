SPECIFICATION PublisherSpec
CONSTANTS
  VolumeFrames = 4
  BandFrames = 3
  MaxBands = 3
  BandCounts = {2, 3}
  MaxFrames = 6
INVARIANTS
  PublisherInv
