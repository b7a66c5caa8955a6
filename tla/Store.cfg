SPECIFICATION StoreSpec
CONSTANTS
  Workers = {dsp, osc}
  MaxVersion = 4
INVARIANT StoreInv
PROPERTY EditsReachLoops
