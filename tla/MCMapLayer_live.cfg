SPECIFICATION Spec
CONSTANTS
  GenModulus = 4
  LingerMax = 1
  MaxVisits = 2
  MaxJobs = 1
  MaxSlack = 1
  FirstFs = 0
CHECK_DEADLOCK FALSE
PROPERTIES
  MapAppears
  LayerGoes
  LzReturns
  PaletteCatchesUp
