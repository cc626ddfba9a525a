SPECIFICATION Safe
CONSTANTS
  GenModulus = 4
  LingerMax = 1
  MaxVisits = 2
  MaxJobs = 2
  MaxSlack = 1
  FirstFs = 0
CHECK_DEADLOCK FALSE
INVARIANTS
  CopyIntact
  ShownIsDrawn
  DrawKeepsFm
PROPERTIES
  HandlerForcesH40
  ShownIsStill
