SPECIFICATION Safe
CONSTANTS
  GenModulus = 4
  LingerMax = 1
  MaxVisits = 1
  MaxJobs = 2
  MaxSlack = 1
  FirstFs = 0
CHECK_DEADLOCK FALSE
INVARIANT NoDrawDuringCopy
