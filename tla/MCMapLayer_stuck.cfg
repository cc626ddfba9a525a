SPECIFICATION Spec
CONSTANTS
  GenModulus = 4
  LingerMax = 1
  MaxVisits = 1
  MaxJobs = 0
  MaxSlack = 1
  FirstFs = 0
CHECK_DEADLOCK FALSE
PROPERTY DrawReturns
