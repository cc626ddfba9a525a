SPECIFICATION Safe
CONSTANTS
  Word <- MCWord
  DivQ <- MCDivQ
  DivR <- MCDivR
  LzLength <- MCLzLength
  Dividends = {6, 7}
  Divisors = {2, 3}
  Sources = {5}
  FbOffset = 4
  Cleared = 0
  Blank = Blank
  NoRequest = NoRequest
  NoAnswer = NoAnswer
  PollBudget = 2
  MaxCalls = 1
  CountModulus = 4
  SlowSH2 = TRUE
CHECK_DEADLOCK FALSE
INVARIANT RecoversOperandsItSent
