SPECIFICATION SpecM68kOnly
CONSTANTS
  Word <- MCWord
  DivQ <- MCDivQ
  DivR <- MCDivR
  LzLength <- MCLzLength
  Dividends = {6, 7}
  Divisors = {2, 3}
  Sources = {5}
  FbOffset = 4
  Cleared = 0
  Blank = Blank
  NoRequest = NoRequest
  NoAnswer = NoAnswer
  PollBudget = 2
  MaxCalls = 3
  CountModulus = 4
  SlowSH2 = TRUE
CHECK_DEADLOCK FALSE
INVARIANT UntaintedCallIsRight
INVARIANT OperandsHeld
PROPERTY CallReturns
PROPERTY CommandServed
