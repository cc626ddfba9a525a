SPECIFICATION KernelsSpec
CONSTANTS
  Lengths <- MCLengths
  OutMax = 8
  Headroom = 2
  Jobs = 3
  Slots = 2
  ObjectSlots = {2}
  Heights = {1}
  Blink = 2
  Animations <- MCAnimations
  BarPeriod = 2
  RowsWanted <- MCRows
  MaxRows = 5
  FramesWanted = {2}
  Calls = 3
  Controls <- MCControls
  Literals <- MCLiterals
  BitWords <- MCWords
  Limit = 420
  SrcMax = 16
  K = 3
INVARIANTS
  ParametersWhole
  TableWhole
  RegisterIsShadow
  RequestsServed
  Delivers
  DecoderRight
  DivisionRight
PROPERTIES
  CommandsReturn
  CodeSpec
CHECK_DEADLOCK FALSE
