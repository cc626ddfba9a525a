SPECIFICATION ToolsSpec
CONSTANTS
  SharedLines = FALSE
  Layouts <- MCLayouts
  Base = 3424
  RomLo = 512
  RomHi = 1048576
  FormBatches = {"abs", "table"}
  MaxTranslations = 1
  Scripts <- MCScripts
  SaveAt <- MCSaveAt
  CutAt <- MCCutAt
  Cells <- MCCells
  Drawings <- MCDrawings
  PlaneA <- MCPlaneA
  SpriteTables <- MCSpriteTables
  LastFrame = 2
  Captures <- MCCaptures
INVARIANTS
  DecodesThe68000
  OperandsKept
  RegionsRight
  BytesKept
  CommentsRight
  PassesFinish
  InventoriesRight
  TranslationRight
  SavedWhereAsked
  OracleRight
CHECK_DEADLOCK FALSE
