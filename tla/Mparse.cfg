SPECIFICATION FairSpec
CONSTANTS
  Macros = {"x"}
  Menus <- MCMenus
  MaxTrue = 2
  ReparseLimit = 2
  SoLimit = 1
  MparseSo = FALSE
INVARIANTS
  LoopLive
  SpanDiscipline
  UserretSafe
  StackBounded
PROPERTY ParseEnds
