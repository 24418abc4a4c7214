SPECIFICATION Spec
CONSTANTS
  Macros = {"x"}
  Menus <- StringMenus
  MaxTrue = 1
  ReparseLimit = 2
  SoLimit = 1
  MparseSo = TRUE
INVARIANT AssertsHold
