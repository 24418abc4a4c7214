SPECIFICATION Spec
CONSTANTS
  Macros = {"x"}
  Menus <- RecursionMenus
  MaxTrue = 1
  ReparseLimit = 2
  SoLimit = 1
  MparseSo = TRUE
INVARIANT RecursionLimited
