CONSTANTS
  MaxNodes = 20
  Menus <- MCMenus
SPECIFICATION Spec
INVARIANTS
  NoFault
  OnlyLastClosed
  BlocksWhole
  PendingHasCloser
  NormalForm
