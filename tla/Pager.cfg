SPECIFICATION Spec
CONSTANTS
  MaxFiles = 2
  Names = {"tmp", "user"}
INVARIANTS TempFiles PagerHasFiles TerminalGivenBack
PROPERTIES StopTogether
CHECK_DEADLOCK FALSE
