SPECIFICATION Spec
CONSTANTS
  Tokens = {"SH", "SS", "TP", "PP", "IP", "SY", "RS", "UR", "RE", "YS", "UE", "B", "BI", "PD", "EX", "EE", "nf", "fi", "sp", "ft", "ce", "EQ", "TS", "TE"}
  MaxDepth = 7
  MaxMargin = 1
  MaxCe = 1
INVARIANTS NoFault ScopeFlags Nested
CHECK_DEADLOCK FALSE
