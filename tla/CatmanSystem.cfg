SPECIFICATION FairSpec
CONSTANTS
  MaxInflight = 3
  MaxEntries = 6
INVARIANTS
  Conservation
  WindowBounded
  AssertDecr
  ServerExitZero
PROPERTIES
  ImplementsBatch
  CatmanEnds
  MandocdFollows
