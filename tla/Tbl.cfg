CONSTANT
    Kinds <- MCKinds
SPECIFICATION Spec
INVARIANTS CellsPlaced RowsWhole
CHECK_DEADLOCK FALSE
