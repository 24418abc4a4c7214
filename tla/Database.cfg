CONSTANTS
    Writers = {w1}
    Values <- MCValues
    NoPages <- NoDatabase
    Ids = {f1, f2, f3}
    None = none
    PathOrder <- MCPathOrder
    Attr <- MCAttr
    Doc <- MCDoc
    Keys <- MCKeys
    Installable <- MCInstallable
    FirstTrees <- MCFirstTrees
    MaxRuns = 2
    MaxChanges = 1
    ArgLists <- MCArgLists
    QueryTerms <- MCQueryTerms
    Sections <- MCSections
SYMMETRY Symmetry
SPECIFICATION Spec
INVARIANTS
    WholeDatabase
    BuildExact
    DatabaseSound
    SearchExact
    ManFinds
CHECK_DEADLOCK FALSE
