CONSTANTS
    Writers = {w1, w2}
    Values <- MCValues
    NoPages <- NoDatabase
    Ids = {f1, f2, f3, f4}
    None = none
    PathOrder <- MCPathOrder
    Attr <- MCAttr
    Doc <- MCDoc
    Keys <- MCKeys
    Installable <- MCInstallable
    FirstTrees <- MCOneTree
    MaxRuns = 2
    MaxChanges = 0
    ArgLists <- MCArgLists
    QueryTerms <- MCQueryTerms
    Sections <- MCSections
SYMMETRY Symmetry
SPECIFICATION Spec
INVARIANT WholeDatabase
CHECK_DEADLOCK FALSE
