SPECIFICATION CallerSpec
CONSTANTS
    Tokens = {base, link1, link2, link3}
    Arrow = arrow
    Frames <- OneTokenFrames
    Values = {v1, v2}
    MaxCopies = 2
SYMMETRY Symmetry
INVARIANTS
    TypeOK
    Acyclic
    WalkToRootEnds
    ParentListsChild
    TransformPerLink
    SearchDecidesReach
    CarefulReverseLookup
    CarefulPaths
PROPERTIES
    CarefulForest
