SPECIFICATION Spec
CONSTANTS
    NoNamespace = NoNamespace
    Advertised <- RosGraph
    Clouds <- SomeClouds
    Word = 16
    MaxMessages = 2
CHECK_DEADLOCK FALSE
INVARIANTS
    TypeOK
    EntityTree
    CloudIsWhole
    TypeNamesAgree
PROPERTIES
    OwnEntities
