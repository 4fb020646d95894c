SPECIFICATION Spec
CONSTANTS
    Robots <- SomeRobots
    Unparsable = unparsable
    FixedFrame = "odom"
    Readers = {r1, r2}
    Walker = walker
    NoThread = nothread
    None = none
    MaxMessages = 3
INVARIANTS
    TypeOK
    WholeList
    UnsupportedJointEndsProcess
PROPERTIES
    ReadsAreWhole
    CallbackEnds
\* A crash ends the process, and no message need come.
CHECK_DEADLOCK FALSE
