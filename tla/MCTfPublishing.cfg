SPECIFICATION FairSpec
CONSTANTS
    Cameras = {"/camera/info", "/info"}
    Namespace <- CameraNamespace
    NoNamespace = noNamespace
    Robot = "/robot_description"
    RobotRequests <- RoverRequests
    CameraFrames = {"lens"}
    FixedFrame = "odom"
    Values = {v1, v2}
    NoTransform = noTransform
INVARIANTS
    TypeOK
    NullStreamUnused
    TickIsSound
PROPERTIES
    TickIsComplete
    KeepsBeingShown
