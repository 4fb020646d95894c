SPECIFICATION FairSpec
CONSTANTS
    cloud = cloud
    text = text
    image = image
    points = points
    string = string
    Topics = {cloud, text}
    Types = {image, points, string}
    Supported <- SupportedPairs
    Throwing = {points}
    Addresses = {a1, a2}
    Workers = {w1, w2}
    Updater = updater
    NoThread = NoThread
    NoConverter = NoConverter
    RosGraphs <- AllGraphs
    MaxChanges = 2
    MaxFailures = 1
INVARIANTS
    TypeOK
    TimerAndCallbackExclude
    QuietAtExit
    BufferOutlivesUsers
PROPERTIES
    ImplementsNode
    EventuallySubscribed
    ShutdownEnds
