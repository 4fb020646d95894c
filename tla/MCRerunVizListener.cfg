SPECIFICATION Spec
CONSTANTS
    cloud = cloud
    text = text
    image = image
    points = points
    string = string
    Topics = {cloud, text}
    Types = {image, points, string}
    Supported <- SupportedPairs
    Throwing = {points}
    Addresses = {a1, a2}
    Workers = {w1}
    Updater = updater
    NoThread = NoThread
    NoConverter = NoConverter
    RosGraphs <- FewGraphs
    MaxChanges = 2
    MaxFailures = 1
INVARIANT ListenerHasBuffer
