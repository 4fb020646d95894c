SPECIFICATION Spec
CONSTANTS
    camera = camera
    description = description
    image = image
    string = string
    Topics = {camera, description}
    Types = {image, string}
    Supported <- FactoryPairs
    Addresses = {a1, a2}
    Threads = {updater, timer}
    NoThread = NoThread
SYMMETRY ThreadSymmetry
INVARIANTS
    TypeOK
    WholeUpdate
    OneConverterPerType
    TimerVisitsLive
PROPERTIES
    KeptWhileAdvertised
