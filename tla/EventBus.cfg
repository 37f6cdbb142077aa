SPECIFICATION FairSpec
CONSTANTS
    layer = layer
    editor = editor
    c1 = c1
    c2 = c2
    root = root
    ann = ann
    ben = ben
    kernel = kernel
    notes = notes
    shell = shell
    power = power
    file = file
    Producers = {layer, editor}
    Conns = {c1, c2}
    Uids = {root, ann, ben}
    Root = root
    Apps = {kernel, notes}
    Ids = {shell}
    Topics = {power, file}
    StateTopics = {power}
    All = All
    NoEvent = NoEvent
    producer <- Peers
    consumer <- Feeds
    UID_OBSERVERS = {kernel}
    PUBLISH_ORIGINATORS = {kernel}
    enforce_pubsub = FALSE
    CONSUMER_BUFFER = 1
    Early = {editor}
    Readers = {c1}
    MaxSent <- Bounds
INVARIANTS
    TypeOK
    UidIsolation
    NeverNeither
    ServedIsListed
PROPERTIES
    NothingStalls
    CutOffIsNoticed
CHECK_DEADLOCK FALSE
