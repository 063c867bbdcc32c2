CONSTANTS
    ResourceList = "ResourceList"
    SystemIds <- TheSystem
    UserIds = {"P", "L"}
    ResIds = {"", "x"}
    Codecs = {"Mcoded7", "zlib+Mcoded7"}
    Gets <- SomeGets
    Sets <- SomeSets
    Writes <- SomeWrites
    SystemBodies <- Infos
    AutoGets <- TheSystem
    Subscriptions <- Subscribers
    MaxRequests = 3
    MaxChanges = 2
SPECIFICATION Spec
CHECK_DEADLOCK FALSE
INVARIANTS
    WrittenIsRead
    NoticesAreStored
    MirrorFollows
