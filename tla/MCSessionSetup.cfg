CONSTANTS
    alice = alice
    bob = bob
    DeviceInfo = DeviceInfo
    AllCtrlList = AllCtrlList
    ProgramList = ProgramList
    ChannelList = ChannelList
    ResourceList = ResourceList
    Absent = Absent
    Empty = Empty
    Peers = {alice}
    Resources <- Properties
    Catalog <- Listed
    Failing = {ChannelList}
    Reporting = {alice}
    Wanted = {DeviceInfo, ChannelList}
    NumIds = 256
    FirstId = 0
    MaxDiscoveries = 2
    MaxGoodbyes = 1
    MaxGets = 2
SPECIFICATION FairSpec
CHECK_DEADLOCK FALSE
INVARIANTS
    TypeOK
    ModelFollows
    RepliesMatch
PROPERTIES
    AllLoaded
