CONSTANTS
    Values <- MCValues
    Numbers <- MCNumbers
    Channels <- MCChannels
    ProfileSets <- MCProfileSets
    Datas <- MCDatas
    RequestIds <- MCRequestIds
    OwnDetails <- MCOwnDetails
    InstanceId <- MCInstanceId
    HostProfiles <- MCHostProfiles
    MaxHeader = 6
    MaxBody = 14
    MaxChunk = 34
    ChunkSizes = {23, 40, 256}
    MaxText = 60
    MaxPayloads = 3
    FileTracks <- MCFileTracks
    TimedTracks <- MCTimedTracks
    JsonNumbers <- MCJsonNumbers
    MaxExact = 9999
    Digits = 3
    ContextGroup = 5
    Notes = {60}
    Controllers <- MCControllers
    ParameterNumbers <- MCParameterNumbers
    Contexts <- MCContexts
    Gatherings <- MCGatherings
    Others <- MCOthers
    Deltas <- MCDeltas
    MaxGatherings = 6
    MaxOthers = 1
SPECIFICATION Spec
INVARIANTS
    CutIntoPackets
    MessagesAreRead
    UmpsAreRead
    MusicIsKept
    JsonIsRead
    SameEffect
    LastIsFaithful
CHECK_DEADLOCK FALSE
