\* Peers' messages interleaved with each other and with two echoes.
CONSTANTS
    Transmissions = {1, 2, 3, 4, 5}
    Content <- MixedContent
    Length <- MixedLength
    Ci = {1, 3, 4, 5}
    Own = {3, 4, 5}
    Streams = {"physical", "virtual"}
    Route <- MixedRoute
    Radix = 6
    Limit = 2
SPECIFICATION Spec
INVARIANTS TypeOK HandedIsWhole WholeIsHanded
CHECK_DEADLOCK FALSE
