CONSTANTS
    ConfigChunk = 3
    ConfigSysex = 5
    RemoteLimits = {2, 4}
SPECIFICATION Spec
INVARIANTS
    NoOtherCircle
    SizesComeBack
CHECK_DEADLOCK FALSE
