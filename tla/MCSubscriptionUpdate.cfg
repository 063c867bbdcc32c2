CONSTANTS
    a = a
    b = b
    h = h
    x = x
    y = y
    NoId = NoId
    Devices = {a, h}
    Props = {x}
    Connected <- OneClient
    Scenarios <- Setting
    NumIds = 256
    MaxRequests = 2
SPECIFICATION Spec
CHECK_DEADLOCK FALSE
INVARIANT UpdatesAccepted
