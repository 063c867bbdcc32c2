CONSTANTS
    a = a
    b = b
    h = h
    x = x
    y = y
    NoId = NoId
    Devices = {a, b, h}
    Props = {x, y}
    Connected <- TwoClients
    Scenarios <- PlainOrBusy
    NumIds = 256
    MaxRequests = 3
SPECIFICATION FairSpec
CHECK_DEADLOCK FALSE
INVARIANTS
    TypeOK
    SubscribedIsServed
    Agreement
    UnsubscribedIsRemoved
PROPERTY
    Settles
