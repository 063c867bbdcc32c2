CONSTANTS
    piano = piano
    organ = organ
    Ids = {piano, organ}
    Addresses = {1, 2}
    Initial <- AtStart
    Gone = Gone
    MaxChanges = 3
    MaxConnections = 2
SPECIFICATION Spec
INVARIANTS
    TypeOK
    Agreement
    MirrorsFollow
CHECK_DEADLOCK FALSE
