CONSTANTS
    dev1 = dev1
    dev2 = dev2
    m1 = m1
    m2 = m2
    NoDevice = NoDevice
    NoList = NoList
    NoMap = NoMap
    NoValue = NoValue
    NoMessage = NoMessage
    Devices = {dev1, dev2}
    ListsOf <- MCListsOf
    Values = {0, 1}
    Moves <- MCMoves
    NoteMessages <- MCNotes
    Budgets <- MCBudgets
    Offsets = {0, 13}
    NumOctaves = 4
SPECIFICATION FairSpec
INVARIANTS
    ReceivedIsShown
PROPERTIES
    MapIsServed
    NotesEnd
