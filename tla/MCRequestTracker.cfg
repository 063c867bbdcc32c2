CONSTANTS
    AllCtrlList = AllCtrlList
    CtrlMapList = CtrlMapList
    State = State
    Keys = {AllCtrlList, CtrlMapList, State}
    Automatic <- MCAutomatic
    ResourceList = ResourceList
    NumIds = 4
    MaxAsks = 3
    MaxConnections = 2
    MaxUnderWay = 3
SPECIFICATION Spec
INVARIANTS
    OneUnderWay
    NothingIsLeft
CHECK_DEADLOCK FALSE
