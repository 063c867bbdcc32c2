CONSTANTS
    d = d
    e = e
    NoPort = NoPort
    InPorts <- Ins
    OutPorts <- Outs
    Behind <- MCBehind
    MaxPlugs = 2
SPECIFICATION Spec
INVARIANTS
    ShownIsCurrent
    PairIsServed
    DevicesAreShown
