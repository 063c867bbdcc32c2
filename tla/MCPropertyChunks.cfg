CONSTANTS
    Transfers = {t1, t2, t3}
    Sources = {p}
    RequestIds = {1, 2}
    HeaderLens = {3}
    BodyLens = {0, 6}
    ChunkSizes = {26}
    NoHeader = NoHeader
    NoEntry = NoEntry
SPECIFICATION Spec
SYMMETRY Symmetry
CHECK_DEADLOCK FALSE
INVARIANTS
    TypeOK
    ExactDelivery
    ProgressHeader
    NoResidue
PROPERTY Refinement
