SPECIFICATION FairSpec
CONSTANTS
    r1 = r1
    r2 = r2
    r3 = r3
    None = None
    Requests <- ThreeRequests
    MaxTurns = 2
INVARIANTS
    TypeOK
    RecordedFirst
    LabelIsTrue
PROPERTIES
    LateStaysOut
    SessionEnds
CHECK_DEADLOCK FALSE
