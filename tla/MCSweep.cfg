SPECIFICATION Spec
CONSTANTS
    Ids = {i, j}
    Main = Main
    NoAsk = NoAsk
    MainCalls = {"start", "send", "serve"}
    OtherCalls = {"start", "later", "ask", "answer", "defer"}
    MaxStarts = 3
    MaxMade = 2
SYMMETRY AnyIds
INVARIANTS
    TypeOK
    HandlesAreLive
    MessagesReachTheirs
    
PROPERTIES
    GarbageStays
CHECK_DEADLOCK FALSE
