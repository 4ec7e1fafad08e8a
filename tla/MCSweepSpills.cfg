SPECIFICATION Spec
CONSTANTS
    Ids = {i, j}
    Main = Main
    NoAsk = NoAsk
    MainCalls = {"start"}
    OtherCalls = {}
    MaxStarts = 3
    MaxMade = 2
SYMMETRY AnyIds
INVARIANTS
    AllAreLive
CHECK_DEADLOCK FALSE
