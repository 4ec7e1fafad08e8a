SPECIFICATION Spec
CONSTANTS
    Ids = {i, j}
    Main = Main
    NoAsk = NoAsk
    MainCalls = {"line", "ask"}
    OtherCalls = {"start", "ask", "answer"}
    MaxStarts = 3
    MaxMade = 2
SYMMETRY AnyIds
INVARIANTS
    AnswersAreLive
CHECK_DEADLOCK FALSE
