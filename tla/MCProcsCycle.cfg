SPECIFICATION Spec
CONSTANTS
    a = a
    b = b
    c = c
    s0 = s0
    s1 = s1
    s2 = s2
    Main = Main
    MainSched = s0
    Procs <- TwoProcs
    Scheds <- OneSched
    Home <- TogetherTwo
    Bound <- BoundOne
    Policy <- AlwaysTwo
    Supervisor <- OneSupervisorTwo
    MaxRestarts = 1
    Knows <- KnowsAll
    Calls <- CallsAsks
    MaxMade = 4
INVARIANTS
    NoWaitCycle
CHECK_DEADLOCK FALSE
