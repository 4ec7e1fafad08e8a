SPECIFICATION Spec
CONSTANTS
    a = a
    b = b
    c = c
    s0 = s0
    s1 = s1
    s2 = s2
    Main = Main
    MainSched = s0
    Procs <- ThreeProcs
    Scheds <- ThreeScheds
    Home <- SpreadThree
    Bound <- BoundTwoB
    Policy <- NeverThree
    Supervisor <- OneSupervisorThree
    MaxRestarts = 1
    Knows <- KnowsRing
    Calls <- CallsBoth
    MaxMade = 5
INVARIANTS
    BacklogBounded
    SendsInOrder
    NoRingAcross
    NoLostWake
CHECK_DEADLOCK FALSE
