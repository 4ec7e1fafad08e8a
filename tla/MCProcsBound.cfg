SPECIFICATION Spec
CONSTANTS
    a = a
    b = b
    c = c
    s0 = s0
    s1 = s1
    s2 = s2
    Main = Main
    MainSched = s0
    Procs <- TwoProcs
    Scheds <- TwoScheds
    Home <- ApartTwo
    Bound <- BoundOne
    Policy <- NeverB
    Supervisor <- OneSupervisorTwo
    MaxRestarts = 1
    Knows <- KnowsAll
    Calls <- CallsSends
    MaxMade = 3
INVARIANTS
    MailboxBounded
CHECK_DEADLOCK FALSE
