SPECIFICATION FairSpec
CONSTANTS
    a = a
    b = b
    c = c
    s0 = s0
    s1 = s1
    s2 = s2
    Main = Main
    MainSched = s0
    Procs <- ThreeProcs
    Scheds <- TwoScheds
    Home <- ApartThree
    Bound <- BoundOne
    Policy <- NeverBThree
    Supervisor <- OneSupervisorThree
    MaxRestarts = 1
    Knows <- KnowsAll
    Calls <- CallsAll
    MaxMade = 2
PROPERTIES
    AsksReturn
    MailboxesDrain
CHECK_DEADLOCK FALSE
