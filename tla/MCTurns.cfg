SPECIFICATION FairSpec
CONSTANTS
    s1 = s1
    Main = s0
    Nobody = Nobody
    Scheds <- TwoThreads
    MaxGiven = 2
    MaxSweeps = 2
INVARIANTS
    TypeOK
    NoLostPoke
    WorldIsStopped
    SettledIsQuiet
PROPERTIES
    WorkIsDone
    MainSettles
    RunEnds
CHECK_DEADLOCK FALSE
