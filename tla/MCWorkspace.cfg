SPECIFICATION Spec
CONSTANTS
    e1 = e1
    e2 = e2
    None = None
    Execs <- TwoRuns
    Readonly <- OneVerify
    ReapAttempts = 2
INVARIANTS
    TypeOK
    StartedIsWatched
    UnitsHaveFiles
    ProofIsFinal
    RunsOnItsMounts
    VerdictIsEarned
    ConfirmedIsClean
    OnlyTheseBlock
CHECK_DEADLOCK FALSE
VIEW StillRead
