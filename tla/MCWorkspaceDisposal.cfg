SPECIFICATION Spec
CONSTANTS
    e1 = e1
    e2 = e2
    None = None
    Execs <- OneRun
    Readonly <- NoVerify
    ReapAttempts = 2
INVARIANTS
    CompletedIsRecoverable
CHECK_DEADLOCK FALSE
VIEW StillRead
