SPECIFICATION Spec

CONSTANTS
    w1 = w1
    w2 = w2
    NoToken = NoToken
    Workers = {w1, w2}
    Types = {"autofill", "report"}
    Callers = {"cancel", "feedback"}
    Ages = FALSE
    MaxRetries = 1
    MaxWaits = 0
    MaxAttempts = 3
    MaxTasks = 2
    MaxFaults = 1

INVARIANT TypeOK
INVARIANT Arbitration
PROPERTY LifecycleSpec

SYMMETRY Interchangeable

CHECK_DEADLOCK FALSE
