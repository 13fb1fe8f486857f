SPECIFICATION FairSpec

CONSTANTS
    w1 = w1
    NoToken = NoToken
    Workers = {w1}
    Types = {"autofill", "report"}
    Callers = {"cancel"}
    Ages = FALSE
    MaxRetries = 1
    MaxWaits = 0
    MaxAttempts = 3
    MaxTasks = 2
    MaxFaults = 1

PROPERTY TombstoneIsDurable

CHECK_DEADLOCK FALSE
