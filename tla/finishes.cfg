SPECIFICATION FairSpec

CONSTANTS
    w1 = w1
    NoToken = NoToken
    Workers = {w1}
    Types = {"autofill", "execution"}
    Callers = {"reconcile"}
    Ages = TRUE
    MaxRetries = 1
    MaxWaits = 1
    MaxAttempts = 4
    MaxTasks = 1
    MaxFaults = 1

PROPERTY Finishes

CHECK_DEADLOCK FALSE
