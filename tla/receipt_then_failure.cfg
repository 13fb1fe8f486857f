SPECIFICATION Spec

CONSTANTS
    w1 = w1
    NoToken = NoToken
    Workers = {w1}
    Types = {"autofill", "report"}
    Callers = {"cancel"}
    Ages = FALSE
    MaxRetries = 1
    MaxWaits = 0
    MaxAttempts = 3
    MaxTasks = 2
    MaxFaults = 1

INVARIANT ReceiptSucceeds

CHECK_DEADLOCK FALSE
