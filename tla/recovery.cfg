SPECIFICATION Spec

CONSTANTS
    w1 = w1
    w2 = w2
    NoToken = NoToken
    Workers = {w1, w2}
    Types = {"autofill", "report", "file", "execution"}
    Callers = {"reconcile"}
    Ages = FALSE
    MaxRetries = 0
    MaxWaits = 0
    MaxAttempts = 3
    MaxTasks = 1
    MaxFaults = 1

INVARIANT TrackedWhileRequired
INVARIANT SucceededIsApplied
INVARIANT CompleteIsDelivered
INVARIANT Arbitration
PROPERTY TerminalIsFinal

SYMMETRY Interchangeable

CHECK_DEADLOCK FALSE
