SPECIFICATION FairSpec

CONSTANTS
    j1 = j1
    r1 = r1
    NoOne = NoOne
    Jobs = {j1}
    Requests = {r1}
    MaxGeneration = 4
    MaxFaults = 1

INVARIANT TypeOK
INVARIANT MembershipIsExact
INVARIANT NoStalePause
PROPERTY RunsWhileRequired
PROPERTY PausesWhenIdle
PROPERTY DriftIsRepaired

CHECK_DEADLOCK FALSE
