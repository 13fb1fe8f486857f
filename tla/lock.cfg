SPECIFICATION FairSpec

CONSTANTS
    o1 = o1
    o2 = o2
    o3 = o3
    t1 = t1
    q1 = q1
    q2 = q2
    d1 = d1
    NoOp = NoOp
    Ops = {o1, o2, o3}
    Targets = {t1}
    Requests = {q1, q2}
    Readers = {d1}
    TargetOf <- Forms

INVARIANT TypeOK
INVARIANT ActiveHoldsLock
INVARIANT OneActivePerTarget
PROPERTY LockGoes

CHECK_DEADLOCK FALSE
