SPECIFICATION Spec

CONSTANTS
    c1 = c1
    c2 = c2
    e1 = e1
    e2 = e2
    a1 = a1
    Reporter = Reporter
    Free = Free
    Clients = {c1, c2}
    Edits = {e1, e2}
    Addition = a1
    MaxChanges = 2
    MaxPosts = 2
    MaxMounts = 2
    MaxPolls = 1
    MaxFaults = 1

SYMMETRY Interchangeable

INVARIANT TypeOK
INVARIANT CursorCovers
INVARIANT MarkHonest
INVARIANT CleanIsSaved
INVARIANT AdditionDurableFirst
PROPERTY SavedGrows
PROPERTY LiveGrows
PROPERTY RecordOutlived

CHECK_DEADLOCK FALSE
