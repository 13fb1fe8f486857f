SPECIFICATION Spec

CONSTANTS
    ann = ann
    bob = bob
    cid = cid
    w1 = w1
    w2 = w2
    m1 = m1
    m2 = m2
    Nobody = Nobody
    Users = {ann, bob, cid}
    Conversations = {{ann, bob}, {bob, cid}}
    Peers = {ann, cid}
    Hub = bob
    Subscribers = {bob}
    Operations = {m1, m2}
    Workers = {w1, w2}
    MaxChanges = 4
    MaxMailed = 2
    MaxHides = 1
    MaxFaults = 1
    Strands = FALSE

INVARIANT TypeOK
INVARIANT UnreadBounded
INVARIANT CountsAgree
INVARIANT UnreadListed
INVARIANT ReadWasShown
INVARIANT MailedOnce
INVARIANT NeverStranded
PROPERTY SentWasMailed

SYMMETRY Interchangeable

CHECK_DEADLOCK FALSE
