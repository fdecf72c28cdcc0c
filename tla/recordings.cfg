SPECIFICATION FairSpec
CONSTANTS
    r1 = r1
    r2 = r2
    c1 = c1
    w1 = w1
    w2 = w2
    Uploads = {r1, r2}
    CallOf <- SameCall
    KeyOf <- OtherSeconds
    Workers = {w1, w2}
    Days = {0, 1}
    BatchSize = 2
    MaxDay = 2
    MaxFaults = 1
INVARIANTS TypeOK Playable ObjectsAccounted
PROPERTIES ExpiredIsErased
CHECK_DEADLOCK FALSE
