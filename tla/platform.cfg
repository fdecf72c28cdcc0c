SPECIFICATION Spec
CONSTANTS
    t1 = t1
    Clients = {k1, k2}
    Tenants = {t1}
    Broadcasters = {b1, b2}
    TenantOf <- MCTenantOf
    SendBuffer = 1
    MaxBroadcasts = 3
    Keys = {a1}
    Rate = 2
    Burst = 2
    Idle = 4
    MaxTime = 8
    MaxDenied = 1
    Replicas = {r1, r2}
    Files = 3
    MaxStops = 2
    Docs = {d1, d2}
    MaxBatches = 2
    MaxKbFaults = 2
    MaxChars = 6
    OverlapChars = 2
    MaxSentence = 13
    SentenceLengths = {1, 2, 4, 13}
    MaxSentences = 3
    MaxParagraphs = 2
INVARIANTS HubInv RateInv SchemaInv KbInv ChunkInv
PROPERTIES ClosedClientsLeave EveryReplicaServes UploadsAreSettled
CHECK_DEADLOCK FALSE
