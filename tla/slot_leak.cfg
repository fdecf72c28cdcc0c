SPECIFICATION FairSpec
CONSTANTS
    w1 = w1  w2 = w2  w3 = w3  p1 = p1  p2 = p2  c1 = c1  c2 = c2
    Replicas = {r1}
    Campaigns = {c1}
    Leads = {p1}
    Rows = {w1}
    FirstRows = {w1}
    Calls = {k1}
    CampaignOf <- OneRow
    LeadOf <- OneLead
    None = None
    MaxConcurrents = {1}
    MaxAttempts = 1
    DailyCap = 0
    DispatchLimit = 50
    MaxTestCalls = 0
    MaxOps = 0
    MaxFaults = 0
PROPERTIES
    EndedCallFreesSlot
CHECK_DEADLOCK FALSE
