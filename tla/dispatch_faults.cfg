SPECIFICATION Spec
CONSTANTS
    w1 = w1  w2 = w2  w3 = w3  p1 = p1  p2 = p2  c1 = c1  c2 = c2
    Replicas = {r1}
    Campaigns = {c1, c2}
    Leads = {p1}
    Rows = {w1, w2}
    FirstRows = {w1, w2}
    Calls = {k1, k2}
    CampaignOf <- TwoCampaigns
    LeadOf <- SharedLead
    None = None
    MaxConcurrents = {1}
    MaxAttempts = 2
    DailyCap = 1
    DispatchLimit = 50
    MaxTestCalls = 1
    MaxOps = 1
    MaxFaults = 1
SYMMETRY CampaignSymmetry
INVARIANTS
    SlotAccounting
PROPERTIES
    RefinesLifecycle
CHECK_DEADLOCK FALSE
