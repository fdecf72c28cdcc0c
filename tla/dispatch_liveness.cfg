SPECIFICATION FairSpec
CONSTANTS
    w1 = w1  w2 = w2  w3 = w3  p1 = p1  p2 = p2  c1 = c1  c2 = c2
    Replicas = {r1}
    Campaigns = {c1}
    Leads = {p1, p2}
    Rows = {w1, w2}
    FirstRows = {w1, w2}
    Calls = {k1, k2}
    CampaignOf <- OneCampaign
    LeadOf <- TwoLeads
    None = None
    MaxConcurrents = {0}
    MaxAttempts = 1
    DailyCap = 0
    DispatchLimit = 50
    MaxTestCalls = 0
    MaxOps = 1
    MaxFaults = 0
PROPERTIES SlotsReturn PendingLeadIsTakenUp
CHECK_DEADLOCK FALSE
