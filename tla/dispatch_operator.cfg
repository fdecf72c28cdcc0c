SPECIFICATION Spec
CONSTANTS
    w1 = w1  w2 = w2  w3 = w3  p1 = p1  p2 = p2  c1 = c1  c2 = c2
    Replicas = {r1}
    Campaigns = {c1}
    Leads = {p1, p2}
    Rows = {w1, w2, w3}
    FirstRows = {w1, w2}
    Calls = {k1, k2, k3}
    CampaignOf <- OneCampaignAgain
    LeadOf <- LeadAgain
    None = None
    MaxConcurrents = {1, 2}
    MaxAttempts = 2
    DailyCap = 0
    DispatchLimit = 1
    MaxTestCalls = 0
    MaxOps = 2
    MaxFaults = 0
SYMMETRY CallSymmetry
INVARIANTS
    TypeOK
    SlotAccounting
    ConcurrencyBounded
    AttemptsCountCalls
    OneCallPerCampaignLead
PROPERTIES
    ListedPhonesNotDialed
CHECK_DEADLOCK FALSE
