SPECIFICATION FairSpec
CONSTANTS
    s1 = s1
    s2 = s2
    p1 = p1
    None = None
    Usage = Usage
    Sessions = {s1}
    Ports <- OnePort
    WebhookEnabled = TRUE
PROPERTIES RegistryGoesOn HookedPortReturns
CHECK_DEADLOCK FALSE
