SPECIFICATION Spec
CONSTANTS
    s1 = s1
    s2 = s2
    p1 = p1
    None = None
    Usage = Usage
    Sessions = {s1, s2}
    Ports <- OnePort
    WebhookEnabled = TRUE
INVARIANTS TypeOK PortsAccounted ClosedOnce
SYMMETRY SessionSymmetry
CHECK_DEADLOCK FALSE
