SPECIFICATION Spec
CONSTANTS
    won = won
    ended = ended
    Calls = {c1}
    HasLead = {c1}
    FirstTools = {"set_lead_outcome"}
    OutboxSize = 1
    MaxTools = 2
    MaxSwitches = 1
    MaxCallFaults = 1
    EventTypes = {won, ended}
    Hooks <- MCHooks
    Endpoints = {e1, e2}
    FirstEndpoints = {e1}
    Workers = {w1}
    QueueSize = 1
    PostTimeout = 2
    HandleTimeout = 3
    MaxEdits = 1
    MaxHookFaults = 1
INVARIANTS OutcomeInv WebhookInv
PROPERTIES EveryEndIsTold EventsAreSettled
CHECK_DEADLOCK FALSE
