SPECIFICATION CalendarSpec
CONSTANTS
    c1 = c1
    c2 = c2
    l1 = l1
    p1 = p1
    p2 = p2
    Calls = {c1, c2}
    Leads = {l1}
    Phones = {p1, p2}
    Callers <- Cases
    Accounts = {a1, a2}
    None = None
    Starts = {0, 4}
    Durations = {0, 1}
    DefaultMin = 2
    MaxEvents = 1
    MaxConnects = 2
    MaxFaults = 1
    Horizon = 7
    From = 2
    To = 6
    MinMinutes = {0, 1, 2}
    DefaultGap = 3
    MaxBusy = 3
SYMMETRY Symmetry
INVARIANTS MeetingsInv SlotsInv
CHECK_DEADLOCK FALSE
