SPECIFICATION Spec
CONSTANTS
    Msgs = {m}
    Malformed = {}
    Invalid = {}
    Workers = {a}
    Tiers = 3
    Stales = FALSE
    MaxPublishes = 1
    MaxFaults = 1
INVARIANT ShutdownLosesNothing
CHECK_DEADLOCK FALSE
