SPECIFICATION Spec
CONSTANTS
    Msgs = {m}
    Malformed = {}
    Invalid = {}
    Workers = {a}
    Tiers = 3
    Stales = FALSE
    MaxPublishes = 1
    MaxFaults = 2
INVARIANT OnlyBuriedFailed
CHECK_DEADLOCK FALSE
