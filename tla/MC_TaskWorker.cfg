SPECIFICATION FairSpec
CONSTANTS
    Msgs = {m, x, y}
    Malformed = {y}
    Invalid = {x}
    Workers = {a, b}
    Tiers = 1
    Stales = TRUE
    MaxPublishes = 2
    MaxFaults = 2
INVARIANTS TypeOK AttemptRunsOnce DeadLetterEarned FailedIsBuried LostOnlyIfCutOff
PROPERTIES  EveryMessageReported
CHECK_DEADLOCK FALSE
