SPECIFICATION FairSpec
CONSTANTS
    Msgs = {m, x, y}
    Malformed = {y}
    Invalid = {x}
    Workers = {a, b}
    Tiers = 2
    Stales = FALSE
    MaxPublishes = 2
    MaxFaults = 2
INVARIANTS TypeOK AttemptRunsOnce DeadLetterEarned ResultsAreTrue OneVerdict 
  
CHECK_DEADLOCK FALSE
