SPECIFICATION FairSpec
CONSTANTS
    Rows = {1, 2}
    DocRows = {1}
    Poison = {1}
    Relays = {a, b}
    BatchSize = 2
    MaxAttempts = 1
    MaxDoubts = 1
    MaxRollbacks = 1
    MaxConnLosses = 1
    MaxChanLosses = 0
PROPERTY EveryTaskSent
CHECK_DEADLOCK FALSE
