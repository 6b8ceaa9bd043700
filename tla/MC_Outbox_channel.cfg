SPECIFICATION FairSpec
CONSTANTS
    Rows = {1}
    DocRows = {1}
    Poison = {}
    Relays = {a}
    BatchSize = 1
    MaxAttempts = 1
    MaxDoubts = 1
    MaxRollbacks = 1
    MaxConnLosses = 1
    MaxChanLosses = 1
PROPERTY EveryTaskSent
CHECK_DEADLOCK FALSE
