SPECIFICATION Spec
CONSTANTS
    Rows = {1, 2}
    DocRows = {1}
    Poison = {}
    Relays = {a, b}
    BatchSize = 2
    MaxAttempts = 1
    MaxDoubts = 1
    MaxRollbacks = 1
    MaxConnLosses = 1
    MaxChanLosses = 1
SYMMETRY RelaySymmetry
INVARIANTS TypeOK SentWasDelivered DocumentHasTask TaskHasDocument DuplicatesAccounted IInv
PROPERTIES SentIsFinal ImplementsHandoff
CHECK_DEADLOCK FALSE
