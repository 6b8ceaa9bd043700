SPECIFICATION Spec
CONSTANTS
    p = p  q = q
    Executions = {p, q}
    StagesOf <- MCStagesOf
    MaxUpsets = 2
INVARIANTS
    TypeOK
    RowTellsOutcome
    CancelStops
CHECK_DEADLOCK FALSE
