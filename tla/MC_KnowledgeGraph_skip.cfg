SPECIFICATION Spec
CONSTANTS
    c1 = c1  c2 = c2
    a = a  b = b
    p = p  q = q
    Chunks = {c1, c2}
    Names = {a, b}
    Executions = {p}
    Mentioned <- MCMentioned
    Related <- MCRelated
    Finds <- MCFinds
    MaxHandlers = 2
    MaxRuns = 8
    MaxUpsets = 0
PROPERTIES
    SkippedWasUpdated
CHECK_DEADLOCK FALSE
