SPECIFICATION Spec
CONSTANTS
    c1 = c1  c2 = c2
    a = a  b = b
    p = p  q = q
    Chunks = {c1, c2}
    Names = {a, b}
    Executions = {p, q}
    Mentioned <- MCMentioned
    Related <- MCRelated
    Finds <- MCFinds
    MaxHandlers = 2
    MaxRuns = 3
    MaxUpsets = 1
INVARIANTS
    TypeOK
    
    
    CountsAreTrue
    
    
SYMMETRY MCSymmetry
CHECK_DEADLOCK FALSE
