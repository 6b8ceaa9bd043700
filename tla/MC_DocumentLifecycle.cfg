SPECIFICATION FairSpec
CONSTANTS
    Docs = {d}
    Strays = {s}
    Requests = {q}
    Replicas = {a, b}
    MaxReports = 3
    MaxFaults = 2
INVARIANTS TypeOK WrittenOncePerReplica BlobBehindRow OrphansAccounted IInv
PROPERTIES EveryResultApplied ResultsDrain
CHECK_DEADLOCK FALSE
