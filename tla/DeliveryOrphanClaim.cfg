\* One worker that outlives the reclaim of its log.
CONSTANTS
    Workers = {w1}
    Events = {ev}
    DTypes = {"d-1"}
    Endpoints = {e1}
    BatchSize = 1
    MaxRetries = 0
    None = None
SPECIFICATION FairSpec
PROPERTY InterruptedBecomesUnknown
