\* One worker whose targets unsubscribe between two runs.
CONSTANTS
    Workers = {w1}
    Events = {ev}
    DTypes = {"d-1"}
    Endpoints = {e1}
    BatchSize = 1
    MaxRetries = 0
    None = None
SPECIFICATION Spec
INVARIANT CompletedLeavesNothingOpen
