\* Two workers on one reminder for one endpoint, with one retry. Only time and
\* the sweep are fair.
CONSTANTS
    Workers = {w1, w2}
    Events = {ev}
    DTypes = {"d-1"}
    Endpoints = {e1}
    BatchSize = 1
    MaxRetries = 1
    None = None
SPECIFICATION FairSpec
INVARIANTS AtMostOnce SingleClaimant RecordsAreTruthful
PROPERTIES SettledStaysSettled ClaimsAreSettled KeepsPromise OpenLogCloses
