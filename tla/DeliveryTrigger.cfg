\* One trigger that walks the reminders of two events.
CONSTANTS
    Workers = {w1}
    Events = {ev1, ev2}
    DTypes = {"d-1"}
    Endpoints = {e1}
    BatchSize = 1
    MaxRetries = 1
    None = None
SPECIFICATION Spec
SYMMETRY EventSymmetry
INVARIANT AcceptedNeverOverstated
