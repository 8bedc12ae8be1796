SPECIFICATION Spec
CONSTANTS
    Members = {m1, m2}
    Processes = {p1, p2}
    Capacities = {1}
    Requests = {"going"}
    MaxTicket = 4
    None = None
SYMMETRY RsvpSymmetry
INVARIANT GoingWithinCapacity
