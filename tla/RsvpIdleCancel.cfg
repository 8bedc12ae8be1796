SPECIFICATION Spec
CONSTANTS
    Members = {m1, m2, m3}
    Processes = {p1}
    Capacities = {1}
    Requests = {"going", "cancel"}
    MaxTicket = 4
    None = None
SYMMETRY RsvpSymmetry
PROPERTY PromotionsHaveASeat
