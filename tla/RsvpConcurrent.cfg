\* Two requests at once around no seat or one. A wish to wait is left out: as a row it is
\* what Normalize makes of a wish for a seat beyond the capacity.
SPECIFICATION Spec
CONSTANTS
    Members = {m1, m2, m3}
    Processes = {p1, p2}
    Capacities = {0, 1}
    Requests = {"going", "cancel"}
    MaxTicket = 4
    None = None
SYMMETRY RsvpSymmetry
INVARIANTS NoDoublePromotion
PROPERTIES OthersOnlyPromote PromotionSurvivesRequest SeatsArePassedOn
