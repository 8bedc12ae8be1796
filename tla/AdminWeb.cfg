\* The administrators' screens and the push buttons, one kind in each behaviour. A reader
\* may stop at any time: deadlock is not checked.
SPECIFICATION Spec
CONSTANTS
    Offset = 9
    Start = 12
    Clocks = {30}
    NoClock = NoClock
    MaxTitles = 2
    MaxWrites = 3
    MaxVisits = 2
    Rows = {1, 2, 3}
    Matching = {2}
    PageSize = 1
    NoRow = NoRow
    MaxFetches = 2
    MaxDeletes = 2
    Perms = {p1}
    Fields = {name, phone}
    Required = {name}
    MaxValues = 2
    MaxOps = 2
    MaxOthers = 1
    Targets = {t1, t2}
    MaxBanners = 2
    MaxChanges = 2
    MaxMoves = 2
    Owners = {o1, o2}
    Nobody = Nobody
    MaxEndpoints = 2
    MaxLogins = 2
    MaxAttempts = 2
    MaxFlights = 2
    MaxBroadcasts = 1
SYMMETRY OwnerSymmetry
INVARIANTS TypeOK NoFreshGhost RolesFollowHierarchy ToggleIsTrue ToldIsTrue
PROPERTIES RevertNeedsAStaleSeed AnswerClosesItsDialog OnlyEditedFieldsWritten OneBannerPerTarget
CHECK_DEADLOCK FALSE
