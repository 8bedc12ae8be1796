\* Writing posts, signing up, the own profile, change requests, the directory, RSVPs one
\* at a time and the page of an event, one of them in each behaviour. A reader may stop
\* at any time: deadlock is not checked.
SPECIFICATION Spec
CONSTANTS
    Images = {i1, i2}
    NoImage = NoImage
    MaxImages = 2
    MaxSaves = 1
    MaxFetches = 1
    MaxOthers = 1
    Students = {s1}
    NoStudent = NoStudent
    MaxCalls = 3
    Fields = {f1, f2}
    MaxValues = 3
    MaxWrites = 2
    Keys = {cohort}
    NoKey = NoKey
    MaxAsks = 3
    MaxPosts = 4
    Searches = {plain, kim}
    Plain = plain
    Pages = 3
    NoUrl = NoUrl
    MaxMoves = 2
    Members = {m1, m2, m3}
    Processes = {p1}
    Capacities = {1}
    Requests = {"going", "cancel"}
    MaxTicket = 4
    None = None
    Guests = {g1, g2}
    Reader = g1
    Servers = {v1}
    MaxGuestTicket = 3
INVARIANTS TypeOK ActiveIffApproved LoginAdviceIsTrue SavedMeansSaved PhotoMatchesDisk ApprovedIsInEffect LastWishWins NoPingPong WantedPagesArrive ShownPlaceHolds
PROPERTIES CoverLostOnlyToStaleUpload PublicationOnlyOnRequest UsedTokenIsSpent UntypedFieldsSurvive SeatsAreAccounted OnlyAbortWastesASeat
CHECK_DEADLOCK FALSE
