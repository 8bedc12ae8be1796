\* The edit page of an event, for a reader nine hours ahead of UTC.
SPECIFICATION Spec
CONSTANTS
    Offset = 9
    Start = 12
    Clocks = {30}
    NoClock = NoClock
    MaxTitles = 3
    MaxWrites = 3
    MaxVisits = 2
PROPERTY UntouchedScheduleKept
CHECK_DEADLOCK FALSE
