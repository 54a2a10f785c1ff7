SPECIFICATION PageSpec
CONSTANTS
    Lists = {"events"}
    Limits = {4}
    EnvelopeIds <- McIds
    Collation <- McCollation
    EventsBefore = 10
    MaxTime = 2
    MaxItems = 11
    NoCursor = NoCursor
INVARIANT EventsWalkComplete
CHECK_DEADLOCK FALSE
