\* Two kinds of line, room for two incidents, one kill or power failure.
SPECIFICATION Spec
CONSTANTS
    Kinds = {detail, event}
    Event = event
    Keep <- MCKeep
    Segment = 2
    Post = 1
    SegmentCap = 1
    AfterCap = 1
    MaxIncidents = 2
    Budget = 4
    Names <- MCNames
    MaxTime = 5
    MaxLines = 2
    MaxTriggers = 3
    MaxCrashes = 1
    detail = detail
    event = event
INVARIANTS
    WindowKept
    AfterExact
    Retention
CHECK_DEADLOCK FALSE
