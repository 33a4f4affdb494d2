\* A worker left by an earlier daemon and its successor; the pipe blocks.
SPECIFICATION Spec
CONSTANTS
    Slots = {w1, w2}
    Nobody = Nobody
    PipeLines = 1
    MaxExits = 1
    MaxCrashes = 1
INVARIANTS
    SignalsHandled
    FilesAccounted
PROPERTIES
    Answered
    SamplerReturns
CHECK_DEADLOCK FALSE
