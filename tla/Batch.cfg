\* The whole batch; every single departure from the audited relocation table.
SPECIFICATION Spec
CONSTANTS
    MaxTries = 2
    Frames <- MCFrames
INVARIANTS
    RelocsOnFields
    BindingsKept
    ScratchBound
    BatchFits
CHECK_DEADLOCK FALSE
