SPECIFICATION FairSpec
CONSTANTS
    Delays <- MCDelays
    FrameDelays <- MCFrameDelays
    Handled = {TRUE, FALSE}
    MaxTasks = 3
    MaxTime = 1
    MaxFrame = 2
INVARIANTS
    TypeOK NotEarly
PROPERTIES
    NothingLeftReady ReadyIsResumed
CHECK_DEADLOCK FALSE
