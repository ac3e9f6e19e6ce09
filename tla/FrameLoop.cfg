SPECIFICATION FairSpec
CONSTANTS
    MaxDevices = 3
    MaxQueued = 4
INVARIANTS
    TypeOK FindsWhatItNeeds
PROPERTIES
    FrameComplete CommandAnswered UpdateEnds
CHECK_DEADLOCK FALSE
