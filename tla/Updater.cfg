SPECIFICATION UpdaterFairSpec
CONSTANTS
    Launchers = {l1, l2}
    MaxRelease = 2
    MaxCleaners = 1
    MaxHasty = 1
    MaxFaults = 1
INVARIANTS
    ReplacedKept
PROPERTIES
    CoreCatchesUp
CHECK_DEADLOCK FALSE
