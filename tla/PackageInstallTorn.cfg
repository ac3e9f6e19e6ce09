SPECIFICATION Spec
CONSTANTS
    a = a
    b = b
    Packages = {a, b}
    Worlds <- MCWorlds
    Commands <- MCCommands
    Verbose = TRUE
    MaxOps = 2
    MaxFailures = 1
    MaxRemovals = 0
INVARIANTS
    InstalledWhole
CHECK_DEADLOCK FALSE
