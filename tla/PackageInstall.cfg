SPECIFICATION Spec
CONSTANTS
    a = a
    b = b
    Packages = {a, b}
    Worlds <- MCWorlds
    Commands <- MCCommands
    Verbose = TRUE
    MaxOps = 2
    MaxFailures = 1
    MaxRemovals = 1
INVARIANTS
    InstalledUnlessReported NeverForgotten
CHECK_DEADLOCK FALSE
