SPECIFICATION Spec
CONSTANTS
    PackageCount = 3
    Games <- MCGames
    Graphs <- MCFewGraphs
INVARIANTS
    LoadedOnce DependenciesLoaded
PROPERTIES
    NoneOrphaned
CHECK_DEADLOCK FALSE
