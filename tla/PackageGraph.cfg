SPECIFICATION OrdersSpec
CONSTANTS
    PackageCount = 3
    GivenGraphs <- MCGraphs
    GivenNames <- MCNames
INVARIANTS
    LoadOrderSound UnloadOrderSound
