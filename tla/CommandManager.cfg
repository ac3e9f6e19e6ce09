SPECIFICATION Spec
CONSTANTS
    Addons = {"A", "B"}
    Names = {"load", "draw"}
    ClientCommands = {}
    CoreCommands = {"load"}
    AliasArguments <- MCAliasArguments
    MaxGen = 2
    MaxDepth = 2
INVARIANTS
    Reachable
PROPERTIES
    AnswersRight
CHECK_DEADLOCK FALSE
