SPECIFICATION FairSpec
CONSTANTS
    Ways = {"pol", "steam"}
    GameMayEnd = TRUE
    MaxAttempts = 2
INVARIANTS
    CoreBeforeProgram NothingLeftBehind AnswerIsTrue
PROPERTIES
    CancelEnds
CHECK_DEADLOCK FALSE
