SPECIFICATION Spec
CONSTANTS
    Ids = {"button", "edit"}
    Buttons = {"button"}
    Points = {"inner", "outer"}
    Covers <- MCCovers
    Keys = {"shift_l", "shift_r"}
    KeyOf <- MCKeyOf
INVARIANTS
    TypeOK SlotsAccounted GameInputReal
PROPERTIES
    HolderShown
CHECK_DEADLOCK FALSE
