SPECIFICATION EventFairSpec
CONSTANTS
    c1 = c1
    c2 = c2
    Clients = {c1, c2}
    OneShot = {TRUE, FALSE}
    Collects = TRUE
    MaxRegistrations = 3
    MaxLoads = 2
INVARIANTS
    NoLostRegistration AllHear
PROPERTIES
    RegistrationTakesEffect
CHECK_DEADLOCK FALSE
