SPECIFICATION FairSpec
CONSTANTS
    Sessions = {a, b}
    Keys = {none, u}
    Empty = none
    Nobody = nobody
    Admin = admin
    Callers = {a, admin}
    MaxCalls = 2
INVARIANTS KeysLead EndsWell
PROPERTIES GoneAreUnlisted
CHECK_DEADLOCK FALSE
