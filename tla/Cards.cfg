SPECIFICATION FairSpec
CONSTANTS
    Questions = {q1}
    Requests = {r1, r2}
    Users = {boss, guest}
    Admins = {boss}
    MaxAttempts = 2
    Together = {{q1}, {r1}, {r1, r2}}
    MaxClicks = 2
    MaxRestarts = 1
INVARIANTS
    TypeOK
    ClicksCount
PROPERTIES
    CardsEnd
CHECK_DEADLOCK FALSE
