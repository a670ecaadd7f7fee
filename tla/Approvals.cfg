SPECIFICATION FairSpec
CONSTANTS
    r1 = r1
    r2 = r2
    admin = admin
    member = member
    NoRequest = NoRequest
    Requests = {r1, r2}
    Users = {admin, member}
    MayResolve <- AdminResolves
    MaxClicks <- DoubleAndSingle
    MaxCrashes = 1
INVARIANTS
    TypeOK
    OutcomeWasSaid
    SettledIsTold
PROPERTIES
    RejectionIsFinal
    AnswersSettle
CHECK_DEADLOCK FALSE
