SPECIFICATION FairSpec
CONSTANTS
    Sessions = {s1}
    TaskSessions = {s1}
    None = None
    MaxOut = 3
    MaxAttempts = 2
    MaxHangs = 1
    MaxSeen = 2
INVARIANTS
    TypeOK
    OneSender
PROPERTIES
    ImplementsOutbox
    EveryOutputSettles
