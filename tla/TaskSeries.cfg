SPECIFICATION FairSpec
CONSTANTS
    MaxRows = 2
    PauseCap = 2
INVARIANTS
    TypeOK
    ScheduleSurvives
    SessionStays
    EndedStaysEnded
PROPERTIES
    SeriesGoesOn
CHECK_DEADLOCK FALSE
