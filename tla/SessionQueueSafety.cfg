SPECIFICATION Spec
CONSTANTS
    MaxMessages = 2
    MaxPrompt = 2
    MaxTries = 1
    StuckAge = 1
    CeilingAge = 2
    BackoffBase = 1
    Delays = {1}
    BashTimeouts = {1}
    Traffic = {"chat", "context", "command", "task", "system"}
INVARIANTS
    TypeOK
    
    StatusIsEarned

    
    
