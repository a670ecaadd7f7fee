CONSTANTS
    codex = codex
    deepseek = deepseek
    p1 = p1
    p2 = p2
    v = v
    main = main
    other = other
    Sessions = {main, other}
    Shared = main
    Providers = {codex, deepseek}
    FirstProvider = codex
    Targets = {codex, deepseek}
    Installs = {p1, p2}
    Servers = {v}
    SessionOf <- McSessionOf
    MaxChanges = 2
    MaxFaults = 3
SPECIFICATION ConfigSpec
CHECK_DEADLOCK FALSE
INVARIANTS ConfigTypeOK 
PROPERTIES MigrationsSettle RowsAreRead
