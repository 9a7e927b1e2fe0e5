CONSTANTS
    p1 = p1
    p2 = p2
    b1 = b1
    b2 = b2
    Procs = {p1, p2}
    Bots = {b1, b2}
    HostOf <- MCHostOf
    IdOf <- MCIdOf
    Backends = {"file", "vault", "none"}
    MaxTokens = 2
    MaxCommands = 3
SPECIFICATION Spec
SYMMETRY Symmetry
INVARIANTS
    TokenIsRight
    CacheIsExact
CHECK_DEADLOCK FALSE
