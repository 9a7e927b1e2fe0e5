CONSTANTS
    c1 = c1
    c2 = c2
    b1 = b1
    b2 = b2
    h1 = h1
    h2 = h2
    s1 = s1
    s2 = s2
    t1 = t1
    t2 = t2
    x = x
    y = y
    a1 = a1
    a2 = a2
    a3 = a3
    None = None
    ChatIds = {c1, c2}
    BotIds = {b1, b2}
    Commands <- MCCommands
    Snapshots <- MCSnapshots
    MaxRuns = 2
    MaxFaults = 2
SPECIFICATION Spec
INVARIANTS
    LoadedIsCoherent
    SentByOwnBot
    RoutedByItsRevision
    OnceUnlessLost
CHECK_DEADLOCK FALSE
