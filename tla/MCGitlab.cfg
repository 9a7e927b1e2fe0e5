CONSTANTS
    c1 = c1
    c2 = c2
    a1 = a1
    a2 = a2
    zz = zz
    x = x
    y = y
    s1 = s1
    s2 = s2
    l1 = l1
    l2 = l2
    Missing = Missing
    AnySub = AnySub
    ChatIds = {c1, c2}
    Confs <- MCConfs
    Payloads <- MCPayloads
    Tokens = {s1, s2, Missing}
    Queries <- MCQueries
SPECIFICATION GitlabSpec
INVARIANTS
    OfflineAgrees
    RoutedOnce
CHECK_DEADLOCK FALSE
