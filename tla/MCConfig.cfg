CONSTANTS
    p1 = p1
    p2 = p2
    p3 = p3
    c1 = c1
    c2 = c2
    c3 = c3
    x = x
    y = y
    z = z
    hx = hx
    hz = hz
    Nothing = Nothing
    Garbled = Garbled
    Procs = {p1, p2, p3}
    Tasks <- MCTasks
    Original <- MCOriginal
    BotNames <- MCBotNames
    Edits <- MCEdits
    MaxDeaths = 1
SPECIFICATION FileSpec
INVARIANTS
    FileIsSound
PROPERTIES
    WaitLosesNothing
CHECK_DEADLOCK FALSE
