CONSTANTS
    r1 = r1
    r2 = r2
    r3 = r3
    r4 = r4
    r5 = r5
    r6 = r6
    c1 = c1
    c2 = c2
    a1 = a1
    a2 = a2
    x = x
    y = y
    None = None
    Requests = {r1, r2, r3, r4, r5, r6}
    Req <- MCReq
    Servers <- MCServers
    Chats <- MCChats
    Default <- MCDefault
    ChatIds = {c1, c2}
    Bots = {x, y}
    StaticBots = {y}
    MaxEpoch = 2
    MaxRequests = 2
SPECIFICATION Spec
INVARIANTS
    ScopedAllOrNothing
    RightBot
    OncePerTarget
    RefreshHeals
PROPERTIES
    KeepsFanout
CHECK_DEADLOCK FALSE
