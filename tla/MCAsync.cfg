CONSTANTS
    w1 = w1
    r1 = r1
    r2 = r2
    r3 = r3
    r4 = r4
    r5 = r5
    r6 = r6
    c1 = c1
    c2 = c2
    c3 = c3
    a1 = a1
    a2 = a2
    x = x
    y = y
    B1 = B1
    B2 = B2
    None = None
    Publishers = {w1}
    MaxVersion = 2
    MaxLog = 1
    Durable = FALSE
    MaxDisruptions = 1
    Requests = {r1, r2, r3, r4, r6}
    MaxRequests = 1
    Req <- MCReq
    ChatIds = {c1, c2, c3}
    BotIds = {B1, B2}
    ChatsOf <- MCChatsOf
    BotsOf <- MCBotsOf
SPECIFICATION Spec
INVARIANTS
    TypeOK
    ScopeHeld
    RoutedByOneSnapshot
    AnswerIsTrue
PROPERTIES
    KeepsFanout
