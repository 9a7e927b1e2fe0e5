CONSTANTS
    w1 = w1
    w2 = w2
    b1 = b1
    b2 = b2
    m1 = m1
    m2 = m2
    m3 = m3
    m4 = m4
    NoBot = NoBot
    None = None
    Workers = {w1}
    Bots = {b1, b2}
    Msgs = {m1, m2, m4}
    BotOf <- MCBotOf
    StaticBots = {b2}
    Malformed = {m4}
    WithReply = {}
    DryRunWorkers = {}
    SharedCache = TRUE
    RetryCount = 1
    MaxEpoch = 2
    MaxDisruptions = 1
SPECIFICATION FairSpec
PROPERTIES
    EventuallyHandled
    RefreshedTokenIsNew
CHECK_DEADLOCK FALSE
