CONSTANTS
    w1 = w1
    w2 = w2
    b1 = b1
    b2 = b2
    m1 = m1
    m2 = m2
    m3 = m3
    m4 = m4
    NoBot = NoBot
    None = None
    Workers = {w1, w2}
    Bots = {b1}
    Msgs = {m1, m4}
    BotOf <- MCBotOf
    StaticBots = {}
    Malformed = {m4}
    WithReply = {m1}
    DryRunWorkers = {w2}
    SharedCache = FALSE
    RetryCount = 1
    MaxEpoch = 2
    MaxDisruptions = 2
SPECIFICATION FairSpec
INVARIANTS
    TypeOK
    AckMeansHandled
    DeadMeansGivenUp
    DuplicateExplained
    SentIsTrue
PROPERTIES
    KeepsPromise
    EventuallySettled
CHECK_DEADLOCK FALSE
