CONSTANTS
    w1 = w1
    w2 = w2
    b1 = b1
    b2 = b2
    m1 = m1
    m2 = m2
    m3 = m3
    m4 = m4
    NoBot = NoBot
    None = None
    Workers = {w1, w2}
    Bots = {b1, b2}
    Msgs = {m1, m3}
    BotOf <- MCBotOf
    StaticBots = {b2}
    Malformed = {}
    WithReply = {}
    DryRunWorkers = {}
    SharedCache = FALSE
    RetryCount = 1
    MaxEpoch = 2
    MaxDisruptions = 2
SPECIFICATION Spec
INVARIANTS
    FailedStaysRedeliverable
CHECK_DEADLOCK FALSE
