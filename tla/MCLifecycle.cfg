CONSTANTS
    q1 = q1
    q2 = q2
    q3 = q3
    q4 = q4
    q5 = q5
    q6 = q6
    b1 = b1
    b2 = b2
    None = None
    Torn = Torn
    Nothing = Nothing
    Versions = {1, 2}
    KeyOf <- MCKeyOf
    Requests = {q1, q2, q3, q4, q5, q6}
    MaxRequests = 1
    Req <- MCReq
    Rules <- MCRules
    Secrets = {b1, b2}
SPECIFICATION FairSpec
INVARIANTS
    CleanReturn
    ShutdownOrder
    CallbackGenuine
PROPERTIES
    ShutdownEnds
    NewestServed
    SettledPairServed
CHECK_DEADLOCK FALSE
