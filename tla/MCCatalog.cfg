CONSTANTS
    w1 = w1
    w2 = w2
    Publishers = {w1, w2}
    MaxVersion = 3
    MaxLog = 2
    Durable = TRUE
    MaxDisruptions = 2
SPECIFICATION CatalogFairSpec
INVARIANTS
    CaughtUp
PROPERTIES
    EventuallyCurrent
