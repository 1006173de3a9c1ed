\* Two requests, the consumer and a stream.
SPECIFICATION FairSpec
CONSTANTS
    Requests    = {r1, r2}
    Consumer    = Consumer
    Watchers    = {w1}
    Limits      = {1, 2}
    MaxReserved = 1
    MaxCommits  = 3
CHECK_DEADLOCK FALSE
INVARIANTS
    StreamTypeOK
    StaleOnlyWhileOwed
PROPERTIES
    ImplementsFeed
    WatchersCatchUp
