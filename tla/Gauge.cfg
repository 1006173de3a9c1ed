\* As Stream, without watchers.
SPECIFICATION Spec
CONSTANTS
    Requests    = {r1, r2}
    Consumer    = Consumer
    Watchers    = {}
    Limits      = {1, 2}
    MaxReserved = 1
    MaxCommits  = 3
CHECK_DEADLOCK FALSE
INVARIANTS
    GaugeIsCurrent
