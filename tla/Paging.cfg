\* Two writers, a client on the log and one on three reservations.
SPECIFICATION Spec
CONSTANTS
    Invoices = {1, 2, 3}
    Writers  = {w1, w2}
    Nobody   = Nobody
    Limits   = {1, 2}
    MaxTime  = 1
    MaxId    = 4
CHECK_DEADLOCK FALSE
INVARIANTS
    ListingTypeOK
    EventsAreNeverSkipped
    WalksListRowsOnce
PROPERTIES
    WalksMissOnlyLateRows
