\* Snapshots over two invoices, against clients and incremental messages.
SPECIFICATION Spec
CONSTANTS
    RateScale   = 10
    Upscale     = 10
    Downscale   = 1
    MaxAmount   = 3
    InvoiceIds  = {i1, i2}
    Margin      = 1
    MaxTime     = 1
    ApiReasons  = {"REPAID"}
    Originals  <- SomeOriginals
    Quotes     <- SomeQuotes
    Limits     <- SomeLimits
    Snapshots  <- SomeSnapshots
SYMMETRY Interchangeable
INVARIANTS
    TypeOK
    CounterIsSumOfHolds
    LogAccountsForHolds
    RowsAreLoadable
    PlansAreApplicable
PROPERTIES
    SnapshotsSettle
    SilenceFreesNothing
    EvidenceIsKept
