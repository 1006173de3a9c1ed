\* Two API requests and the consumer race on the life of one invoice.
SPECIFICATION Spec
CONSTANTS
    RateScale   = 2
    Upscale     = 1
    Downscale   = 10
    InvoiceIds  = {i1}
    ApiSessions = {a1, a2}
    Consumers   = {c1}
    NoInvoice   = NoInvoice
    ApiReasons  = {"REPAID", "CANCELLED"}
    Originals  <- RaceOriginals
    Limits     <- RaceLimits
    Quotes     <- RaceQuotes
    Paddings    = {FALSE, TRUE}
    MaxEvents   = 2
SYMMETRY Interchangeable
INVARIANTS
    LogExplainsHolds
    RowsAreLoadable
    HoldsCoverInvoices
    AnswersAreKept
PROPERTIES
    HoldsOnlyEnd
