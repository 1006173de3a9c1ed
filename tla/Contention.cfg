\* Two API requests and the consumer contend for one program.
SPECIFICATION Spec
CONSTANTS
    RateScale   = 2
    Upscale     = 1
    Downscale   = 10
    InvoiceIds  = {i1, i2}
    ApiSessions = {a1, a2}
    Consumers   = {c1}
    NoInvoice   = NoInvoice
    Originals  <- ContentionOriginals
    Limits     <- ContentionLimits
    Quotes     <- ContentionQuotes
    ApiReasons  = {"CANCELLED"}
    Paddings    = {FALSE}
    MaxEvents   = 3
SYMMETRY Interchangeable
INVARIANTS
    TypeOK
    CounterIsSumOfHolds
    LogAccountsForCounter
    LockKeepsReadsFresh
    ReleaseIsNeverRefused
PROPERTIES
    NeverOversold
    ImplementsLedger

