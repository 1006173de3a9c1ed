\* As Races, with every id written the way it is stored.
SPECIFICATION FairSpec
CONSTANTS
    RateScale   = 2
    Upscale     = 1
    Downscale   = 10
    InvoiceIds  = {i1}
    ApiSessions = {a1, a2}
    Consumers   = {c1}
    NoInvoice   = NoInvoice
    ApiReasons  = {"CANCELLED"}
    Originals  <- RetryOriginals
    Limits     <- RetryLimits
    Quotes     <- RetryQuotes
    Paddings    = {FALSE}
    MaxEvents   = 2
PROPERTIES
    IdenticalRetryIsReplayed
    WaitersAreServed
