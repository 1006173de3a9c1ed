\* The same request sent twice, with a blank before the invoice id.
SPECIFICATION Spec
CONSTANTS
    RateScale   = 2
    Upscale     = 1
    Downscale   = 10
    InvoiceIds  = {i1}
    ApiSessions = {a1}
    Consumers   = {}
    NoInvoice   = NoInvoice
    ApiReasons  = {"CANCELLED"}
    Originals  <- RetryOriginals
    Limits     <- RetryLimits
    Quotes     <- RetryQuotes
    Paddings    = {TRUE}
    MaxEvents   = 2
PROPERTY
    IdenticalRetryIsReplayed
