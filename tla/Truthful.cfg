\* A truthful treasury whose clock is ahead, and slow news.
SPECIFICATION FairTSpec
CONSTANTS
    RateScale   = 10
    Upscale     = 10
    Downscale   = 1
    MaxAmount   = 9
    InvoiceIds  = {i1}
    Margin      = 2
    Delay       = 1
    Skew        = 1
    MaxTime     = 3
    MaxMessages = 3
    CreditLimit = 2
    Amounts     = {2}
    ApiReasons  = {"CANCELLED"}
    Originals  <- SomeOriginals
    Quotes     <- SomeQuotes
    Limits      = {2}
    Snapshots  <- TruthfulSnapshots
CHECK_DEADLOCK FALSE
INVARIANTS
    NoFalseAlarm
PROPERTIES
    OnlyLateHoldsStall
