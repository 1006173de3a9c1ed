\* Clocks agree and news is immediate; a snapshot meets a hold taken since.
SPECIFICATION FairTSpec
CONSTANTS
    RateScale   = 10
    Upscale     = 10
    Downscale   = 1
    MaxAmount   = 9
    InvoiceIds  = {i1}
    Margin      = 1
    Delay       = 0
    Skew        = 0
    MaxTime     = 1
    MaxMessages = 1
    CreditLimit = 2
    Amounts     = {1}
    ApiReasons  = {"CANCELLED"}
    Originals  <- SomeOriginals
    Quotes     <- SomeQuotes
    Limits      = {2}
    Snapshots  <- TruthfulSnapshots
CHECK_DEADLOCK FALSE
PROPERTIES
    PartitionMoves
