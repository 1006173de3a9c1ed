\* Two members of the group, two messages, faults at any step.
SPECIFICATION FairDeliverySpec
CONSTANTS
    RateScale   = 10
    Upscale     = 10
    Downscale   = 1
    MaxAmount   = 3
    InvoiceIds  = {i1}
    Members     = {m1, m2}
    Nobody      = Nobody
    Margin      = 0
    MaxTime     = 0
    MaxMessages = 2
    MaxFaults   = 2
    ApiReasons  = {"CANCELLED"}
    Originals  <- SomeOriginals
    Quotes     <- SomeQuotes
    Limits     <- SomeLimits
    Snapshots  <- SomeSnapshots
    Messages   <- SomeMessages
CHECK_DEADLOCK FALSE
INVARIANTS
    DeliveryTypeOK
    NothingIsSkipped
    TopicDecidesTheLimit
    FalseDeadLettersAreFew
PROPERTIES
    OnlyTheOustedGoBack
    ImplementsTreasurySync
    OnlyRefusalsStall
