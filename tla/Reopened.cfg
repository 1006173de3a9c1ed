\* One hold that treasury forgets, remembers and forgets again.
SPECIFICATION Spec
CONSTANTS
    RateScale   = 10
    Upscale     = 10
    Downscale   = 1
    MaxAmount   = 3
    InvoiceIds  = {i1}
    Margin      = 1
    MaxTime     = 1
    ApiReasons  = {"REPAID"}
    Originals  <- SomeOriginals
    Quotes     <- SomeQuotes
    Limits     <- SomeLimits
    Snapshots  <- QuietSnapshots
PROPERTIES
    OpensWithItsSnapshot
