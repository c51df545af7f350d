SPECIFICATION FairSpec
CONSTANTS
    ingest = ingest
    other = other
    q = q
    b = b
    m1 = m1
    m2 = m2
    k = k
    none = none
    Writers = {ingest, other}
    QuoteStreams = {q}
    BarStreams = {b}
    Inputs <- MCInputs
    NoRaw = NoRaw
    PageLimit = 1
    MaxPosition = 2
INVARIANTS
    StreamsAreDense
    RawOnce
    ProjectionIsReplay
    PagesAreAccepted
PROPERTY TransactionsEnd
CHECK_DEADLOCK FALSE
