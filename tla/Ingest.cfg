SPECIFICATION Spec
CONSTANTS
    Quotes <- MCQuotes
    Times = {0, 3, 5, 7}
    Interval = 2
    Lateness = 1
    Retention = 2
    MaxSilence = 2
    MaxQuotes = 3
    MaxCrashes = 1
INVARIANTS
    ExpiredStaysOut
    StateIsBounded
    SilenceIsReported
    BarsMatchLog
CHECK_DEADLOCK FALSE
