SPECIFICATION FairSpec
CONSTANTS
    Capacity = 3
    MaxRecords = 7
INVARIANTS
    EveryRecordAccounted
    DurableIsPrefix
    StoppedMeansComplete
    OverflowStopsStorage
PROPERTIES
    ShutdownCompletes
CHECK_DEADLOCK FALSE
