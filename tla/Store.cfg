SPECIFICATION StoreSpec
CONSTANTS
    Requests = {s}
    ScheduleRequests = {s}
    ErrorCode = {"CODE"}
    FailureDisposition = {"PROVIDER_REJECTED"}
    MaxAttempts = 2
    Sessions = {1, 2}
    Times = {0}
    Results = {x, y}
    NoResult = NoResult
    MaxRows = 3
CONSTRAINT BoundedRows
INVARIANTS
    RequestMatchesAttempts
    PendingHasBudget
    SuccessIsJustified
PROPERTIES HistoryIsImmutable ImplementsLedger
CHECK_DEADLOCK FALSE
