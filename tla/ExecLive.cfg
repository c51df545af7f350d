SPECIFICATION FairSpec
CONSTANTS
    Requests = {b1, b2}
    ScheduleRequests = {}
    ErrorCode = {"ENTITLEMENT"}
    FailureDisposition = {"ENTITLEMENT_UNAVAILABLE", "PROVIDER_REJECTED",
                          "INCOMPLETE_RESPONSE", "SESSION_EVIDENCE_UNAVAILABLE"}
    MaxAttempts = 2
    Sessions = {}
    Times = {}
    Results <- MCResults
    NoResult = NoResult
    MaxInFlight = 2
    Faults = {"timeout", "disconnect"}
    MaxRuns = 1
    MaxCrashes = 0
    MaxNotices = 0
    NoOne = NoOne
    NoArtifact = NoArtifact
INVARIANTS
    NoOrphanAttempt
PROPERTIES
    ExecutionEnds
    RunClosesPlan
CHECK_DEADLOCK FALSE
