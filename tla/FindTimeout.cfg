SPECIFICATION Spec
CONSTANTS
    Requests = {b}
    ScheduleRequests = {}
    ErrorCode = {"CONNECTION_LOST", "PACING_VIOLATION", "INFORMATIONAL", "ENTITLEMENT"}
    FailureDisposition = {"ENTITLEMENT_UNAVAILABLE", "PROVIDER_REJECTED",
                          "INCOMPLETE_RESPONSE", "SESSION_EVIDENCE_UNAVAILABLE"}
    MaxAttempts = 2
    Sessions = {}
    Times = {}
    Results <- MCResults
    NoResult = NoResult
    MaxInFlight = 1
    Faults = {"timeout"}
    MaxRuns = 1
    MaxCrashes = 0
    MaxNotices = 0
    NoOne = NoOne
    NoArtifact = NoArtifact
INVARIANTS
    OutcomesReplay
CHECK_DEADLOCK FALSE
