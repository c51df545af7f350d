SPECIFICATION Spec
CONSTANTS
    Requests = {b, s}
    ScheduleRequests = {s}
    ErrorCode = {"CONNECTION_LOST", "PACING_VIOLATION", "INFORMATIONAL", "ENTITLEMENT"}
    FailureDisposition = {"ENTITLEMENT_UNAVAILABLE", "PROVIDER_REJECTED",
                          "INCOMPLETE_RESPONSE", "SESSION_EVIDENCE_UNAVAILABLE"}
    MaxAttempts = 2
    Sessions = {}
    Times = {}
    Results <- MCResults
    NoResult = NoResult
    MaxInFlight = 1
    Faults = {"disconnect", "crash"}
    MaxRuns = 2
    MaxCrashes = 1
    MaxNotices = 1
    NoOne = NoOne
    NoArtifact = NoArtifact
INVARIANTS
    NoOrphanAttempt
    SnapshotAlwaysVerifies
    PublishedMatchesArtifact
CHECK_DEADLOCK FALSE
