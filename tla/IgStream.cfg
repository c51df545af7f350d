CONSTANTS
    e1 = e1
    e2 = e2
    HB = HB
    Universes <- MCUniverses
    FirstUniverse <- MCFirst
    ReconnectAttempts = 2
    ReconnectCycles = 1
    MaxFaults = 3
SPECIFICATION Spec
INVARIANTS OneConnection ReadyIsEarned StoppedIsClosed
PROPERTIES StreamRecovers
CHECK_DEADLOCK FALSE
