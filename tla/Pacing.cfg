SPECIFICATION Spec
CONSTANTS
    probe = probe
    executor = executor
    c1 = c1
    c2 = c2
    f = f
    g = g
    h = h
    Callers = {probe, executor}
    Requests <- MCRequests
    Cooldown <- MCCooldown
    ContractMax <- MCContractMax
    RollingMax <- MCRollingMax
    ContractWindow = 2
    RollingWindow = 2
    GlobalWindow = 1
    GlobalMax = 3
    MaxCooldown = 3
    MaxLag = 1
    MaxTime = 4
    MaxAdmitted = 3
SYMMETRY FingerprintSymmetry
INVARIANTS
    CooldownKept
    LimitsKept
    PolicyMatchesLedger
CHECK_DEADLOCK FALSE
