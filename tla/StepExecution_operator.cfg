SPECIFICATION Spec
CONSTANTS
    p1 = p1  p2 = p2  s0 = s0  s1 = s1  k1 = k1  h1 = h1  c1 = c1  c2 = c2
    Owners = {p1, p2}
    NoOwner = NoOwner
    NoKey = NoKey
    Kind <- MCAllKinds
    Undoes <- MCUndoes
    Branches <- MCBranches
    Done = {s0}
    Policy <- MCPolicy
    Timeout = 1
    DurationBits = 8
    LeaseDuration = 1
    Deadlines = {9}
    Commands = {c1, c2}
    OperatorActions = {"pause", "resume", "cancel", "terminate", "retryActivity", "compensate", "resolveCompensation"}
    ScheduleBy = 1
    MaxScheduled = 1
    MaxTime = 2
    MaxFaults = 2
SYMMETRY MCSymmetry
CHECK_DEADLOCK FALSE
INVARIANTS RetryOnlyKnownFailure SuccessIsReal ChildReportable
PROPERTIES StartsOnlyWhileRunning NoEffectAfterResolution HistoryBreaksOnlyBlindly
