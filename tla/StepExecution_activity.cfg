SPECIFICATION Spec
CONSTANTS
    p1 = p1  p2 = p2  s0 = s0  s1 = s1  k1 = k1  h1 = h1  c1 = c1  c2 = c2
    Owners = {p1, p2}
    NoOwner = NoOwner
    NoKey = NoKey
    Kind <- MCActivity
    Undoes <- MCUndoes
    Branches <- MCBranches
    Done = {}
    Policy <- MCPolicy
    Timeout = 2
    DurationBits = 8
    LeaseDuration = 2
    Deadlines = {9}
    Commands = {}
    OperatorActions = {}
    ScheduleBy = 1
    MaxScheduled = 1
    MaxTime = 5
    MaxFaults = 2
SYMMETRY MCSymmetry
CHECK_DEADLOCK FALSE
INVARIANTS TypeOK HandlerOncePerAttempt StartBeforeEffect CompletedIsAccounted DeadLetterLosesNothing
