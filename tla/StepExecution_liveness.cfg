SPECIFICATION FairSpec
CONSTANTS
    p1 = p1  p2 = p2  s0 = s0  s1 = s1  k1 = k1  h1 = h1  c1 = c1  c2 = c2
    Owners = {p1, p2}
    NoOwner = NoOwner
    NoKey = NoKey
    Kind <- MCAllKinds
    Undoes <- MCUndoes
    Branches <- MCBranches
    Done = {s0}
    Policy <- MCPolicyOnce
    Timeout = 2
    DurationBits = 8
    LeaseDuration = 1
    Deadlines = {3, 9}
    Commands = {}
    OperatorActions = {}
    ScheduleBy = 1
    MaxScheduled = 1
    MaxTime = 3
    MaxFaults = 1
CHECK_DEADLOCK FALSE
PROPERTY StartedAttemptSettles
