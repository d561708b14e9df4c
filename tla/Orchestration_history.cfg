SPECIFICATION Spec
CONSTANTS
    a = a  b = b  c = c  fork = fork  meet = meet  nap = nap
    sig = sig  appr = appr  race = race  kid = kid
    Owners = {}
    NoOwner = NoOwner
    NoKey = NoKey
    Kind <- MCKind
    Undoes <- MCUndoes
    Branches <- MCBranches
    FanOutLimit = 2
    Definitions <- MCForking
    Policy <- MCPolicyOnce
    Timeout = 1
    DurationBits = 8
    Allowance = 2
    MaxPauses = 0
    MaxTime = 5
CHECK_DEADLOCK FALSE
INVARIANT HistoryReplayable
