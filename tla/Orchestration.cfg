SPECIFICATION FairSpec
CONSTANTS
    a = a  b = b  c = c  fork = fork  meet = meet  nap = nap
    sig = sig  appr = appr  race = race  kid = kid
    Owners = {}
    NoOwner = NoOwner
    NoKey = NoKey
    Kind <- MCKind
    Undoes <- MCUndoes
    Branches <- MCBranches
    FanOutLimit = 2
    Definitions <- MCDefinitions
    Policy <- MCPolicy
    Timeout = 1
    DurationBits = 8
    Allowance = 2
    MaxPauses = 1
    MaxTime = 3
CHECK_DEADLOCK FALSE
INVARIANTS TypeOK StepsInOrder VerdictIsKnown WinnerIsEarliest
PROPERTY InstanceFinishes
