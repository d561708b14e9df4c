SPECIFICATION Spec
CONSTANTS
    a = a  b = b  sig = sig  kid = kid  fork = fork  meet = meet
    meetA = meetA  race = race  meetSig = meetSig  raceA = raceA  nap = nap
    Owners = {}
    NoOwner = NoOwner
    NoKey = NoKey
    Kind <- MCKind
    Undoes <- MCUndoes
    Branches <- MCBranches
    FanOutLimit = 2
    Policy <- MCPolicy
    Timeout = 1
    DurationBits = 6
    MaxAttempts = 9
    Tenants = {"", "x", "y"}
    MaxLeases = 6
    MaxSteps = 5
    ByteOrder <- MCByteOrder
    Collation <- MCCaseless
    Times = {1, 2, 3}
    PageLimits = {1, 2, 3}
    MaxEvents = 4
    MaxHistory = 7
INVARIANT PageAccepted
CHECK_DEADLOCK FALSE
