SPECIFICATION Spec
CONSTANTS
    c1 = c1
    c2 = c2
    o1 = o1
    o2 = o2
    h1 = h1
    h2 = h2
    h3 = h3
    Owners = {o1, o2}
    NoOwner = NoOwner
    Work = {k1}
    Handlers = {h1, h2}
    OwnerOf <- MCOwnerOfTwo
    LeaseDuration = 2
    RenewEvery = 1
    Deadlines = {4}
    Commands = {c1, c2}
    NoCommand = NoCommand
    MaxOverlaps = 1
    MaxTime = 4
    MaxFaults = 2
INVARIANTS TypeOK LiveLeaseBacked NewestFenceBacked FenceUnique DiscardIsFinal
PROPERTY FencesOnlyGrow
SYMMETRY MCSymmetry
CHECK_DEADLOCK FALSE
