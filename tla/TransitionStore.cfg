SPECIFICATION Spec
CONSTANTS
    a = a
    b = b
    c1 = c1
    c2 = c2
    c3 = c3
    Calls = {c1, c2, c3}
    Transitions <- MCTransitions
    Batches <- MCBatches
INVARIANTS TypeOK TablesAgree NoStandstill
PROPERTIES ImplementsLog ExactReplayAccepted
CHECK_DEADLOCK FALSE
SYMMETRY MCSymmetry
