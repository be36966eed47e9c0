\* One flow over two paths; the numbers wrap once or the talker restarts once.
CONSTANTS
    Flows = {f1}
    Paths = {p1, p2}
    SeqSpace = 7
    MaxFrames = 8
    MaxRestarts = 1
SYMMETRY PathSymmetry
SPECIFICATION Spec
INVARIANTS
    TypeOK
    Canonical
    RecordsWhatPassed
    PassesOnce
    EliminationExplained
PROPERTY ImplementsRecovery
CHECK_DEADLOCK FALSE
