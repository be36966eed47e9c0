\* Two paths of different delay; numbers do not wrap.
CONSTANTS
    Flows = {f1}
    Paths = {p1, p2}
    SeqSpace = 8
    MaxFrames = 3
    MaxRestarts = 0
SPECIFICATION Spec
INVARIANT EliminatesOnlyRepetitive
CHECK_DEADLOCK FALSE
