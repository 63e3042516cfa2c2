SPECIFICATION Spec
CHECK_DEADLOCK FALSE
SYMMETRY Threads
CONSTANTS
    Pool = {p1, p2}
    Signal = 2
    Value = {1, 2}
    Cells = 2
    MaxCmds = 4
INVARIANTS
    AtRestAllAgree
    SignalNeedsRails
    CellsWellSpent
    OkMeansBurned
