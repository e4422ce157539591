SPECIFICATION Spec
CONSTANTS
    CTR_ROW = 2
    CTR_COL = 2
    Beyond = 1
    Color = {0, 1}
    Black = 0
    Lens = {1, 2}
    Period = 2
    NR_MAP = 8
    NSpace = 2
    MaxRuns = 2
    SlowRuns = TRUE
INVARIANTS TypeOK StaleMarked 
PROPERTY Drawn
CHECK_DEADLOCK FALSE
