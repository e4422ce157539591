SPECIFICATION MCSpec
CONSTANTS
    NTag = 3
    N = 2
    B = 2
    M = 2
    Line <- MCLine
    Byte = {0, 1}
    Zero = 0
    Lens = {1, 2}
    Images <- MCImages
    MaxWrites = 2
    MaxBoots = 1
INVARIANTS TypeOK ValidPrefix UniqueTags Coherent WriteFindsLive
PROPERTY ImplementsFlat
CHECK_DEADLOCK FALSE
