SPECIFICATION Spec
CONSTANTS
    W = 4
    Words = {1, 2}
    Sizes = {2, 4}
INVARIANTS LongSum  
