SPECIFICATION Spec
CONSTANTS
    MaxKeys = 1
    MaxReads = 2
    MaxDepth = 2
INVARIANT IntrNoAssert
CHECK_DEADLOCK FALSE
