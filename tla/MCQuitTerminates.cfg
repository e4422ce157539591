SPECIFICATION Spec
CONSTANTS
    MaxKeys = 1
    MaxReads = 2
    MaxDepth = 2
PROPERTY QuitTerminates
CHECK_DEADLOCK FALSE
