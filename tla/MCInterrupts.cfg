SPECIFICATION Spec
CONSTANTS
    MaxKeys = 2
    MaxReads = 2
    MaxDepth = 2
INVARIANTS TypeOK HandlerAtomic ReadAccounted 
PROPERTIES LostOnlyInSlot HaltWakes LineServed
CHECK_DEADLOCK FALSE
