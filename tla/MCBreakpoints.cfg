SPECIFICATION Spec
CONSTANTS
    NR_BP = 3
    NAddr = 2
    Opcode = {"mov", "jmp"}
    INT3 = "int3"
    Code <- MCCode
    MaxSteps = 1
INVARIANTS TypeOK PoolPartition PatchedOnly
PROPERTY WatchNoMiss
