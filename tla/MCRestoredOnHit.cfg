SPECIFICATION Spec
CONSTANTS
    NR_BP = 3
    NAddr = 2
    Opcode = {"mov", "jmp"}
    INT3 = "int3"
    Code <- MCPlain
    MaxSteps = 1
PROPERTY RestoredOnHit
