SPECIFICATION Spec
CONSTANTS
    B = 2
    NPage = 19
    NFrame = 9
    KPage = 10
    KFrame = 5
    NPT = 2
    Video = {1}
    LowKernel = {0, 1}
    UserPage = {2, 3, 4}
    StackFirst = 9
    Elfs <- MCElfs
    Brks = {8, 9}
    NotPresent = 99
    Size = 2
    Lens = {2}
INVARIANTS TypeOK LoadedInPlace FramesPrivate HeapMapped
PROPERTY ImplementsWalk
