SPECIFICATION Spec
CONSTANTS
    File = {3, 4}
    Size <- MCSize
    Start <- MCStart
    Disk <- MCDisk
    Offs <- MCOffs
    Reqs = {0, 1, 2, 5, 9}
    Raw <- MCRaw
    Mod = 16
    NR_SEC_CACHE = 2
    SectorSize = 4
    Long = 2
    Junk = 99
INVARIANTS TypeOK  Mirrors
PROPERTIES  ReadReturns
