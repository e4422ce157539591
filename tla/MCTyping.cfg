SPECIFICATION Spec
CONSTANTS
    NR_IRQ_HANDLE = 4
    Irq = {0, 1, 14}
    Routine = {"ide_writeback", "ide_intr", "timer_event", "keyboard_event"}
    Adds <- MCAdds
    Key = {1, 2}
    SIZE = 3
    Height = 3
    HitSpeed = 2
    NewEvery = 2
    MaxLag = 3
INVARIANTS TypeOK Listed ListsPart PoolSuffices HaltEnabled
 
