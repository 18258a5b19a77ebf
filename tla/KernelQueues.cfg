SPECIFICATION Spec
CONSTANTS
    Task <- MCTask
    Obj <- MCObj
    EventList <- MCEventList
    Group <- MCGroup
    H = H
    M = M
    L = L
    Idle = Idle
    NoTask = NoTask
    Item = {1, 2}
    Bits = {1, 2}
    MAX_PRIORITIES = 4
    TICKS = 3
    MAX_PENDED = 1
    MAX_LOCKED = 2
    XLENGTH = 6
    LENGTH_BYTES = 2
    TICK_PERIOD_MS = 10
    Loads = {"lwip", "recv", "send", "sem", "fifo", "mailbox", "control", "reap", "periodic", "event", "sync"}
INVARIANTS KernelTypeOK RunsHighest WokenInTime NoLostWakeup EventsMet ControlHolds
PROPERTIES NeverEarly ImplementsFifo
