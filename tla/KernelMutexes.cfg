SPECIFICATION Spec
CONSTANTS
    Task <- MCTask
    Obj <- MCObj
    EventList <- MCEventList
    Group <- MCGroup
    H = H
    M = M
    L = L
    Idle = Idle
    NoTask = NoTask
    Item = {1, 2}
    Bits = {1, 2}
    MAX_PRIORITIES = 4
    TICKS = 3
    MAX_PENDED = 1
    MAX_LOCKED = 2
    XLENGTH = 6
    LENGTH_BYTES = 2
    TICK_PERIOD_MS = 10
    Loads = {"mutex", "recursive", "stream", "messageH", "messageM", "messageIW", "messageIR"}
INVARIANTS NoAssertFails Inheritance  StreamAwake
