SPECIFICATION MCSpec
CONSTANTS
    Units = {"ets", "uart", "mactime"}
    a = a
    b = b
    app = app
    Timers = {a, b}
    Tasks = {app}
    Owner <- OwnedByApp
    SelfArm = {a, b}
    End = End
    NotArmed = NotArmed
    TimerTask = TimerTask
    W = 12
    MARGIN = 1
    SLACK = 2
    Delays = {0, 2}
    MaxLag = 1
    WrapCompare = TRUE
    Preempt = FALSE
    MacTimers = {u1, u2}
    u1 = u1
    u2 = u2
    LOW = 4
    MAX_COUNT = 25
    LATE = 1
    READ_GAP = 1
    DATA_BITS = 2
    TD = 3
    FIRST_EDGE = 1
    LEAD = 1
    TICK_COUNTS = 8
    PATIENCE = 1
INVARIANTS ListKept NeverMissed UartWhole
PROPERTIES NeverEarly
