SPECIFICATION Spec
CONSTANTS
    Units = {"timers", "late", "clock", "dhcp", "port", "flash", "i2c", "force",
             "http", "sntp", "mqtt", "onewire"}
    TICKS = 6
    Timer = {t1, t2}
    t1 = t1
    t2 = t2
    Periods = {1, 2}
    QUEUE_LENGTH = 2
    Never = Never
    Caller = {a, b}
    a = a
    b = b
    hi = hi
    I2cTask = {a, b, hi}
    High = {hi}
    WRAP = 6
    SLEW_PERIOD = 3
    Invalid = Invalid
    MAX_HELD = 1
    WRAP_IN_CALL = FALSE
    MAX_TIME = 8
    Client = {c1, c2}
    Nobody = Nobody
    MAX_LEASES = 2
    FIRST = 2
    OCTET = 4
    LEASE_TIME = 2
    HALF = 3
    MAX_NESTING = 2
    MAX_STASH = 2
    CHIP_SIZE = 12
    PAGE_SIZE = 4
    SECTOR_SIZE = 12
    SPI_WRITE_MAX_SIZE = 2
    SPI_READ_MAX_SIZE = 3
    Erased = Erased
    BUFFER_SIZE = 4
    MAX_IMAGE_SIZE = 8
    HUGE = 7
    MAX_FILE = 7
    SNTP_NUM_SERVERS_SUPPORTED = 4
    SNTP_RETRY_TIMEOUT = 3
    SNTP_RETRY_TIMEOUT_MAX = 30
    MAX_PENDING = 3
    KEEPALIVE = 3
    YIELD_TIMEOUT = 1
    COMMAND_TIMEOUT = 2
    MQTT_MAX_FAIL_ALLOWED = 2
    MAX_GAP = 1
    CutIn = {"yield", "connect"}
    BITS = 4
    FAMILY_BITS = 2
    COMMAND_BITS = 2
    MAX_DEVICES = 6
INVARIANTS TimersOnTime TimersObeyed ClockKept  LeasesExclusive
           PortHolds FlashExact  UpdateWhole KeepsAsking PeerJudged SearchWhole
