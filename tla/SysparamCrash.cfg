CONSTANTS
    k1 = k1
    k2 = k2
    v1 = v1
    v2 = v2
    None = None
    Keys <- MCKeys
    Values <- MCValues
    PayloadLen <- MCPayloadLen
    RegionSize = 40
    MAX_KEY_ID = 2
    Deletable = {k1}
    MaxCrashes = 1
    MaxErrors = 0
    MaxReformats = 0
SPECIFICATION Spec
INVARIANTS Recoverable KeyIdsIncrease
PROPERTIES Isolation BootSucceeds
