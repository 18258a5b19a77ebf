CONSTANTS
    k1 = k1
    k2 = k2
    v1 = v1
    v2 = v2
    None = None
    Keys <- MCKeys
    Values <- MCValues
    PayloadLen <- MCPayloadLen
    RegionSize = 36
    MAX_KEY_ID = 1
    Deletable = {k1}
    MaxCrashes = 1
    MaxErrors = 1
    MaxReformats = 1
SPECIFICATION Spec
INVARIANT NoOverwrite
INVARIANT LogFits
