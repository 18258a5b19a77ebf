CONSTANTS
    k1 = k1
    k2 = k2
    v1 = v1
    v2 = v2
    None = None
    Keys <- MCKeys
    Values <- MCValues
    PayloadLen <- MCPayloadLen
    RegionSize = 44
    MAX_KEY_ID = 2
    Deletable = {}
    MaxCrashes = 0
    MaxErrors = 0
    MaxReformats = 0
SPECIFICATION Spec
INVARIANTS SetObserved
PROPERTIES ImplementsMap
