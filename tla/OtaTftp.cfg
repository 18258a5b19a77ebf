SPECIFICATION MCSpec
CONSTANTS
    short = short
    even = even
    large = large
    bad = bad
    p1 = p1
    p2 = p2
    Images = {short, even, large, bad}
    ImageLen <- MCLen
    Good = {short, even}
    NumSlots = 2
    SlotBlocks = 4
    SectorBlocks = 2
    Ports = {p1, p2}
    NoPort = NoPort
    Retransmits = 1
    MaxDups = 1
    MaxResends = 1
    MaxFaults = 1
INVARIANTS AlwaysBoots
PROPERTIES RunningUntouched AckMeansStored TransferEnds
