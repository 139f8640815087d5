SPECIFICATION Spec
CONSTANTS
    MaxCandidates = 3
    Listed <- MCListed
    Legacy <- MCLegacy
    Colors = 2
    InSlots = 1
    OutSlots = 2
    MaxImages = 2
    MaxPump = 2
    Streams <- MCStreams
    IdleLimit = 2
    MaxOps = 7
    MaxPts = 2
INVARIANTS
    TypeOK
    NoLeak
    PairedUnlessStray
    EosIsLast
    SuccessIsComplete
PROPERTY PipeEnds
