SPECIFICATION FairSpec
CONSTANTS
    Word = 5
    MaxWork = 3
    CodecMayHang = TRUE
INVARIANTS
    TypeOK
    AcceptedIsOwn
    OnceUntilFailure
    StopReaps
PROPERTIES
    ImplementsRpc
    CommandEnds
    WorkerFollowsClient
