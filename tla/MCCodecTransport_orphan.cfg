SPECIFICATION FairSpec
CONSTANTS
    Word = 5
    MaxWork = 1
    CodecMayHang = TRUE
PROPERTIES
    ParentDeathEndsWorker
