\* Threads, timeouts and spurious wakeups around a ring of five bytes.  No
\* chunk need come, and the player may stop at any time.
CONSTANTS
    Size = 5
    Sizes = {3, 5}
    Offsets = {1, 2}
    Reads = {3}
    MaxPreview = 2
    StalePreview = {1, 3}
    MaxChunks = 3
    MaxSpurious = 1
SPECIFICATION FairSpec
INVARIANTS TypeOK NoLostWakeup PutAheadByHeaders
PROPERTIES PreviewStaysInside ReadReturns WriteReturns ImplementsChannel
CHECK_DEADLOCK FALSE
