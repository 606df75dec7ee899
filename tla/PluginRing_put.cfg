\* The write pointer after one chunk.
CONSTANTS
    Size = 5
    Sizes = {3}
    Offsets = {1}
    Reads = {2}
    MaxPreview = 2
    StalePreview = {0}
    MaxChunks = 3
    MaxSpurious = 1
SPECIFICATION Spec
INVARIANT PutBehindCount
CHECK_DEADLOCK FALSE
