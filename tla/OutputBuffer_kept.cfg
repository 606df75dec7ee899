\* What a full slot does to a new chunk.
CONSTANTS
    Size = 3
    Ids = {2, 3, 4, 5, 6, 7, 8}
    MaxCopies = 1
SPECIFICATION Spec
PROPERTY NewChunkKept
CHECK_DEADLOCK FALSE
