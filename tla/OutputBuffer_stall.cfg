\* One lap of the buffer, every chunk delivered at most once.
CONSTANTS
    Size = 5
    Ids = {0, 1, 2, 3, 4}
    MaxCopies = 1
SPECIFICATION FairSpec
PROPERTY StreamGoesOn
CHECK_DEADLOCK FALSE
