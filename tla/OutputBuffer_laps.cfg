\* A stream joined at chunk 2 that laps the buffer twice.
CONSTANTS
    Size = 3
    Ids = {2, 3, 4, 5, 6, 7, 8}
    MaxCopies = 1
SPECIFICATION Spec
INVARIANTS TypeOK SlotsConsistent MaximumIsNewest
CHECK_DEADLOCK FALSE
