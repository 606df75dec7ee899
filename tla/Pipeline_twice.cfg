\* Offers only; the network loses and delays but duplicates nothing.
CONSTANTS
    Me = me
    Server = s
    Ids = {0, 1, 2}
    Size = 3
    MaxCopies = 2
    Room = 3
    MaxDeliver = 2
    Foreign = {}
    Duplicates = FALSE
    Garbles = {}
    MaxInFlight = 3
SPECIFICATION PipelineSpec
INVARIANT WrittenOnce
CHECK_DEADLOCK FALSE
