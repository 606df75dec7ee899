\* Two chunks on both sides of the end of a lap, each delivered up to twice,
\* with every kind of message.
CONSTANTS
    Me = me
    Server = s
    Ids = {1, 2}
    Size = 2
    MaxCopies = 2
    Room = 1
    MaxDeliver = 1
    Foreign = {"deliver", "request", "bufmap", "bufmapRequest"}
    Duplicates = TRUE
    Garbles = {me}
    MaxInFlight = 2
SPECIFICATION PipelineSpec
INVARIANTS BuffersAgree ListedIsHeldOrOld
PROPERTIES NeverRewinds ImplementsBuffer
CHECK_DEADLOCK FALSE
