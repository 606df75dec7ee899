\* Two peers that run this program and the server; a buffer of one chunk.
CONSTANTS
    Peer = {p, q}
    Server = s
    Chunks = {1, 2}
    Room = 1
    MaxDeliver = 1
    Foreign = {}
    Duplicates = TRUE
    Garbles = {}
    MaxInFlight = 2
SPECIFICATION FairSpec
INVARIANTS TypeOK AcceptsFromFirst
PROPERTIES Reaches ImplementsBroadcast
CHECK_DEADLOCK FALSE
