\* One chunk, which one peer gets from the server and offers to the other.
CONSTANTS
    Peer = {p, q}
    Server = s
    Chunks = {1}
    Room = 1
    MaxDeliver = 1
    Foreign = {}
    Duplicates = FALSE
    Garbles = {}
    MaxInFlight = 1
SPECIFICATION FairSend
PROPERTY AcceptedIsSent
CHECK_DEADLOCK FALSE
