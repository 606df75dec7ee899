\* Every kind of message; one chunk may fill the ring twice over.
CONSTANTS
    RingRoom = 1
    MaxFlush = 2
    MaxMessages = 2
SPECIFICATION FairSpec
INVARIANTS TypeOK NoCircularWait NoRace ReleasesAll
PROPERTIES StopIsFollowed CriticalSectionsEnd
CHECK_DEADLOCK FALSE
