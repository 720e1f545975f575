\* The network misbehaves until it settles; frames are valid, and no other
\* thread opens a descriptor.
SPECIFICATION FairSpec
CONSTANTS
    FDs = {s1, s2}
    NoSock = NoSock
    Orphan = Orphan
    Ended = Ended
    MaxWaitAlive = 2
    Port = 1
    MaxInFlight = 1
    MaxBad = 0
    ForeignFDs = FALSE
    Settles = TRUE
PROPERTY StableLogin
\* A SIGPIPE ends the process: the system may stop.
CHECK_DEADLOCK FALSE
