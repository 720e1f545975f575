\* Everything that can go wrong: invalid frames, so that rx closes the
\* connection too, and other threads that open and close descriptors.
SPECIFICATION Spec
CONSTANTS
    FDs = {s1, s2}
    NoSock = NoSock
    Orphan = Orphan
    Ended = Ended
    MaxWaitAlive = 2
    Port = 1
    MaxInFlight = 1
    MaxBad = 1
    ForeignFDs = TRUE
    Settles = FALSE
INVARIANT TypeOK
INVARIANT NoLostWakeup
INVARIANT NeverClosesOthers
INVARIANT NoLeak
\* A SIGPIPE ends the process: the system may stop.
CHECK_DEADLOCK FALSE
