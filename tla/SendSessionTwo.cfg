\* Two clients ask at the same time.
SPECIFICATION Spec
CONSTANTS
    Clients = {c1, c2}
    MaxReq = 2
    MaxBlocks = 1
INVARIANT OwnJob
\* A client that has used up its requests may stop.
CHECK_DEADLOCK FALSE
