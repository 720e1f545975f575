\* Two clients, and a table of descriptors that leaks can fill.
SPECIFICATION Spec
CONSTANTS
    MaxFd = 5
    MaxSess = 2
INVARIANT TypeOK
INVARIANT OwnOnly
INVARIANT ClientsClosed
INVARIANT NumbersHold
CHECK_DEADLOCK FALSE
