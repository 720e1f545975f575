\* Two clients that ask and send when they like, a center and a file server that
\* answer in time, late or not at all, requests that are lost and servers that go
\* away.
SPECIFICATION FairSpec
CONSTANTS
    Clients = {c1, c2}
    MaxReq = 2
    MaxBlocks = 1
INVARIANT TypeOK
INVARIANT OwnJobUncrossed
INVARIANT StateMatchesAnswer
INVARIANT Delivered
PROPERTY RequestEnds
\* The clients that have used up their requests may stop.
CHECK_DEADLOCK FALSE
