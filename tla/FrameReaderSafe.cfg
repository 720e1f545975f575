\* Bytes 1 and 2 begin a frame; bodies of up to three such bytes, all of up
\* to two; three frames, two connections.
SPECIFICATION FairSpec
CONSTANTS
    Byte = {1, 2, 3}
    H1 = 1
    H2 = 2
    Bodies <- MCBodies
    Field <- MCField
    FieldSize = 2
    Length <- MCLength
    Shortest <- MCShortest
    BufferSize <- MCBufferSize
    MaxSent = 3
    MaxLost = 1
PROPERTY
    Implements
    NoFrameWaits
CHECK_DEADLOCK FALSE
