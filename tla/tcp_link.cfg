\* Two packets of commands in flight over a narrow connection that may be lost.
SPECIFICATION FairSpec
CONSTANTS
    BufferSize = 7
    Threshold = 2
    IndirectMax = 4
    PacketMax = 2
    Window = 2
    Pipeline = 2
    Shapes <- MCShapes
    MaxPackets = 2
    MaxConnections = 2
    LinkLoss = TRUE
INVARIANTS
    QueueSound
    StreamSound
    DataToOwner
PROPERTIES
    CallEnds
CHECK_DEADLOCK FALSE
