\* Bytes of two bits, chunks of four bits, pages of two bytes.
SPECIFICATION Spec
CONSTANTS
    PageBytes = 2
    ByteBits = 2
    ChunkBits = 4
    MaxFrame = 11
    MemMaps <- SmallMaps
INVARIANT TypeOK
INVARIANT HandsOutUsableFrames
INVARIANT EveryFrameAccounted
INVARIANT OverrunIsOneByte
\* A machine whose memory map has no room for the bitmap faults and stops.
CHECK_DEADLOCK FALSE
PROPERTY ImplementsAllocator
