SPECIFICATION Spec
CONSTANTS
    Buckets <- MCBuckets
    PageBytes = 8
    HeaderBytes = 2
    Frames <- MCFrames
    FirstPool <- MCPool
    Requests <- FittingRequests
    MaxLive = 4
\* An exhausted heap faults and the machine stops.
CHECK_DEADLOCK FALSE
INVARIANT TypeOK
INVARIANT HeapIsConsistent
INVARIANT BlockFitsItsPages
PROPERTY GrowsOnlyWhenFull
PROPERTY ImplementsBlockAllocator
