SPECIFICATION Spec
CONSTANTS
    Buckets <- MCBuckets
    PageBytes = 8
    HeaderBytes = 2
    Frames <- MCFrames
    FirstPool <- MCPool
    Requests <- PageRequests
    MaxLive = 4
\* An exhausted heap faults and the machine stops.
CHECK_DEADLOCK FALSE
INVARIANT BlockFitsItsPages
