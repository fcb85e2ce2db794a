SPECIFICATION FairSpec
CONSTANTS
    Levels = 3
    Idx <- MCIdx
    Frames <- MCFrames
    Zero = 1
    Pools <- MCPools
    Kept <- MCKept
    Direct <- MCDirect
    LimineRoot = 2
    LimineTables <- MCTables
    Extras <- MCExtras
    VideoMap <- MCVideo
    UserPages <- MCUser
    DemandPages <- MCDemand
CONSTRAINT MCBound
\* A machine whose handler gives up halts.
CHECK_DEADLOCK FALSE
INVARIANT TablesFormATree
PROPERTY FaultsAreServed
PROPERTY ImplementsAddressSpace
