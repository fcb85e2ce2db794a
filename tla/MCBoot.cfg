SPECIFICATION Spec
CONSTANTS
    PoolBytes = 67108864
    Displays <- RealDisplays
    MaxTicks = 2
    MaxKeys = 2
    MaxFrames = 3
INVARIANT SetUpBeforeUse
INVARIANT ConsolesApart
INVARIANT OneInTheKernel
PROPERTY InterruptsAreServed
CHECK_DEADLOCK FALSE
