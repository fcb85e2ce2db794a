SPECIFICATION Spec
CONSTANTS
    NtoaSize = 8
    CharMod = 8
    ShortMod = 16
    IntMod = 32
    LongMod = 64
    PointerDigits = 4
    BufferBytes = 7
    Jobs <- MCJobs
\* A call ends when it returns.
CHECK_DEADLOCK FALSE
INVARIANT BufferHoldsTheText
PROPERTY NumbersAsInC
PROPERTY PaddedToWidth
