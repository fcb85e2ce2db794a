SPECIFICATION ShellSpec
CONSTANTS
    Bases <- MCBases
    Hidden = {}
    Garbled = "junk"
    Archive <- MCArchive
    Sizes = {}
    Texts <- MCTexts
    KeysDuringBoot = FALSE
    MaxFiles = 3
    MaxCommandLen = 3
    IntBound = 8
    SizeLimit = 3
    LargestBucket = 5
    Numbers <- MCNumbers
\* A command that faults stops the machine.
CHECK_DEADLOCK FALSE
INVARIANT ShellTypeOK
INVARIANT LineHasItsBlock
INVARIANT HeapBalanced
INVARIANT PendingCountIsAhead
PROPERTY CountIsReported
