SPECIFICATION Spec
CONSTANTS
    Bases <- MCBases
    Hidden <- MCHidden
    Garbled = "junk"
    Archive <- PlainArchive
    Sizes = {2}
    Texts <- MCTexts
    KeysDuringBoot = FALSE
    MaxFiles = 5
INVARIANT TypeOK
INVARIANT NothingIsLost
PROPERTY ImplementsFileStore
