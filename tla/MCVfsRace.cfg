SPECIFICATION Spec
CONSTANTS
    Bases <- MCBases
    Hidden <- MCHidden
    Garbled = "junk"
    Archive <- PlainArchive
    Sizes = {2}
    Texts <- MCTexts
    KeysDuringBoot = TRUE
    MaxFiles = 5
INVARIANT NothingIsLost
