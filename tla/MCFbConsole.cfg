SPECIFICATION Spec
CONSTANTS
    Cols = 4
    Rows = 3
    Glyphs <- MCGlyphs
    Screens <- MCScreens
    Palettes <- MCPalettes
    DefaultText <- MCDefault
    Black = "black"
    MaxCalls = 4
INVARIANT TypeOK
INVARIANT QueueIsExact
INVARIANT FbShowsGrid
PROPERTY CursorRowOnScreen
PROPERTY ImplementsScreen
