SPECIFICATION TtySpec
CONSTANTS
    VGA_HEIGHT = 3
    VGA_WIDTH = 2
    Cells = 14
    Byte = 4
    Glyphs <- MCGlyphs
    Behind <- MCBehind
INVARIANTS
    TtyTypeOK
PROPERTIES
    OnlyWayOff
