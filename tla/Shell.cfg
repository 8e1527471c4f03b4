SPECIFICATION FairSpec
CONSTANTS
    VGA_HEIGHT = 3
    VGA_WIDTH = 4
    Cells = 32
    Byte = 8
    Glyphs <- MCGlyphs
    Behind <- MCBehind
    Keys <- MCKeys
    MAX_ARGS = 3
    LineMax = 7
    VarRoom = 4
    Commands <- MCCommands
    Env <- MCEnv
    Prompt <- MCPrompt
    Banner <- MCBanner
    NotFound <- MCNotFound
    Outputs <- MCOutputs
INVARIANTS
    TypeOK
    EchoMatches
    ArgvIsWords
PROPERTIES
    PromptReturns
