SPECIFICATION Spec
VIEW StateView
CONSTANTS
    NULL = NULL
    Root = r
    DirIds = {r, d1}
    Blocks = {m1, m2, m3}
    Names = {"a", "b"}
    Paths <- MCPaths
    DeepPaths <- MCDeepPaths
    Data <- MCData
    Counts = {0, 1, 3}
    PwdRoom = 1
    MaxFiles = 2
    MayFail = {"dir", "node", "write"}
INVARIANTS
    DataOwned
