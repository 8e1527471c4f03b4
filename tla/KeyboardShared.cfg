SPECIFICATION Spec
CONSTANTS
    KBUF_SIZE = 2
    ScanCodes <- MCHandsCodes
    Keys <- MCKeys
    scanToKeycode <- MCscanToKeycode
    KEY_LSHIFT = "KEY_LSHIFT"
    KEY_RSHIFT = "KEY_RSHIFT"
    KEY_CAPS = "KEY_CAPS"
    ASCII <- MCASCII
    altASCII <- MCaltASCII
    Lower <- MCLower
    Upper <- MCUpper
    Burst = 1
INVARIANT
    NoneForgotten
