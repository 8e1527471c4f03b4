SPECIFICATION FairSpec
CONSTANTS
    KBUF_SIZE = 3
    ScanCodes <- MCRingCodes
    Keys <- MCKeys
    scanToKeycode <- MCscanToKeycode
    KEY_LSHIFT = "KEY_LSHIFT"
    KEY_RSHIFT = "KEY_RSHIFT"
    KEY_CAPS = "KEY_CAPS"
    ASCII <- MCASCII
    altASCII <- MCaltASCII
    Lower <- MCLower
    Upper <- MCUpper
    Burst = 1
INVARIANTS
    TypeOK
    ReadSlotStable
    KeysAgree
PROPERTIES
    FifoSpec
    LetterCase
    CharDelivered
