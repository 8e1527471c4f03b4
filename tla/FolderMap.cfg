SPECIFICATION Spec
CONSTANTS
    Names <- MCNames
    Values = {u, v}
    NBuckets <- MCBuckets
    Bucket <- MCBucket
    Match <- FolderMatch
INVARIANTS
    TypeOK
    ChainsSound
    ListFits
PROPERTIES
    NameMapSpec
