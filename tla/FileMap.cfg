SPECIFICATION Spec
CONSTANTS
    Names <- MCNames
    Values = {u, v}
    NBuckets <- MCBuckets
    Bucket <- MCBucket
    Match <- FileMatch
INVARIANTS
    FindExact
