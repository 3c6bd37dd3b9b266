SPECIFICATION RateSpec
SYMMETRY Symmetry
CONSTANTS
    daily = daily
    window = window
    Singles = {}
    Batched = {daily, window}
    Limit <- MCLimit
    Length <- MCLength
    Buckets <- MCBuckets
    BucketOf <- MCBucketOf
    EndOf <- MCEndOf
    MaxTime = 8
    MaxLate = 1
    Callers = {c1, c2}
INVARIANTS
    BatchLimitKept
