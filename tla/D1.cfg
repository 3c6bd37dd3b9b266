SPECIFICATION PlaneSpec
CONSTANTS
    a1 = a1
    a2 = a2
    jt = jt
    jz = jz
    article = article
    telegram = telegram
    zhihu = zhihu
    texts = texts
    daily = daily
    window = window
    Keys <- MCKeys
    JobIds <- MCJobIds
    KeyOf <- MCKeyOf
    ArticleKeys <- MCArticles
    NoJob = NoJob
    Stale = 0
    MaxWait = 0
    MaxFailures = 3
    Clients = {r1, r2}
    Sources <- MCSources
    AnswerLost = FALSE
    Evicted = FALSE
    Singles = {texts}
    Batched = {daily, window}
    Limit <- MCLimit
    Length <- MCLength
    Buckets <- MCBuckets
    BucketOf <- MCBucketOf
    EndOf <- MCEndOf
    MaxTime = 5
    MaxLate = 0
    Callers = {c1, c2}
    Attempts = 2
    Messages = {m1, m2}
    Leases = {l1, l2}
    NoLease = NoLease
    NoMessage = NoMessage
    BatchSize = 2
    Visibility = 1
    MaxDelay = 1
    MaxRetries = 0
    Pullers = {p1, p2}
SYMMETRY Symmetry
INVARIANTS
    D1LedgerSafe
    D1RatesSafe
PROPERTIES
    LedgerPromise
    RunPromise
    RatePromise
    D1InboxSafe
