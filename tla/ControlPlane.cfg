SPECIFICATION PlaneSpec
CONSTANTS
    a1 = a1
    a2 = a2
    b1 = b1
    jt = jt
    jz = jz
    jd = jd
    article = article
    link = link
    telegram = telegram
    zhihu = zhihu
    dida = dida
    texts = texts
    daily = daily
    window = window
    Messages = {m1, m2}
    Leases = {l1, l2, l3}
    NoLease = NoLease
    NoMessage = NoMessage
    BatchSize = 2
    Visibility = 2
    MaxDelay = 1
    MaxRetries = 1
    Keys <- MCKeys
    JobIds <- MCJobIds
    KeyOf <- MCKeyOf
    ArticleKeys <- MCArticles
    NoJob = NoJob
    Stale = 1
    MaxWait = 1
    Sources <- MCSources
    AnswerLost = TRUE
    Evicted = TRUE
    Singles = {texts}
    Batched = {daily, window}
    Limit <- MCLimit
    Length <- MCLength
    Buckets <- MCBuckets
    BucketOf <- MCBucketOf
    EndOf <- MCEndOf
    MaxTime = 8
    MaxLate = 1
    Callers = {c1, c2}
    Jobs = {n1}
    Cron = cron
    Polling = polling
    Required = {"warp", "browser"}
    MaxKills = 1
    MaxStops = 1
    MaxHangUps = 1
    MaxErrors = 1
INVARIANTS
    PlaneTypeOK
    LeaseExclusive
    NoMessageLost
    LedgerSafe
    RunTellsJobs
    SingleLimitKept
    BatchLimitKept
    DeferredPastItsBuckets
PROPERTIES
    OnlyHolderEnds
    TerminalIsFinal
    RunSettles
    EveryStagedPulled
    ShutdownEnds
