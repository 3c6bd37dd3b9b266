SPECIFICATION PlaneSpec
CONSTANTS
    i1 = i1
    i2 = i2
    u1 = u1
    u2 = u2
    title = title
    a1 = a1
    a2 = a2
    a3 = a3
    month = month
    name = name
    other = other
    Pod = pod
    Instances = {i1, i2}
    Urls = {u1, u2}
    ArticleTitle <- MCArticleTitle
    NoUrl = NoUrl
    Note = note
    MaxDay = 1
    MaxGitFaults = 1
    MaxNotes = 1
    Mirrors = {w1, w2}
    Articles = {a1, a2, a3}
    NoArticle = NoArticle
    MonthOf <- MCMonthOf
    NameOf <- MCNameOf
    MayCreate = TRUE
    MaxImaFaults = 1
    Collectors = {c1, c2}
    MaxSaved = 3
    TitleOf <- MCTitleOf
    Unreadable = {2}
    PageSize = 1
    MaxPages = 2
    MaxCollectFaults = 1
    Jobs = {n1, n2}
    Cron = cron
    Polling = polling
    Required = {"warp", "browser"}
    MaxKills = 1
    MaxStops = 1
    MaxHangUps = 1
    MaxErrors = 1
    Effects = {e1}
    JobIds = {j1}
    NoJob = NoJob
    Stale = 1
    Writers = {v1, v2, v3}
    MaxWrites = 3
    Beating = {1}
    Requests = {r1, r2}
    MaxClock = 5
    MaxSkew = 1
    Policies = {p1}
    Captures = {k1, k2}
    MaxTick = 3
    Keep = 1
    MaxReleases = 3
    MaxCommandFaults = 2
    MaxAge = 1
    MaxRto = 1
    MaxClockTicks = 3
    MaxIoFaults = 2
    RtoSeconds = 1
    MaxMoments = 3
    MaxStepFaults = 2
INVARIANTS
    PeripheryTypeOK
    MirrorSafe
    CollectSafe
    BrowserOutlivesBatch
    WakeSafe
    FirstClaimExclusive
    ReleaseSafe
    RestoreSafe
    RehearsalSafe
PROPERTIES
    ArchiveSafe
    CacheSafe
    AlertsSafe
CHECK_DEADLOCK FALSE
