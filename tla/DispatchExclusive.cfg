SPECIFICATION Spec
CONSTANTS
    j1 = j1
    j2 = j2
    j3 = j3
    link = link
    article = article
    cubox = cubox
    archive = archive
    NoLease = NoLease
    NoMessage = NoMessage
    NoJob = NoJob
    NoKey = NoKey
    NoEffectKey = NoEffectKey
    Keys <- OneKeys
    Effects <- OneEffects
    FollowUp <- OneFollowUp
    JobIds <- SoloJobIds
    KeyOf <- SoloKeyOf
    Messages <- SoloMessages
    Submitted <- SoloJobIds
    ArticleKeys <- Articles
    ReplayKeys = {}
    Workers = {w1, w2}
    Leases = {l1, l2, l3}
    BatchSize = 1
    Visibility = 1
    MaxDelay = 1
    MaxRetries = 2
    Stale = 2
    MaxWait = 2
    MaxFaults = 0
    MaxRefusals = 0
    Overrun = TRUE
SYMMETRY Symmetry
INVARIANTS
    ExclusiveExecution
