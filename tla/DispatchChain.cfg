SPECIFICATION Spec
CONSTANTS
    j1 = j1
    j2 = j2
    j3 = j3
    link = link
    article = article
    cubox = cubox
    archive = archive
    NoLease = NoLease
    NoMessage = NoMessage
    NoJob = NoJob
    NoKey = NoKey
    NoEffectKey = NoEffectKey
    Keys <- ChainKeys
    Effects <- ChainEffects
    FollowUp <- ChainFollowUp
    JobIds <- ChainJobIds
    KeyOf <- ChainKeyOf
    Messages <- ChainMessages
    Submitted <- ChainSubmitted
    ArticleKeys <- Articles
    ReplayKeys = {}
    Workers = {w1, w2}
    Leases = {l1, l2, l3}
    BatchSize = 2
    Visibility = 1
    MaxDelay = 1
    MaxRetries = 2
    Stale = 2
    MaxWait = 2
    MaxFaults = 1
    MaxRefusals = 1
    Overrun = FALSE
SYMMETRY Symmetry
INVARIANTS
    DoneMeansDelivered
