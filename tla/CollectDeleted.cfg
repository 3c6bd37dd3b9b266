SPECIFICATION CollectSpec
CONSTANTS
    Collectors = {c1}
    MaxSaved = 3
    TitleOf <- MCTitleOf
    Unreadable = {}
    PageSize = 1
    MaxPages = 2
    MaxCollectFaults = 0
INVARIANT DeletedMeansPublished
CHECK_DEADLOCK FALSE
