SPECIFICATION JobSpec
CONSTANTS
    a1 = a1
    a2 = a2
    b1 = b1
    article = article
    link = link
    Keys <- MCKeys
    JobIds <- MCJobIds
    KeyOf <- MCKeyOf
    ArticleKeys <- MCArticles
    NoJob = NoJob
    Stale = 2
    MaxWait = 2
INVARIANT DeadArticleReplayable
