CONSTANTS
    r1 = r1
    r2 = r2
    t1 = t1
    t2 = t2
    Runs <- TwoRuns
    EmailIds <- OneThread
    MarkedHeaders <- OneThread
    Drafts <- TwoDrafts
    Files <- JudgingFiles
    Fallible <- NoRail
    MaxCache = 1
SPECIFICATION Spec
INVARIANTS CacheIsSound
PROPERTIES EveryRunGetsAVerdict
\* Every run may be over.
CHECK_DEADLOCK FALSE
