CONSTANTS
    r1 = r1
    r2 = r2
    t1 = t1
    t2 = t2
    Runs <- OneRun
    EmailIds <- TwoThreads
    MarkedHeaders <- OneThread
    Drafts <- Draft
    Files <- EveryFile
    Fallible <- EveryDeterministicRail
    MaxCache = 1
SPECIFICATION Spec
INVARIANTS PassedDraftIsClean BodiesAreNeutralised SuspicionForcesReview
    EscalationIsNotLost BlockHasACause
\* Every run may be over.
CHECK_DEADLOCK FALSE
