\* The subject of the thread holds a marker, its bodies hold one or none; no
\* rail raises.
CONSTANTS
    r1 = r1
    r2 = r2
    t1 = t1
    t2 = t2
    Runs <- OneRun
    EmailIds <- OneThread
    MarkedHeaders <- OneThread
    Drafts <- TwoDrafts
    Files <- NoMistake
    Fallible <- NoRail
    MaxCache = 1
SPECIFICATION Spec
INVARIANT AgentReadsNoRawMarker
\* A run may be over.
CHECK_DEADLOCK FALSE
