\* One workflow in full: two reviewers who may both answer, every text the
\* LLM may write, a browser that asks for consent.
CONSTANTS
    w1 = w1
    w2 = w2
    alice = alice
    bob = bob
    NoReviewer = NoReviewer
    NoTask = NoTask
    Workflows <- OneWorkflow
    Reviewers <- TwoReviewers
    Bodies <- AllBodies
    GUARDRAILS_ENABLE_INPUT = TRUE
    GUARDRAILS_ENABLE_OUTPUT = TRUE
SPECIFICATION Spec
INVARIANTS EveryMailWasApproved AuditClaimsAreTrue ReturnedContextAgrees
    SuspicionIsOnRecord ReportsAreTrue
PROPERTIES RunReachesReviewerOrEnds KeepsPromise
