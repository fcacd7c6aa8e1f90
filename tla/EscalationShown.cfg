CONSTANTS
    w1 = w1
    w2 = w2
    alice = alice
    bob = bob
    NoReviewer = NoReviewer
    NoTask = NoTask
    Workflows <- OneWorkflow
    Reviewers <- TwoReviewers
    Bodies <- AllBodies
    GUARDRAILS_ENABLE_INPUT = TRUE
    GUARDRAILS_ENABLE_OUTPUT = TRUE
SPECIFICATION Spec
INVARIANTS EscalationIsShown
