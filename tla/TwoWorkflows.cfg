\* Two workflows on one loop, one session: their steps, their entries in the
\* gate and the end of the process interleave.  The INPUT guardrails are
\* switched off here, as the settings allow; MCEmailWorkflow.cfg has them on.
CONSTANTS
    w1 = w1
    w2 = w2
    alice = alice
    bob = bob
    NoReviewer = NoReviewer
    NoTask = NoTask
    Workflows <- TwoWorkflows
    Reviewers <- OneReviewer
    Bodies <- PlainBodies
    GUARDRAILS_ENABLE_INPUT = FALSE
    GUARDRAILS_ENABLE_OUTPUT = TRUE
SPECIFICATION Spec
INVARIANTS QueueMatchesRuns
PROPERTIES DecisionTakesEffect KeepsTheGate
