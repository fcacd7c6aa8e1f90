-------------------------- MODULE MCEmailWorkflow --------------------------
EXTENDS EmailWorkflow

CONSTANTS w1, w2, alice, bob

OneWorkflow == {w1}
TwoWorkflows == {w1, w2}
OneReviewer == {alice}
TwoReviewers == {alice, bob}
AllBodies == {"plain", "pii"}
PlainBodies == {"plain"}

=============================================================================
