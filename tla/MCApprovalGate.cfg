\* Two drafts and two reviewers: decisions for one draft interleave with the
\* life of the other, and a second reviewer can answer in the same loop tick.
CONSTANTS
    d1 = d1
    d2 = d2
    alice = alice
    bob = bob
    NoReviewer = NoReviewer
    Drafts <- MCDrafts
    Reviewers <- MCReviewers
SPECIFICATION Spec
INVARIANTS ReturnedIsRecorded
PROPERTIES RecordFrozen AnswerIsDelivered
\* Every draft may have been decided.
CHECK_DEADLOCK FALSE
