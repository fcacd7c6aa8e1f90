\* Three runs one after the other, two clicks at most that Tk has not handled.
\* The sitting ends when every draft has been through.
CONSTANTS
    d1 = d1
    d2 = d2
    d3 = d3
    Drafts <- ThreeDrafts
    Reviewer = alice
    NoReviewer = NoReviewer
    NoDraft = NoDraft
    MaxPresses = 2
SPECIFICATION Spec
INVARIANTS ClicksAreHonoured
PROPERTIES PendingIsOffered StalePaneGoes
