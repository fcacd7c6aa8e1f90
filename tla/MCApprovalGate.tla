--------------------------- MODULE MCApprovalGate ---------------------------
EXTENDS ApprovalGate

CONSTANTS d1, d2, alice, bob

MCDrafts == {d1, d2}
MCReviewers == {alice, bob}
=============================================================================
