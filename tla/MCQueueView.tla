----------------------------- MODULE MCQueueView -----------------------------
EXTENDS QueueView

CONSTANTS d1, d2, d3

ThreeDrafts == {d1, d2, d3}
=============================================================================
