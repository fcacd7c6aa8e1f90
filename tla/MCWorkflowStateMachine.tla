----------------------- MODULE MCWorkflowStateMachine -----------------------
EXTENDS WorkflowStateMachine, TLC

CONSTANTS m1, m2

MCMachines == {m1, m2}
MCSymmetry == Permutations(MCMachines)
=============================================================================
