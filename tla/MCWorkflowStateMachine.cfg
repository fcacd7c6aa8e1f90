\* Two machines, every sequence of transition() calls.  No bound is needed:
\* the table has no cycle.
CONSTANTS
    m1 = m1
    m2 = m2
    Machines <- MCMachines
SPECIFICATION Spec
INVARIANTS SentPassedEveryGate NoDeadEnd NeverRevisited
\* Machines in terminal states accept no call.
CHECK_DEADLOCK FALSE
