\* Two tasks, nested blocks of two roles, a tool that suspends, one that does
\* not, the one kept from the agent and a name nobody registered; a failing
\* disk and one end of the process.
CONSTANTS
    t1 = t1
    t2 = t2
    Garbled = Garbled
    Tasks <- TwoTasks
    Names <- SomeNames
    ActingRoles <- AgentAndReviewer
    MaxCalls = 2
    MaxOpen = 2
    MaxFaults = 1
    MaxRestarts = 1
SPECIFICATION Spec
INVARIANTS RoleFollowsBlocks OperatorIsConfined AuditTellsTheCalls
    FailedWriteCostsOneEvent RecentHasNoHoles
PROPERTIES RefusalIsRecorded
