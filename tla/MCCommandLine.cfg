\* A terminal with runs and one with commands about them; the driver looks
\* twice at the gate; one failure. Every process ends and no more are started.
CONSTANTS
    p1 = p1
    p2 = p2
    Machines <- SomeMachines
    Procs <- TwoProcs
    Commands <- SomeCommands
    MaxPolls = 2
    MaxStarts = 2
    MaxFaults = 1
SPECIFICATION Spec
INVARIANTS MixedOnlyWhenDisturbed ConsentLasts OnlyTheDriverDecides PrintedOutcomeIsTrue
PROPERTIES DriverEndsInTime
CHECK_DEADLOCK FALSE
