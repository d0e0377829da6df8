\* The owner destroys the server in the end, and then nothing happens any more.
CONSTANTS
    Owner = "main"
    Stopper = {"s1", "s2"}
    MaxRuns = 1
    MaxClients = 2
SPECIFICATION Spec
INVARIANT TypeOK
INVARIANT LoopIsCurrent
PROPERTY StopReturns
PROPERTY StopCloses
PROPERTY JoinReturns
CHECK_DEADLOCK FALSE
