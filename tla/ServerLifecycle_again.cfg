\* The server is started again after its first run was joined.
CONSTANTS
    Owner = "main"
    Stopper = {"s1"}
    MaxRuns = 2
    MaxClients = 1
SPECIFICATION Spec
INVARIANT LoopIsCurrent
CHECK_DEADLOCK FALSE
