\* 3-bit entries: UMax = 7, Cap = 3, so sums saturate after two steps.
CONSTANTS
    Client = {1, 2}
    Cap = 3
    Amount = {1, 3}
    MaxBumps = 3
SPECIFICATION FittingSpec
INVARIANT TypeOK
INVARIANT OwnerLeads
INVARIANT EntryIsLargestHeard
INVARIANT SumIsOrderFree
PROPERTY EntriesOnlyGrow
PROPERTY IncrementNeverLowers
