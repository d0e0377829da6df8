\* Three replicas that exchange changes only.
CONSTANTS
    Client = {1, 2, 3}
    Value = {"x"}
    NoValue = ""
    MaxChanges = 3
SPECIFICATION ChangeSpec
INVARIANT BufferedOnlyWhileBlocked
PROPERTY ImplementsDocument
