\* Changes and states mixed: a merge() lands what a buffered change waits for.
CONSTANTS
    Client = {1, 2}
    Value = {"x"}
    NoValue = ""
    MaxChanges = 3
SPECIFICATION Spec
INVARIANT ToldIsShown
