\* Nobody is made to press sync.
CONSTANTS
    Client = {1, 2, 3, 4}
    Value = {"x"}
    NoValue = ""
    Drawn <- MCDrawn
    Browser = {"a", "b"}
    MaxEdits = 1
    MaxFaults = 0
    MaxStates = 2
SPECIFICATION SystemSpec
PROPERTY Rebroadcast
