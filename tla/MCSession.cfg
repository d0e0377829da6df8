CONSTANTS
    Client = {1, 2, 3, 4}
    Value = {"x"}
    NoValue = ""
    Drawn <- MCDrawn
    Browser = {"a", "b"}
    MaxEdits = 2
    MaxFaults = 1
    MaxStates = 2
SPECIFICATION Spec
INVARIANT TypeOK
INVARIANT SequenceLeads
INVARIANT ReconnectPlanned
PROPERTY FreshElement
PROPERTY Converges
