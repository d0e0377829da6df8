CONSTANTS
    Client = {1, 2, 3}
    Value = {"x", "high", "low"}
    NoValue = ""
    Half = {"high", "low"}
    Junk = Junk
    Server = 9
    Browser = {"a", "b"}
    Drawn <- MCDrawn
    Texts <- MCPairedTexts
    Stray <- MCNoStray
    MaxInputs = 1
    MaxStates = 1
SPECIFICATION Spec
PROPERTY TextConverges
