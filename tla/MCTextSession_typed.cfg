CONSTANTS
    Client = {1, 2, 3}
    Value = {"x", "y", "z"}
    NoValue = ""
    Half = {}
    Junk = Junk
    Server = 9
    Browser = {"a", "b"}
    Drawn <- MCDrawn
    Texts <- MCTexts
    Stray <- MCNoStray
    MaxInputs = 2
    MaxStates = 1
SPECIFICATION Spec
PROPERTY TypedIsRendered
