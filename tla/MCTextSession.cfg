CONSTANTS
    Client = {1, 2, 3}
    Value = {"x", "y", "z"}
    NoValue = ""
    Half = {}
    Junk = Junk
    Server = 9
    Browser = {"a", "b"}
    Drawn <- MCDrawn
    Texts <- MCTexts
    Stray <- MCStray
    MaxInputs = 2
    MaxStates = 2
SPECIFICATION Spec
INVARIANT TypeOK
INVARIANT SameLetters
PROPERTY AllOrNothing
PROPERTY EditsLand
PROPERTY RenderKeeps
PROPERTY TextConverges
