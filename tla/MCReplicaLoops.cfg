CONSTANTS
    Client = {1, 2}
    Value = {"x"}
    NoValue = ""
    Incoming <- MCStates
    Changes <- MCChanges
SPECIFICATION LoopsSpec
INVARIANT TypeOK
INVARIANT LoopInv
INVARIANT MergeIsOneStep
INVARIANT ApplyIsOneStep
INVARIANT WalkIsDocumentOrder
PROPERTY MergeReturns
PROPERTY ApplyReturns
