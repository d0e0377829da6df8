CONSTANTS
    Client = {1, 2}
    Value = {"x"}
    NoValue = ""
    MaxChanges = 4
SPECIFICATION Spec
INVARIANT TypeOK
INVARIANT CausallyClosed
INVARIANT OneOrigin
INVARIANT ChildrenMirrorNodes
INVARIANT BufferIndexed
INVARIANT NothingLost
INVARIANT AppliedTookEffect
INVARIANT Convergence
PROPERTY NoResurrection
