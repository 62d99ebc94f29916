SPECIFICATION Spec
CONSTANTS
    MaxFrames = 3
    MaxLocals = 1
    MaxResults = 2
    MaxCtxs = 2
    Unwinds = {TRUE, FALSE}
CONSTRAINT SoundBelow
INVARIANTS
    LocalsIntact
    ValuesDelivered
    UndefinedOnlyWhenOdd
