SPECIFICATION Spec
CONSTANTS
    Vars = {v1, v2}
    Blocks = {b1, b2, b3, b4}
    Null = Null
    Junk = Junk
    MaxLen = 1
    MaxCount = 2
    Offsets = {0, 2, 10}
    Counts = {1, 10}
    SizeMod = 64
CONSTRAINT FewOddities
SYMMETRY Symmetry
INVARIANTS
    OneOwner
    NoLeak
    Terminated
    UndefinedOnlyWhenOdd
