SPECIFICATION Spec
CONSTANTS
    Tables = {ta}
    NoTable = NoTable
    Keys = {0, 1, 2, 3}
    Values = {1, 2}
    Builds = {TRUE, FALSE}
INVARIANTS
    TypeOK
    SortIsSorting
    InsertLosesLast
    RemoveUndoesInsert
    MoveCopies
    ConcatFillsBuffer
PROPERTY ForeachVisitsAll
