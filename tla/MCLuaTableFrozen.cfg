SPECIFICATION Spec
CONSTANTS
    Tables = {ta}
    NoTable = NoTable
    Keys = {0, 1}
    Values = {1, 2}
    Builds = {FALSE}
PROPERTY FrozenIsNotWritten
