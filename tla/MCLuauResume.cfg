SPECIFICATION Spec
CONSTANTS
    Values = {"a", "f"}
    Callable = {"f"}
    MaxValues = 2
    MaxStack = 4
    MaxRuns = 4
INVARIANTS
    OneValueDelivered
    StartedOnce
    UndefinedOnlyWhenEmpty
