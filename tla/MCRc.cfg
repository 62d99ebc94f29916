SPECIFICATION FairSpec
CONSTANTS
    r1 = r1
    r2 = r2
    o1 = o1
    o2 = o2
    o3 = o3
    Roots = {r1, r2}
    Objects = {o1, o2, o3}
    Fields = {"next"}
    NoObject = NoObject
    NoSlot = NoSlot
    SizeMax = 5
    GetsRc = TRUE
INVARIANTS
    CountExact
    NoDangling
    SourceSurvives
    LeakOnlyByCycles
PROPERTIES
    DestructorsReturn
