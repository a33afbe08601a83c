CONSTANTS
    A = A  B = B  m1 = m1
    Session <- TwoSessions
    Path <- ThreePaths
    Archived <- ArchivedPath
    StandardName <- AllButThree
    MayHold <- EachItsOwn
    TimeOf <- Times
    MTime = {m1}
    NoFile = NoFile  None = None
    MaxLen = 2
    MaxChanges = 0
    MoveBack = FALSE
    Says <- BrokenTalk
    Query <- SpacedQuery
    DirOf <- Days
    Searches <- OneOrAll
SPECIFICATION Spec
INVARIANTS
    RipgrepOnlyFilters
