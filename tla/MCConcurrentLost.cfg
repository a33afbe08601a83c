CONSTANTS
    A = A  B = B  m1 = m1  m2 = m2  r1 = r1  r2 = r2
    Session <- OneSession
    Path <- OnePath
    Archived <- NoPaths
    StandardName <- AllButThree
    MayHold <- EachItsOwn
    TimeOf <- Times
    DirOf <- Days
    MTime = {m1, m2}
    NoFile = NoFile  NoRow = NoRow  NoDoc = NoDoc  None = None
    MaxLen = 2
    MaxChanges = 2
    MoveBack = FALSE
    Refresher = {r1, r2}
    BatchSize = 1
    MaxFaults = 0
SYMMETRY Symmetry
SPECIFICATION Spec
INVARIANTS
    MessagesCoverHash
