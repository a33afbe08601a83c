CONSTANTS
    A = A  B = B  m1 = m1  m2 = m2  r1 = r1  r2 = r2
    Session <- TwoSessions
    Path <- ThreePaths
    Archived <- ArchivedPath
    StandardName <- AllButThree
    MayHold <- EachItsOwn
    TimeOf <- Times
    DirOf <- Days
    MTime = {m1, m2}
    NoFile = NoFile  NoRow = NoRow  NoDoc = NoDoc  None = None
    MaxLen = 2
    MaxChanges = 2
    MoveBack = FALSE
    Refresher = {r1}
    BatchSize = 2
    MaxFaults = 1
SYMMETRY Symmetry
SPECIFICATION Spec
INVARIANTS
    TypeOK
    FastPathSound
    HashSkipSound
    MessagesCoverHash
    RowsHaveMessages
    FingerprintNotAhead
    CleanRefreshMirrors
PROPERTIES
    LiveSessionKept
CHECK_DEADLOCK TRUE
