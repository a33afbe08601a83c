CONSTANTS
    o1 = o1  o2 = o2  x = x  y = y
    Opener = {o1, o2}
    Message = {x, y}
    MaxRowid = 2
    MaxFaults = 1
    NoTable = NoTable
SPECIFICATION FairSpec
INVARIANTS
    TypeOK
    ShapeMatchesVersion
    MessagesKept
    OpenedReady
PROPERTIES
    VersionNeverFalls
    EventuallyOpens
CHECK_DEADLOCK FALSE
