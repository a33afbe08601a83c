CONSTANTS
    A = A  B = B  p1 = p1  p2 = p2  x = x  y = y
    Session = {A, B}
    Row <- Rows
    NoRow = NoRow
    Message <- Messages
    Batches <- SmallBatches
    MaxRowid = 6
    Mentions <- Occurrences
    ShortQuery <- Short
    Options <- Searches
SPECIFICATION Spec
INVARIANTS
    TypeOK
    LexicalSync
    NoOrphans
    AssignedRowidFree
    SearchComplete
    ShortSearchNewest
PROPERTIES
    ImplementsContract
CHECK_DEADLOCK TRUE
