CONSTANTS
    A = A  B = B  m1 = m1
    Session <- TwoSessions
    Path <- ThreePaths
    Archived <- ArchivedPath
    StandardName <- AllButThree
    MayHold <- EachItsOwn
    TimeOf <- Times
    MTime = {m1}
    NoFile = NoFile  None = None
    MaxLen = 2
    MaxChanges = 3
    MoveBack = FALSE
    Says <- PlainTalk
    Query <- QuotedQuery
    DirOf <- Days
    Searches <- OneOrAll
    Selector <- Selectors
    FullID <- Ids
    Prefixes <- Beginnings
    Nothing = Nothing
    Contents <- ShortContents
    Blanks <- OnlySpace
    MaxSaid = 2
SPECIFICATION CommandsSpec
INVARIANTS
    TypeOK
    CleanSearchExact
    NoSilentLoss
    CancelReported
    LookupTypeOK
    QuietLookupExact
    LookupHeedsPresent
    OnlyRepetitionsMerge
    IndexedTypeOK
    ExistingIndexOnly
    ComparisonAccounts
    QuietComparisonAgrees
CHECK_DEADLOCK TRUE
