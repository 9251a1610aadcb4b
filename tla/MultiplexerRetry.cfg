\* A wrapper that calls next again, as one that retries would.
SPECIFICATION Spec
CONSTANTS
    a = a
    b = b
    n = n
    Words <- MCWords
    Empty = Empty
    Names <- MCNames
    NoName = NoName
    Methods = {"GET", "POST"}
    MaxCalls = 4
    MaxNext = 2
    Handlers <- MCHandlers
    NoHandler = NoHandler
    Base <- MCBase
    Tables <- MCTables
    WrapperLists <- MCWrapperLists
    Requests <- MCRequests
    Chunks <- MCChunks
    RoutePaths <- MCRoutePaths
INVARIANTS
    InsideWrappers
CHECK_DEADLOCK FALSE
